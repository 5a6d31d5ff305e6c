---------------------- MODULE RefreshSessionsProofs ----------------------
(***************************************************************************)
(* Theorems about RefreshSessions, for every number of requests, tokens    *)
(* and families and every value of the limits.                             *)
(***************************************************************************)
EXTENDS RefreshSessions, FiniteSetTheorems, TLAPS

\* A rotated row has a family, so reuse detection always finds its siblings.
RotatedHasFamily ==
    \A t \in Tokens : tokens[t].rotated => tokens[t].family # NoFamily

\* A rotation in flight holds a token that keeps the family it was read with.
RotatingHasFamily ==
    \A r \in Requests :
        req[r].pc = "rotate" /\ req[r].family # NoFamily =>
            tokens[req[r].token].family # NoFamily

\* Which fields of a handler's state are set at which point of it.
WellFormed(q) ==
    /\ q.op = "login" /\ q.pc # "generate" => q.token \in Tokens /\ q.family \in Families
    /\ q.pc = "create" => q.op = "login"
    /\ q.pc = "rotate" => q.op = "rotate" /\ q.token \in Tokens
    /\ q.pc = "logout" => q.token \in Tokens
    /\ q.pc \in {"rotate", "logout"} /\ q.hadSession => q.family \in Families
    /\ q.pc \in {"read", "write"} => q.target \in Families

ControlInv == \A r \in Requests : WellFormed(req[r])

TypeInv == TypeOK /\ RotatedHasFamily /\ RotatingHasFamily /\ ControlInv

LEMMA IdleRequestType ==
    IdleRequest \in Request /\ WellFormed(IdleRequest) /\ IdleRequest.pc # "rotate"
BY DEF IdleRequest, Request, WellFormed

LEMMA RevokeFamilyType ==
    ASSUME TypeOK, NEW f \in Families
    PROVE  /\ RevokeFamily(f) \in [Tokens -> TokenRow]
           /\ \A t \in Tokens : /\ RevokeFamily(f)[t].family = tokens[t].family
                                /\ RevokeFamily(f)[t].issued = tokens[t].issued
                                /\ RevokeFamily(f)[t].rotated = tokens[t].rotated
                                /\ RevokeFamily(f)[t].acceptedAt = tokens[t].acceptedAt
BY DEF TypeOK, RevokeFamily, TokenRow

LEMMA AfterTargetType ==
    ASSUME TypeInv, NEW r \in Requests, req[r].pc \in {"read", "write"}
    PROVE  /\ AfterTarget(r) \in Request
           /\ AfterTarget(r).pc # "rotate"
           /\ WellFormed(AfterTarget(r))
<1>1. req[r] \in Request /\ WellFormed(req[r])
  BY DEF TypeInv, TypeOK, ControlInv
<1>2. CASE req[r].todo # {}
  BY <1>1, <1>2 DEF AfterTarget, Request, WellFormed
<1>3. CASE req[r].todo = {} /\ req[r].op = "login"
  BY <1>1, <1>3 DEF AfterTarget, Request, WellFormed
<1>4. CASE req[r].todo = {} /\ req[r].op # "login"
  BY <1>4, IdleRequestType DEF AfterTarget, IdleRequest, WellFormed
<1> QED
  BY <1>2, <1>3, <1>4

LEMMA NewTokenType ==
    ASSUME TypeOK, NEW f \in Families, NEW at \in Nat
    PROVE  /\ NewToken(f, at) \in TokenRow
           /\ NewToken(f, at).family = f
           /\ NewToken(f, at).rotated = FALSE
BY ConstantsAssumption DEF TypeOK, NewToken, TokenRow

LEMMA CreateSessionType ==
    ASSUME TypeOK, NEW e \in Nat
    PROVE  CreateSession(e) \in SessionRow
BY DEF TypeOK, CreateSession, SessionRow

LEMMA RevokeRowType ==
    ASSUME NEW s \in SessionRow, NEW why \in Reasons \cup {"none"}
    PROVE  RevokeRow(s, why) \in SessionRow
BY DEF RevokeRow, SessionRow

\* What a request starts or continues as is a request.
LEMMA TypeInit == Init => TypeInv
<1> SUFFICES ASSUME Init PROVE TypeInv
  OBVIOUS
<1> USE DEF Init
<1>1. tokens \in [Tokens -> TokenRow] /\ RotatedHasFamily
  <2>1. PICK fam \in [Legacy -> Families \cup {NoFamily}] :
          tokens = [t \in Tokens |->
                IF t \in Legacy
                THEN [NoTokenRow EXCEPT !.issued = TRUE, !.family = fam[t],
                                        !.expires = RefreshTTL]
                ELSE NoTokenRow]
    OBVIOUS
  <2>2. RefreshTTL \in Nat
    BY ConstantsAssumption
  <2>3. \A t \in Tokens : tokens[t] \in TokenRow /\ tokens[t].rotated = FALSE
    BY <2>1, <2>2 DEF TokenRow, NoTokenRow
  <2> QED
    BY <2>1, <2>3 DEF RotatedHasFamily
<1>2. sessions \in [Families -> SessionRow]
  BY DEF SessionRow, NoSessionRow
<1>3. req \in [Requests -> Request]
  BY IdleRequestType
<1>4. RotatingHasFamily /\ ControlInv
  BY IdleRequestType DEF RotatingHasFamily, ControlInv
<1>5. held \subseteq Tokens
  BY ConstantsAssumption
<1> QED
  BY <1>1, <1>2, <1>3, <1>4, <1>5 DEF TypeInv, TypeOK

\* A row keeps a family once it has one.
FamiliesKept ==
    \A t \in Tokens : tokens[t].family # NoFamily => tokens'[t].family # NoFamily

\* A step of request r that starts no rotation keeps the invariant if it keeps
\* the tables well typed.
LEMMA RequestStep ==
    ASSUME TypeInv, NEW r \in Requests, NEW state \in Request,
           Become(r, state), WellFormed(state), state.pc # "rotate", FamiliesKept,
           account' \in {"active", "suspended"},
           tokens' \in [Tokens -> TokenRow], RotatedHasFamily',
           sessions' \in [Families -> SessionRow],
           held' \subseteq Tokens, now' \in Nat
    PROVE  TypeInv'
<1>1. req' \in [Requests -> Request]
  BY DEF TypeInv, TypeOK, Become
<1>2. ControlInv'
  BY DEF TypeInv, TypeOK, ControlInv, Become, WellFormed
<1>3. RotatingHasFamily'
  BY DEF TypeInv, TypeOK, RotatingHasFamily, ControlInv, WellFormed, Become, FamiliesKept
<1> QED
  BY <1>1, <1>2, <1>3 DEF TypeInv, TypeOK

\* The same for a step that leaves the tables alone.
LEMMA ControlStep ==
    ASSUME TypeInv, NEW r \in Requests, NEW state \in Request,
           Become(r, state), WellFormed(state), state.pc # "rotate",
           UNCHANGED <<account, tokens, sessions, held, now>>
    PROVE  TypeInv'
<1>1. FamiliesKept /\ RotatedHasFamily'
  BY DEF FamiliesKept, TypeInv, RotatedHasFamily
<1> QED
  BY <1>1, RequestStep DEF TypeInv, TypeOK

\* The same for a step that revokes a family.
LEMMA RevokeFamilyStep ==
    ASSUME TypeInv, NEW r \in Requests, NEW state \in Request, NEW f \in Families,
           Become(r, state), WellFormed(state), state.pc # "rotate",
           account' \in {"active", "suspended"},
           tokens' = RevokeFamily(f), UNCHANGED <<sessions, held, now>>
    PROVE  TypeInv'
<1>1. FamiliesKept /\ RotatedHasFamily' /\ tokens' \in [Tokens -> TokenRow]
  BY RevokeFamilyType DEF FamiliesKept, TypeInv, RotatedHasFamily
<1> QED
  BY <1>1, RequestStep DEF TypeInv, TypeOK

\* A rotation that decides to revoke has a family to revoke.
LEMMA VerdictHasFamily ==
    ASSUME TypeInv, NEW t \in Tokens, RotateVerdict(t) \in Reasons
    PROVE  tokens[t].family # NoFamily
<1> SUFFICES ASSUME tokens[t].family = NoFamily PROVE FALSE
  OBVIOUS
<1>1. ~tokens[t].rotated
  BY DEF TypeInv, RotatedHasFamily
<1>2. TimeoutPolicy(SessionOf(t)) = "none"
  BY DEF SessionOf, NoSessionRow, TimeoutPolicy
<1>3. RotateVerdict(t) \in {"refused", "accepted"}
  BY <1>1, <1>2 DEF RotateVerdict
<1> QED
  BY <1>3 DEF Reasons

LEMMA TypeNext == TypeInv /\ [Next]_vars => TypeInv'
<1> SUFFICES ASSUME TypeInv, [Next]_vars PROVE TypeInv'
  OBVIOUS
<1>0. RefreshTTL \in Nat /\ NoFamily \notin Families
  BY ConstantsAssumption
<1>t. /\ TypeOK /\ now \in Nat /\ now + RefreshTTL \in Nat
      /\ \A r \in Requests : req[r] \in Request /\ WellFormed(req[r])
      /\ \A t \in Tokens : tokens[t] \in TokenRow
      /\ \A f \in Families : sessions[f] \in SessionRow
  BY <1>0 DEF TypeInv, TypeOK, ControlInv
<1>n. \A f \in Families, at \in Nat :
        /\ NewToken(f, at) \in TokenRow
        /\ NewToken(f, at).family = f
        /\ NewToken(f, at).rotated = FALSE
  BY <1>t, NewTokenType
<1>1. ASSUME NEW r \in Requests, LoginAuthenticate(r) PROVE TypeInv'
  <2> DEFINE state == [IdleRequest EXCEPT !.op = "login", !.pc = "generate"]
  <2>1. state \in Request /\ WellFormed(state) /\ state.pc # "rotate"
    BY DEF IdleRequest, Request, WellFormed
  <2> HIDE DEF state
  <2> QED
    BY <1>1, <2>1, ControlStep DEF LoginAuthenticate, state
<1>2. ASSUME NEW r \in Requests, LoginCommit(r) PROVE TypeInv'
  <2>1. PICK t \in Tokens, f \in Families :
         /\ tokens' = [tokens EXCEPT ![t] = NewToken(f, now)]
         /\ sessions' = [sessions EXCEPT ![f] = CreateSession(now + RefreshTTL)]
         /\ Deliver(t)
    BY <1>2 DEF LoginCommit
  <2>2. tokens' \in [Tokens -> TokenRow] /\ RotatedHasFamily' /\ FamiliesKept
    BY <1>0, <1>t, <1>n, <2>1 DEF TypeInv, TypeOK, RotatedHasFamily, FamiliesKept
  <2>3. sessions' \in [Families -> SessionRow] /\ held' \subseteq Tokens
    BY <1>t, <2>1, CreateSessionType DEF TypeOK, Deliver
  <2>4. Become(r, IdleRequest) /\ UNCHANGED <<account, now>>
    BY <1>2 DEF LoginCommit, Finish
  <2> QED
    BY <1>t, <2>2, <2>3, <2>4, IdleRequestType, RequestStep DEF TypeOK
<1>3. ASSUME NEW r \in Requests, LoginEvict(r) PROVE TypeInv'
  <2> DEFINE state(E, t, f, e) ==
               [req[r] EXCEPT !.pc = "read", !.token = t, !.family = f,
                          !.target = e, !.todo = E \ {e},
                          !.reason = "concurrent_limit", !.at = now + RefreshTTL]
  <2>1. PICK E \in Evictable \ {{}}, t \in Tokens, f \in Families : \E e \in Oldest(E) :
         /\ tokens' = [RevokeFamily(e) EXCEPT ![t] = NewToken(f, now)]
         /\ Become(r, state(E, t, f, e))
    BY <1>3 DEF LoginEvict
  <2>2. PICK e \in Oldest(E) :
         /\ tokens' = [RevokeFamily(e) EXCEPT ![t] = NewToken(f, now)]
         /\ Become(r, state(E, t, f, e))
    BY <2>1
  <2>3. E \ {e} \in SUBSET Families /\ e \in Families
    BY <2>2 DEF Evictable, ActiveSessions, Oldest
  <2>4. /\ state(E, t, f, e) \in Request
        /\ WellFormed(state(E, t, f, e))
        /\ state(E, t, f, e).pc # "rotate"
    <3>1. req[r] \in Request /\ "concurrent_limit" \in Reasons
      BY <1>t DEF Reasons
    <3> HIDE DEF Reasons
    <3> QED
      BY <1>t, <2>3, <3>1 DEF Request, WellFormed
  <2>5. tokens' \in [Tokens -> TokenRow] /\ RotatedHasFamily' /\ FamiliesKept
    BY <1>0, <1>t, <1>n, <2>2, <2>3, RevokeFamilyType
    DEF TypeInv, RotatedHasFamily, FamiliesKept
  <2>6. Become(r, state(E, t, f, e)) /\ UNCHANGED <<account, sessions, held, now>>
    BY <1>3, <2>2 DEF LoginEvict
  <2> HIDE DEF state
  <2> QED
    BY <1>t, <2>4, <2>5, <2>6, RequestStep DEF TypeOK
<1>4. ASSUME NEW r \in Requests, LoginCreate(r) PROVE TypeInv'
  <2>1. req[r].token \in Tokens
    BY <1>4, <1>t DEF LoginCreate, WellFormed
  <2>2. sessions' \in [Families -> SessionRow] /\ held' \subseteq Tokens
    BY <1>4, <1>t, <2>1, CreateSessionType DEF LoginCreate, Deliver, TypeOK, Request
  <2>3. RotatedHasFamily' /\ FamiliesKept /\ Become(r, IdleRequest)
    BY <1>4 DEF LoginCreate, Finish, TypeInv, RotatedHasFamily, FamiliesKept
  <2> QED
    BY <1>4, <1>t, <2>2, <2>3, IdleRequestType, RequestStep DEF LoginCreate, TypeOK
<1>5. ASSUME NEW r \in Requests, NEW t \in Tokens, RotateRead(r, t) PROVE TypeInv'
  <2> DEFINE start == [IdleRequest EXCEPT !.op = "rotate", !.token = t,
                         !.family = tokens[t].family, !.at = now,
                         !.hadSession = SessionOf(t).status # "none"]
             rotating == [start EXCEPT !.pc = "rotate"]
             sweeping == [start EXCEPT !.pc = "sweep", !.todo = {tokens[t].family},
                                       !.reason = RotateVerdict(t)]
  <2>0. UNCHANGED <<account, tokens, sessions, held, now>>
    BY <1>5 DEF RotateRead
  <2>f. tokens[t].family \in Families \cup {NoFamily}
    BY <1>t DEF TokenRow
  <2>s. /\ start \in Request /\ start.op = "rotate" /\ start.pc = "idle"
        /\ start.token = t /\ start.family = tokens[t].family
        /\ start.hadSession => start.family \in Families
    BY <1>t, <2>f DEF IdleRequest, Request, SessionOf, NoSessionRow
  <2> HIDE DEF start
  <2>1. CASE Become(r, rotating)
    <3>1. rotating \in Request /\ WellFormed(rotating)
      BY <2>s DEF Request, WellFormed
    <3>2. rotating.token = t /\ rotating.family = tokens[t].family
      BY <2>s DEF Request
    <3> HIDE DEF rotating
    <3>3. req' \in [Requests -> Request] /\ ControlInv'
      BY <1>t, <2>0, <2>1, <3>1 DEF Become, TypeOK, ControlInv, WellFormed
    <3>4. RotatingHasFamily'
      BY <1>t, <2>0, <2>1, <3>2 DEF Become, TypeInv, TypeOK, RotatingHasFamily
    <3> QED
      BY <2>0, <3>3, <3>4 DEF TypeInv, TypeOK, RotatedHasFamily
  <2>2. CASE RotateVerdict(t) \in Reasons /\ Become(r, sweeping)
    <3>1. tokens[t].family \in Families
      BY <2>2, <2>f, VerdictHasFamily
    <3>2. sweeping \in Request /\ WellFormed(sweeping) /\ sweeping.pc # "rotate"
      BY <2>2, <2>s, <3>1 DEF Request, WellFormed
    <3> HIDE DEF sweeping
    <3> QED
      BY <2>0, <2>2, <3>2, ControlStep
  <2> QED
    BY <1>5, <2>1, <2>2 DEF RotateRead, start
<1>6. ASSUME NEW r \in Requests, RotateCommit(r) PROVE TypeInv'
  <2>1. PICK n \in Tokens, f \in Families :
         /\ tokens' = [tokens EXCEPT
                ![req[r].token] =
                    RotatedRow(@, IF req[r].family = NoFamily THEN f ELSE NoFamily),
                ![n] = NewToken(f, req[r].at)]
         /\ sessions' = [sessions EXCEPT ![f] =
                IF req[r].hadSession THEN Touch(@, now + RefreshTTL)
                ELSE CreateSession(now + RefreshTTL)]
         /\ Deliver(n)
    BY <1>6 DEF RotateCommit
  <2>2. /\ req[r].token \in Tokens /\ req[r].at \in Nat
        /\ req[r].family # NoFamily => tokens[req[r].token].family # NoFamily
    BY <1>6, <1>t DEF RotateCommit, WellFormed, Request, TypeInv, RotatingHasFamily
  <2> DEFINE row == RotatedRow(tokens[req[r].token],
                        IF req[r].family = NoFamily THEN f ELSE NoFamily)
  <2>3. row \in TokenRow /\ row.family # NoFamily
    BY <1>0, <1>t, <2>2 DEF RotatedRow, TokenRow
  <2>4. tokens' = [[tokens EXCEPT ![req[r].token] = row] EXCEPT ![n] = NewToken(f, req[r].at)]
    BY <2>1
  <2> HIDE DEF row
  <2>5. tokens' \in [Tokens -> TokenRow] /\ RotatedHasFamily' /\ FamiliesKept
    BY <1>0, <1>t, <1>n, <2>2, <2>3, <2>4 DEF TypeInv, TypeOK, RotatedHasFamily, FamiliesKept
  <2>6. sessions' \in [Families -> SessionRow] /\ held' \subseteq Tokens
    <3>1. Touch(sessions[f], now + RefreshTTL) \in SessionRow
      BY <1>t DEF Touch, SessionRow
    <3> QED
      BY <1>t, <2>1, <3>1, CreateSessionType DEF TypeOK, Deliver
  <2>7. Become(r, IdleRequest) /\ UNCHANGED <<account, now>>
    BY <1>6 DEF RotateCommit, Finish
  <2> QED
    BY <1>t, <2>5, <2>6, <2>7, IdleRequestType, RequestStep DEF TypeOK
<1>7. ASSUME NEW r \in Requests, RotateConflict(r) PROVE TypeInv'
  BY <1>7, IdleRequestType, ControlStep DEF RotateConflict, Finish
<1>8. ASSUME NEW r \in Requests, NEW t \in Tokens, LogoutRead(r, t) PROVE TypeInv'
  <2> DEFINE state == [IdleRequest EXCEPT !.op = "logout", !.pc = "logout",
                     !.token = t, !.family = tokens[t].family,
                     !.reason = "user_logout",
                     !.hadSession = SessionOf(t).status = "active"]
  <2>1. tokens[t].family \in Families \cup {NoFamily}
    BY <1>t DEF TokenRow
  <2>2. state \in Request /\ WellFormed(state) /\ state.pc # "rotate"
    BY <2>1 DEF IdleRequest, Request, Reasons, WellFormed, SessionOf, NoSessionRow
  <2> HIDE DEF state
  <2> QED
    BY <1>8, <2>2, ControlStep DEF LogoutRead, state
<1>9. ASSUME NEW r \in Requests, LogoutCommit(r) PROVE TypeInv'
  <2>1. /\ req[r].token \in Tokens /\ req[r].reason \in Reasons \cup {"none"}
        /\ req[r].hadSession => req[r].family \in Families
    BY <1>9, <1>t DEF LogoutCommit, WellFormed, Request
  <2>2. tokens' \in [Tokens -> TokenRow] /\ RotatedHasFamily' /\ FamiliesKept
    BY <1>9, <1>t, <2>1
    DEF LogoutCommit, TypeInv, TypeOK, TokenRow, RotatedHasFamily, FamiliesKept
  <2>3. sessions' \in [Families -> SessionRow]
    BY <1>9, <1>t, <2>1, RevokeRowType DEF LogoutCommit, TypeOK
  <2>4. Become(r, IdleRequest) /\ UNCHANGED <<account, held, now>>
    BY <1>9 DEF LogoutCommit, Finish
  <2> QED
    BY <1>t, <2>2, <2>3, <2>4, IdleRequestType, RequestStep DEF TypeOK
<1>10. ASSUME NEW r \in Requests, NEW f \in Families, RevokeSessionStart(r, f) PROVE TypeInv'
  <2> DEFINE state == [IdleRequest EXCEPT !.op = "revoke", !.pc = "sweep",
                     !.todo = {f}, !.reason = "user_revoked"]
  <2>1. state \in Request /\ WellFormed(state) /\ state.pc # "rotate"
    BY DEF IdleRequest, Request, Reasons, WellFormed
  <2> HIDE DEF state
  <2> QED
    BY <1>10, <2>1, ControlStep DEF RevokeSessionStart, state
<1>11. ASSUME NEW r \in Requests, DisableRead(r) PROVE TypeInv'
  <2> DEFINE state == [IdleRequest EXCEPT !.op = "disable", !.pc = "disable",
                     !.todo = UnrevokedSessions, !.reason = "account_disabled"]
  <2>1. state \in Request /\ WellFormed(state) /\ state.pc # "rotate"
    BY DEF IdleRequest, Request, Reasons, WellFormed, UnrevokedSessions
  <2> HIDE DEF state
  <2> QED
    BY <1>11, <2>1, ControlStep DEF DisableRead, state
<1>s. ASSUME NEW r \in Requests, NEW f \in req[r].todo
      PROVE  LET state == [req[r] EXCEPT !.pc = "read", !.target = f, !.todo = @ \ {f}]
             IN  /\ f \in Families
                 /\ state \in Request /\ state.pc # "rotate"
                 /\ req[r].pc \in {"sweep", "disable"} => WellFormed(state)
  <2>1. req[r] \in Request /\ WellFormed(req[r]) /\ f \in Families
    BY <1>t, <1>s DEF Request
  <2>2. req[r].todo \ {f} \in SUBSET Families
    BY <2>1 DEF Request
  <2> QED
    BY <2>1, <2>2 DEF Request, WellFormed
<1>12. ASSUME NEW r \in Requests, DisableCommit(r) PROVE TypeInv'
  <2>1. CASE Finish(r) /\ UNCHANGED tokens
    <3>1. RotatedHasFamily' /\ FamiliesKept
      BY <2>1 DEF TypeInv, RotatedHasFamily, FamiliesKept
    <3> QED
      BY <1>12, <1>t, <2>1, <3>1, IdleRequestType, RequestStep
      DEF DisableCommit, Finish, TypeOK
  <2>2. CASE \E f \in req[r].todo :
            /\ tokens' = RevokeFamily(f)
            /\ Become(r, [req[r] EXCEPT !.pc = "read", !.target = f, !.todo = @ \ {f}])
    <3>1. PICK f \in req[r].todo :
            /\ tokens' = RevokeFamily(f)
            /\ Become(r, [req[r] EXCEPT !.pc = "read", !.target = f, !.todo = @ \ {f}])
      BY <2>2
    <3> DEFINE state == [req[r] EXCEPT !.pc = "read", !.target = f, !.todo = @ \ {f}]
    <3>2. f \in Families /\ state \in Request /\ WellFormed(state) /\ state.pc # "rotate"
      BY <1>12, <1>s DEF DisableCommit
    <3>3. Become(r, state)
      BY <3>1
    <3> HIDE DEF state
    <3> QED
      BY <1>12, <3>1, <3>2, <3>3, RevokeFamilyStep DEF DisableCommit
  <2> QED
    BY <1>12, <2>1, <2>2 DEF DisableCommit
<1>13. ASSUME NEW r \in Requests, Enable(r) PROVE TypeInv'
  BY <1>13 DEF Enable, TypeInv, TypeOK, RotatedHasFamily, RotatingHasFamily, ControlInv, WellFormed
<1>14. ASSUME NEW r \in Requests, SweepFamily(r) PROVE TypeInv'
  <2>1. PICK f \in req[r].todo :
            /\ tokens' = RevokeFamily(f)
            /\ Become(r, [req[r] EXCEPT !.pc = "read", !.target = f, !.todo = @ \ {f}])
    BY <1>14 DEF SweepFamily, Oldest
  <2> DEFINE state == [req[r] EXCEPT !.pc = "read", !.target = f, !.todo = @ \ {f}]
  <2>2. f \in Families /\ state \in Request /\ WellFormed(state) /\ state.pc # "rotate"
    BY <1>14, <1>s DEF SweepFamily
  <2>3. Become(r, state)
    BY <2>1
  <2> HIDE DEF state
  <2> QED
    BY <1>14, <1>t, <2>1, <2>2, <2>3, RevokeFamilyStep DEF SweepFamily, TypeOK
<1>15. ASSUME NEW r \in Requests, SweepRead(r) PROVE TypeInv'
  <2>1. CASE Become(r, AfterTarget(r))
    BY <1>15, <2>1, AfterTargetType, ControlStep DEF SweepRead
  <2>2. CASE Become(r, [req[r] EXCEPT !.pc = "write"])
    <3> DEFINE state == [req[r] EXCEPT !.pc = "write"]
    <3>1. state \in Request /\ WellFormed(state) /\ state.pc # "rotate"
      BY <1>15, <1>t DEF SweepRead, Request, WellFormed
    <3> HIDE DEF state
    <3> QED
      BY <1>15, <2>2, <3>1, ControlStep DEF SweepRead, state
  <2> QED
    BY <1>15, <2>1, <2>2 DEF SweepRead
<1>16. ASSUME NEW r \in Requests, SweepWrite(r) PROVE TypeInv'
  <2>1. sessions' \in [Families -> SessionRow]
    BY <1>16, <1>t, RevokeRowType DEF SweepWrite, WellFormed, TypeOK, Request
  <2>2. RotatedHasFamily' /\ FamiliesKept
    BY <1>16 DEF SweepWrite, TypeInv, RotatedHasFamily, FamiliesKept
  <2> QED
    BY <1>16, <1>t, <2>1, <2>2, AfterTargetType, RequestStep DEF SweepWrite, TypeOK
<1>17. ASSUME NEW r \in Requests, Crash(r) PROVE TypeInv'
  BY <1>17, IdleRequestType, ControlStep DEF Crash, Finish
<1>18. CASE Tick
  BY <1>18 DEF Tick, TypeInv, TypeOK, RotatedHasFamily, RotatingHasFamily, ControlInv, WellFormed
<1>19. CASE UNCHANGED vars
  BY <1>19 DEF vars, TypeInv, TypeOK, RotatedHasFamily, RotatingHasFamily, ControlInv, WellFormed
<1> QED
  BY <1>1, <1>2, <1>3, <1>4, <1>5, <1>6, <1>7, <1>8, <1>9, <1>10, <1>11, <1>12,
     <1>13, <1>14, <1>15, <1>16, <1>17, <1>18, <1>19
  DEF Next, Arrive, Step

\* Type correctness of the refresh-token and session tables, whatever the
\* number of requests and the limits: every handler of auth_service.py keeps
\* the rows it writes well formed.
THEOREM TypeCorrect == Spec => []TypeOK
<1>1. Spec => []TypeInv
  BY TypeInit, TypeNext, PTL DEF Spec
<1>2. TypeInv => TypeOK
  BY DEF TypeInv
<1> QED
  BY <1>1, <1>2, PTL

---------------------------------------------------------------------------
(* The session invariant.  SessionHistory and AbsoluteCap are not inductive *)
(* by themselves: they need to know that a login at the session limit owns  *)
(* the family whose session row it has yet to insert, and that a rotation   *)
(* in flight was granted within the limits of the session it will touch.    *)

LoggingIn(q) == q.op = "login" /\ q.pc # "generate"

\* Nobody else works with the family a login in flight created: its session
\* row is missing and no client holds a token of it yet.
LoginOwns ==
    \A r \in Requests : LoggingIn(req[r]) =>
        /\ sessions[req[r].family].status = "none"
        /\ tokens[req[r].token].issued
        /\ tokens[req[r].token].family = req[r].family
        /\ \A t \in held : tokens[t].family # req[r].family
        /\ \A q \in Requests \ {r} : req[q].family # req[r].family

HeldInv ==
    \A t \in held :
        /\ tokens[t].issued
        /\ t \notin Legacy => /\ tokens[t].family \in Families
                              /\ sessions[tokens[t].family].status # "none"

\* A revocation that is about to be written saw a session row.
WriteInv ==
    \A r \in Requests :
        /\ req[r].pc = "write" => sessions[req[r].target].status # "none"
        /\ req[r].pc = "logout" /\ req[r].hadSession =>
              sessions[req[r].family].status # "none"

Granted(q) ==
    q.pc = "rotate" =>
        /\ q.token \in held /\ q.at <= now
        /\ q.hadSession => /\ sessions[q.family].status # "none"
                           /\ q.at <= sessions[q.family].created + AbsoluteTimeout

TimeInv ==
    /\ \A t \in Tokens : tokens[t].acceptedAt <= now
    /\ \A r \in Requests : Granted(req[r])
    /\ AbsoluteCap

SessionInv == TypeInv /\ LoginOwns /\ HeldInv /\ WriteInv /\ TimeInv

\* What SessionHistory says of one step.
HistoryStep ==
    \A f \in Families : sessions[f].status # "none" =>
        /\ sessions'[f].created = sessions[f].created
        /\ sessions'[f].status # "none"
        /\ sessions[f].status = "revoked" => sessions'[f].status = "revoked"

\* Nothing but the revoked and rotated flags of the token rows changes.
TokensAlike ==
    \A t \in Tokens : /\ tokens'[t].issued = tokens[t].issued
                       /\ tokens'[t].family = tokens[t].family
                       /\ tokens'[t].acceptedAt = tokens[t].acceptedAt

\* How a step that inserts no row may change its own request.
Continues(r, state) ==
    /\ LoggingIn(state) => /\ LoggingIn(req[r])
                           /\ state.family = req[r].family
                           /\ state.token = req[r].token
    /\ \/ state.family \in {NoFamily, req[r].family}
       \/ \E t \in held : state.family = tokens[t].family

\* A step that changes only flags of token rows, adds no session row and
\* restarts no lifetime keeps the session invariant.
LEMMA QuietStep ==
    ASSUME SessionInv, TypeInv', NEW r \in Requests, NEW state \in Request,
           Become(r, state), WellFormed(state), Continues(r, state),
           TokensAlike, HistoryStep, UNCHANGED <<held, now>>,
           \A f \in Families : sessions[f].status = "none" => sessions'[f].status = "none",
           state.pc = "write" => sessions[state.target].status # "none",
           state.pc = "logout" /\ state.hadSession => sessions[state.family].status # "none",
           Granted(state)
    PROVE  SessionInv'
<1>0. NoFamily \notin Families
  BY ConstantsAssumption
<1>t. /\ req \in [Requests -> Request] /\ req' = [req EXCEPT ![r] = state]
      /\ held \subseteq Tokens /\ ControlInv
  BY DEF SessionInv, TypeInv, TypeOK, Become
<1>1. LoginOwns'
  <2> SUFFICES ASSUME NEW q \in Requests, LoggingIn(req'[q])
               PROVE  /\ sessions'[req'[q].family].status = "none"
                      /\ tokens'[req'[q].token].issued
                      /\ tokens'[req'[q].token].family = req'[q].family
                      /\ \A t \in held : tokens'[t].family # req'[q].family
                      /\ \A p \in Requests \ {q} : req'[p].family # req'[q].family
    BY DEF LoginOwns, LoggingIn
  <2>1. /\ LoggingIn(req[q]) /\ req'[q].family = req[q].family
        /\ req'[q].token = req[q].token
    BY <1>t DEF Continues
  <2>2. req[q].token \in Tokens /\ req[q].family \in Families
    BY <1>t, <2>1 DEF ControlInv, WellFormed, LoggingIn
  <2>3. /\ sessions[req[q].family].status = "none"
        /\ tokens[req[q].token].issued
        /\ tokens[req[q].token].family = req[q].family
        /\ \A t \in held : tokens[t].family # req[q].family
        /\ \A p \in Requests \ {q} : req[p].family # req[q].family
    BY <2>1 DEF SessionInv, LoginOwns
  <2>4. \A p \in Requests \ {q} : req'[p].family # req[q].family
    BY <1>0, <1>t, <2>2, <2>3 DEF Continues
  <2> QED
    BY <1>t, <2>1, <2>2, <2>3, <2>4 DEF TokensAlike
<1>2. HeldInv'
  BY <1>t DEF SessionInv, HeldInv, TokensAlike, HistoryStep
<1>3. WriteInv'
  <2>1. ASSUME NEW q \in Requests, req'[q].pc = "write"
        PROVE  sessions'[req'[q].target].status # "none"
    <3>1. req'[q].target \in Families /\ sessions[req'[q].target].status # "none"
      BY <1>t, <2>1 DEF SessionInv, WriteInv, ControlInv, WellFormed
    <3> QED
      BY <3>1 DEF HistoryStep
  <2>2. ASSUME NEW q \in Requests, req'[q].pc = "logout", req'[q].hadSession
        PROVE  sessions'[req'[q].family].status # "none"
    <3>1. req'[q].family \in Families /\ sessions[req'[q].family].status # "none"
      BY <1>t, <2>2 DEF SessionInv, WriteInv, ControlInv, WellFormed
    <3> QED
      BY <3>1 DEF HistoryStep
  <2> QED
    BY <2>1, <2>2 DEF WriteInv
<1>4. TimeInv'
  <2>1. \A t \in Tokens : tokens'[t].acceptedAt <= now'
    BY DEF SessionInv, TimeInv, TokensAlike
  <2>2. ASSUME NEW q \in Requests PROVE Granted(req[q])'
    <3>1. Granted(req'[q]) /\ WellFormed(req'[q])
      BY <1>t DEF SessionInv, TimeInv, ControlInv
    <3> QED
      BY <3>1 DEF Granted, WellFormed, HistoryStep
  <2>3. AbsoluteCap'
    BY DEF SessionInv, TimeInv, AbsoluteCap, TokensAlike, HistoryStep
  <2> QED
    BY <2>1, <2>2, <2>3 DEF TimeInv
<1> QED
  BY <1>1, <1>2, <1>3, <1>4 DEF SessionInv

LEMMA SessionInit == Init => SessionInv
<1> SUFFICES ASSUME Init PROVE SessionInv
  OBVIOUS
<1>1. TypeInv
  BY TypeInit
<1>2. /\ \A r \in Requests : req[r] = IdleRequest
      /\ \A f \in Families : sessions[f] = NoSessionRow
      /\ held = Legacy /\ Legacy \subseteq Tokens /\ now = 0
  BY ConstantsAssumption DEF Init
<1>3. \A t \in Tokens : tokens[t].acceptedAt = 0 /\ (t \in Legacy => tokens[t].issued)
  <2>1. PICK fam \in [Legacy -> Families \cup {NoFamily}] :
          tokens = [t \in Tokens |->
                IF t \in Legacy
                THEN [NoTokenRow EXCEPT !.issued = TRUE, !.family = fam[t],
                                        !.expires = RefreshTTL]
                ELSE NoTokenRow]
    BY DEF Init
  <2> QED
    BY <2>1 DEF NoTokenRow
<1>4. LoginOwns /\ WriteInv /\ HeldInv
  BY <1>2, <1>3 DEF LoginOwns, LoggingIn, WriteInv, HeldInv, IdleRequest
<1>5. TimeInv
  BY <1>2, <1>3 DEF TimeInv, Granted, AbsoluteCap, IdleRequest, NoSessionRow
<1> QED
  BY <1>1, <1>4, <1>5 DEF SessionInv

\* A request that starts with no family, or that ends, owns nothing.
LEMMA NoFamilyContinues ==
    ASSUME NEW r \in Requests, NEW state, state.family = NoFamily, ~LoggingIn(state)
    PROVE  Continues(r, state)
BY DEF Continues

LEMMA UnchangedTables ==
    ASSUME UNCHANGED <<tokens, sessions, held, now>>
    PROVE  /\ TokensAlike /\ HistoryStep
           /\ \A f \in Families : sessions[f].status = "none" => sessions'[f].status = "none"
BY DEF TokensAlike, HistoryStep

LEMMA AfterTargetContinues ==
    ASSUME SessionInv, NEW r \in Requests, req[r].pc \in {"read", "write"}
    PROVE  /\ Continues(r, AfterTarget(r))
           /\ Granted(AfterTarget(r)) /\ AfterTarget(r).pc \notin {"write", "logout"}
<1>1. req[r] \in Request /\ TypeInv
  BY DEF SessionInv, TypeInv, TypeOK
<1>2. AfterTarget(r).pc # "rotate"
  BY <1>1, AfterTargetType
<1>3. Continues(r, AfterTarget(r)) /\ AfterTarget(r).pc \notin {"write", "logout"}
  BY <1>1 DEF AfterTarget, Continues, LoggingIn, IdleRequest, Request
<1> QED
  BY <1>2, <1>3 DEF Granted

\* The reads of the handlers: no table changes.
LEMMA ReadSteps ==
    ASSUME SessionInv, TypeInv', NEW r \in Requests,
           \/ LoginAuthenticate(r)
           \/ \E t \in Tokens : RotateRead(r, t) \/ LogoutRead(r, t)
           \/ RotateConflict(r)
           \/ \E f \in Families : RevokeSessionStart(r, f)
           \/ DisableRead(r)
           \/ SweepRead(r)
           \/ Crash(r)
    PROVE  SessionInv' /\ HistoryStep
<1>0. UNCHANGED <<tokens, sessions, held, now>>
  BY DEF LoginAuthenticate, RotateRead, LogoutRead, RotateConflict,
         RevokeSessionStart, DisableRead, SweepRead, Crash
<1>h. HistoryStep
  BY <1>0, UnchangedTables
<1>t. TypeInv /\ TypeOK /\ req[r] \in Request /\ WellFormed(req[r])
  BY DEF SessionInv, TypeInv, TypeOK, ControlInv
<1>f. ASSUME NEW state \in Request, Become(r, state), WellFormed(state),
             Continues(r, state), Granted(state),
             state.pc = "write" => sessions[state.target].status # "none",
             state.pc = "logout" /\ state.hadSession => sessions[state.family].status # "none"
      PROVE  SessionInv'
  BY <1>0, <1>f, UnchangedTables, QuietStep
<1>1. CASE LoginAuthenticate(r)
  <2> DEFINE state == [IdleRequest EXCEPT !.op = "login", !.pc = "generate"]
  <2>1. /\ state \in Request /\ WellFormed(state) /\ ~LoggingIn(state)
        /\ state.family = NoFamily /\ state.pc = "generate"
    BY DEF IdleRequest, Request, WellFormed, LoggingIn
  <2>2. Become(r, state)
    BY <1>1 DEF LoginAuthenticate
  <2> HIDE DEF state
  <2> QED
    BY <1>f, <1>h, <2>1, <2>2, NoFamilyContinues DEF Granted
<1>2. ASSUME NEW t \in Tokens, RotateRead(r, t) PROVE SessionInv' /\ HistoryStep
  <2> DEFINE start == [IdleRequest EXCEPT !.op = "rotate", !.token = t,
                         !.family = tokens[t].family, !.at = now,
                         !.hadSession = SessionOf(t).status # "none"]
             rotating == [start EXCEPT !.pc = "rotate"]
             sweeping == [start EXCEPT !.pc = "sweep", !.todo = {tokens[t].family},
                                       !.reason = RotateVerdict(t)]
  <2>f. tokens[t].family \in Families \cup {NoFamily} /\ t \in held /\ now \in Nat
    BY <1>t, <1>2 DEF TypeOK, TokenRow, RotateRead
  <2>s. /\ start \in Request /\ start.op = "rotate" /\ start.pc = "idle"
        /\ start.token = t /\ start.family = tokens[t].family /\ start.at = now
        /\ start.hadSession => /\ start.family \in Families
                               /\ SessionOf(t) = sessions[start.family]
                               /\ sessions[start.family].status # "none"
    BY <2>f DEF IdleRequest, Request, SessionOf, NoSessionRow
  <2> HIDE DEF start
  <2>1. CASE RotateVerdict(t) = "accepted" /\ Become(r, rotating)
    <3>1. /\ rotating \in Request /\ WellFormed(rotating)
          /\ rotating.op = "rotate" /\ rotating.pc = "rotate" /\ rotating.at = now
          /\ rotating.family = tokens[t].family /\ rotating.token \in held
          /\ rotating.family = start.family
          /\ rotating.hadSession = start.hadSession
      BY <2>f, <2>s DEF Request, WellFormed
    <3>2. TimeoutPolicy(SessionOf(t)) = "none"
      BY <2>1 DEF RotateVerdict, TimeoutPolicy
    <3>3. Granted(rotating)
      <4>1. now <= now
        BY <2>f
      <4>2. ASSUME rotating.hadSession
            PROVE  /\ sessions[rotating.family].status # "none"
                   /\ now <= sessions[rotating.family].created + AbsoluteTimeout
        <5>1. /\ sessions[rotating.family].status # "none"
              /\ sessions[rotating.family].created \in Nat
              /\ AbsoluteTimeout \in Nat
              /\ TimeoutPolicy(sessions[rotating.family]) = "none"
          BY <1>t, <2>s, <3>1, <3>2, <4>2, ConstantsAssumption DEF TypeOK, SessionRow
        <5> QED
          BY <2>f, <5>1 DEF TimeoutPolicy
      <4> QED
        BY <3>1, <4>1, <4>2 DEF Granted
    <3>4. Continues(r, rotating)
      BY <2>f, <3>1 DEF Continues, LoggingIn
    <3> HIDE DEF rotating
    <3> QED
      BY <1>f, <1>h, <2>1, <3>1, <3>3, <3>4
  <2>2. CASE RotateVerdict(t) \in Reasons /\ Become(r, sweeping)
    <3>0. tokens[t].family \in Families
      BY <1>t, <2>2, <2>f, VerdictHasFamily
    <3>1. /\ sweeping \in Request /\ WellFormed(sweeping)
          /\ sweeping.op = "rotate" /\ sweeping.pc = "sweep"
          /\ sweeping.family = tokens[t].family
      BY <2>2, <2>s, <3>0 DEF Request, WellFormed
    <3>2. Continues(r, sweeping) /\ Granted(sweeping)
      BY <2>f, <3>1 DEF Continues, LoggingIn, Granted
    <3> HIDE DEF sweeping
    <3> QED
      BY <1>f, <1>h, <2>2, <3>1, <3>2
  <2> QED
    BY <1>2, <2>1, <2>2 DEF RotateRead, start
<1>3. ASSUME NEW t \in Tokens, LogoutRead(r, t) PROVE SessionInv' /\ HistoryStep
  <2> DEFINE state == [IdleRequest EXCEPT !.op = "logout", !.pc = "logout",
                     !.token = t, !.family = tokens[t].family,
                     !.reason = "user_logout",
                     !.hadSession = SessionOf(t).status = "active"]
  <2>1. tokens[t].family \in Families \cup {NoFamily} /\ t \in held
    BY <1>t, <1>3 DEF TypeOK, TokenRow, LogoutRead
  <2>2. /\ state \in Request /\ WellFormed(state)
        /\ state.op = "logout" /\ state.pc = "logout" /\ state.family = tokens[t].family
        /\ state.hadSession => sessions[state.family].status # "none"
    BY <2>1 DEF IdleRequest, Request, Reasons, WellFormed, SessionOf, NoSessionRow
  <2>3. Become(r, state)
    BY <1>3 DEF LogoutRead
  <2> HIDE DEF state
  <2> QED
    BY <1>f, <1>h, <2>1, <2>2, <2>3 DEF Continues, LoggingIn, Granted
<1>4. CASE RotateConflict(r) \/ Crash(r)
  <2>1. Become(r, IdleRequest)
    BY <1>4 DEF RotateConflict, Crash, Finish
  <2>2. /\ IdleRequest.family = NoFamily /\ ~LoggingIn(IdleRequest)
        /\ IdleRequest.pc = "idle"
    BY DEF IdleRequest, LoggingIn
  <2> QED
    BY <1>f, <1>h, <2>1, <2>2, IdleRequestType, NoFamilyContinues DEF Granted
<1>5. ASSUME NEW f \in Families, RevokeSessionStart(r, f) PROVE SessionInv' /\ HistoryStep
  <2> DEFINE state == [IdleRequest EXCEPT !.op = "revoke", !.pc = "sweep",
                     !.todo = {f}, !.reason = "user_revoked"]
  <2>1. /\ state \in Request /\ WellFormed(state) /\ ~LoggingIn(state)
        /\ state.family = NoFamily /\ state.pc = "sweep"
    BY DEF IdleRequest, Request, Reasons, WellFormed, LoggingIn
  <2>2. Become(r, state)
    BY <1>5 DEF RevokeSessionStart
  <2> HIDE DEF state
  <2> QED
    BY <1>f, <1>h, <2>1, <2>2, NoFamilyContinues DEF Granted
<1>6. CASE DisableRead(r)
  <2> DEFINE state == [IdleRequest EXCEPT !.op = "disable", !.pc = "disable",
                     !.todo = UnrevokedSessions, !.reason = "account_disabled"]
  <2>1. /\ state \in Request /\ WellFormed(state) /\ ~LoggingIn(state)
        /\ state.family = NoFamily /\ state.pc = "disable"
    BY DEF IdleRequest, Request, Reasons, WellFormed, LoggingIn, UnrevokedSessions
  <2>2. Become(r, state)
    BY <1>6 DEF DisableRead
  <2> HIDE DEF state
  <2> QED
    BY <1>f, <1>h, <2>1, <2>2, NoFamilyContinues DEF Granted
<1>7. CASE SweepRead(r)
  <2>1. CASE Become(r, AfterTarget(r))
    BY <1>f, <1>h, <1>t, <1>7, <2>1, AfterTargetType, AfterTargetContinues DEF SweepRead
  <2>2. CASE sessions[req[r].target].status = "active"
             /\ Become(r, [req[r] EXCEPT !.pc = "write"])
    <3> DEFINE state == [req[r] EXCEPT !.pc = "write"]
    <3>1. /\ state \in Request /\ WellFormed(state) /\ Continues(r, state)
          /\ state.pc = "write" /\ state.target = req[r].target
      BY <1>7, <1>t DEF SweepRead, Request, WellFormed, Continues, LoggingIn
    <3>2. Granted(state)
      BY <3>1 DEF Granted
    <3>3. Become(r, state)
      BY <2>2
    <3> HIDE DEF state
    <3> QED
      BY <1>f, <1>h, <2>2, <3>1, <3>2, <3>3
  <2> QED
    BY <1>7, <2>1, <2>2 DEF SweepRead
<1> QED
  BY <1>1, <1>2, <1>3, <1>4, <1>5, <1>6, <1>7

\* _revoke_family and session_service.revoke, wherever they run.
LEMMA RevocationSteps ==
    ASSUME SessionInv, TypeInv', NEW r \in Requests,
           \/ DisableCommit(r) \/ SweepFamily(r)
           \/ SweepWrite(r) \/ LogoutCommit(r)
    PROVE  SessionInv' /\ HistoryStep
<1>t. TypeInv /\ TypeOK /\ req[r] \in Request /\ WellFormed(req[r])
  BY DEF SessionInv, TypeInv, TypeOK, ControlInv
<1>i. /\ IdleRequest \in Request /\ WellFormed(IdleRequest)
      /\ IdleRequest.pc = "idle" /\ Continues(r, IdleRequest) /\ Granted(IdleRequest)
  BY IdleRequestType DEF IdleRequest, Continues, LoggingIn, Granted
<1>1. ASSUME NEW f \in req[r].todo, req[r].pc \in {"disable", "sweep"},
             tokens' = RevokeFamily(f),
             Become(r, [req[r] EXCEPT !.pc = "read", !.target = f, !.todo = @ \ {f}]),
             UNCHANGED <<sessions, held, now>>
      PROVE  SessionInv' /\ HistoryStep
  <2> DEFINE state == [req[r] EXCEPT !.pc = "read", !.target = f, !.todo = @ \ {f}]
  <2>1. f \in Families /\ req[r].todo \ {f} \in SUBSET Families
    BY <1>t DEF Request
  <2>2. /\ state \in Request /\ WellFormed(state) /\ state.pc = "read"
        /\ Continues(r, state) /\ Granted(state)
    BY <1>t, <1>1, <2>1 DEF Request, WellFormed, Continues, LoggingIn, Granted
  <2>3. TokensAlike
    BY <1>t, <1>1, <2>1, RevokeFamilyType DEF TokensAlike
  <2>4. /\ HistoryStep
        /\ \A g \in Families : sessions[g].status = "none" => sessions'[g].status = "none"
    BY <1>1 DEF HistoryStep
  <2>5. Become(r, state)
    BY <1>1
  <2> HIDE DEF state
  <2> QED
    BY <1>1, <2>2, <2>3, <2>4, <2>5, QuietStep
<1>2. ASSUME NEW f \in Families, NEW why \in Reasons \cup {"none"},
             NEW state \in Request, Become(r, state),
             WellFormed(state), Continues(r, state), Granted(state),
             state.pc \notin {"write", "logout"},
             TokensAlike, UNCHANGED <<held, now>>,
             sessions[f].status # "none",
             sessions' = [sessions EXCEPT ![f] = RevokeRow(@, why)]
      PROVE  SessionInv' /\ HistoryStep
  <2>1. /\ HistoryStep
        /\ \A g \in Families : sessions[g].status = "none" => sessions'[g].status = "none"
    BY <1>t, <1>2 DEF HistoryStep, RevokeRow, TypeOK, SessionRow
  <2> QED
    BY <1>2, <2>1, QuietStep
<1>3. CASE DisableCommit(r)
  <2>1. CASE Finish(r) /\ UNCHANGED tokens
    <3>1. /\ TokensAlike /\ HistoryStep /\ UNCHANGED <<held, now>>
          /\ \A f \in Families : sessions[f].status = "none" => sessions'[f].status = "none"
      BY <1>3, <2>1 DEF DisableCommit, TokensAlike, HistoryStep
    <3> QED
      BY <1>i, <2>1, <3>1, QuietStep DEF Finish
  <2>2. CASE \E f \in req[r].todo :
            /\ tokens' = RevokeFamily(f)
            /\ Become(r, [req[r] EXCEPT !.pc = "read", !.target = f, !.todo = @ \ {f}])
    BY <1>1, <1>3, <2>2 DEF DisableCommit
  <2> QED
    BY <1>3, <2>1, <2>2 DEF DisableCommit
<1>4. CASE SweepFamily(r)
  <2>1. \E f \in req[r].todo :
            /\ tokens' = RevokeFamily(f)
            /\ Become(r, [req[r] EXCEPT !.pc = "read", !.target = f, !.todo = @ \ {f}])
    BY <1>4 DEF SweepFamily, Oldest
  <2> QED
    BY <1>1, <1>4, <2>1 DEF SweepFamily
<1>5. CASE SweepWrite(r)
  <2>1. /\ req[r].target \in Families /\ req[r].reason \in Reasons \cup {"none"}
        /\ sessions[req[r].target].status # "none"
    BY <1>5, <1>t DEF SweepWrite, SessionInv, WriteInv, WellFormed, Request
  <2>2. TokensAlike /\ UNCHANGED <<held, now>>
    BY <1>5 DEF SweepWrite, TokensAlike
  <2>3. /\ AfterTarget(r) \in Request /\ WellFormed(AfterTarget(r))
        /\ Continues(r, AfterTarget(r)) /\ Granted(AfterTarget(r))
        /\ AfterTarget(r).pc \notin {"write", "logout"}
    BY <1>5, <1>t, AfterTargetType, AfterTargetContinues DEF SweepWrite
  <2> QED
    BY <1>2, <1>5, <2>1, <2>2, <2>3 DEF SweepWrite
<1>6. CASE LogoutCommit(r)
  <2>1. TokensAlike /\ UNCHANGED <<held, now>> /\ Become(r, IdleRequest)
    BY <1>6, <1>t DEF LogoutCommit, TokensAlike, TypeOK, TokenRow, Finish
  <2>2. CASE ~req[r].hadSession
    <3>1. HistoryStep /\ UNCHANGED sessions
      BY <1>6, <2>2 DEF LogoutCommit, HistoryStep
    <3> QED
      BY <1>i, <2>1, <3>1, QuietStep
  <2>3. CASE req[r].hadSession
    <3>1. /\ req[r].family \in Families /\ req[r].reason \in Reasons \cup {"none"}
      BY <1>6, <1>t, <2>3 DEF LogoutCommit, WellFormed, Request
    <3>2. sessions[req[r].family].status # "none"
      BY <1>6, <2>3 DEF SessionInv, WriteInv, LogoutCommit
    <3> QED
      BY <1>2, <1>i, <1>6, <2>1, <2>3, <3>1, <3>2 DEF LogoutCommit
  <2> QED
    BY <2>2, <2>3
<1> QED
  BY <1>3, <1>4, <1>5, <1>6

\* A family nobody used yet.
LEMMA FreshFacts ==
    ASSUME SessionInv, NEW f \in Families, FreshFamily(f)
    PROVE  /\ sessions[f].status = "none"
           /\ \A t \in Tokens : tokens[t].issued => tokens[t].family # f
           /\ \A t \in held : tokens[t].family # f
           /\ \A r \in Requests : req[r].family # f
BY DEF FreshFamily, SessionInv, HeldInv, TypeInv, TypeOK

\* A request that ends after inserting rows for family f: token n, which may
\* reach its client, and the session row of f, which is new or already there.
LEMMA InsertStep ==
    ASSUME SessionInv, TypeInv', NEW r \in Requests, Become(r, IdleRequest),
           NEW f \in Families, NEW n \in Tokens,
           held \subseteq held', held' \subseteq held \cup {n}, now' = now,
           tokens'[n].issued, tokens'[n].family = f,
           \A t \in Tokens \ {n} :
               /\ tokens'[t].issued = tokens[t].issued
               /\ tokens'[t].acceptedAt = tokens[t].acceptedAt
               /\ tokens'[t].family \in {tokens[t].family, f}
               /\ \/ tokens'[t].family = tokens[t].family
                  \/ t \in held /\ sessions[f].status = "none",
           \A q \in Requests \ {r} : LoggingIn(req[q]) =>
               req[q].family # f /\ req[q].token # n,
           \A g \in Families \ {f} : sessions'[g] = sessions[g],
           sessions'[f].status # "none",
           sessions[f].status # "none" =>
               /\ sessions'[f].created = sessions[f].created
               /\ sessions[f].status = "revoked" => sessions'[f].status = "revoked",
           sessions[f].status = "none" => sessions'[f].created = now,
           tokens'[n].acceptedAt <= now,
           tokens'[n].acceptedAt <= sessions'[f].created + AbsoluteTimeout
    PROVE  SessionInv' /\ HistoryStep
<1>0. NoFamily \notin Families /\ AbsoluteTimeout \in Nat
  BY ConstantsAssumption
<1>t. /\ req \in [Requests -> Request] /\ req' = [req EXCEPT ![r] = IdleRequest]
      /\ held \subseteq Tokens /\ ControlInv /\ now \in Nat
      /\ tokens \in [Tokens -> TokenRow] /\ sessions \in [Families -> SessionRow]
      /\ tokens' \in [Tokens -> TokenRow] /\ sessions' \in [Families -> SessionRow]
  BY DEF SessionInv, TypeInv, TypeOK, Become
<1>h. HistoryStep
  BY DEF HistoryStep
<1>1. LoginOwns'
  <2> SUFFICES ASSUME NEW q \in Requests, LoggingIn(req'[q])
               PROVE  /\ sessions'[req'[q].family].status = "none"
                      /\ tokens'[req'[q].token].issued
                      /\ tokens'[req'[q].token].family = req'[q].family
                      /\ \A t \in held' : tokens'[t].family # req'[q].family
                      /\ \A p \in Requests \ {q} : req'[p].family # req'[q].family
    BY DEF LoginOwns, LoggingIn
  <2>1. q # r /\ req'[q] = req[q] /\ LoggingIn(req[q])
    BY <1>t DEF LoggingIn, IdleRequest
  <2>2. /\ req[q].token \in Tokens /\ req[q].family \in Families
        /\ req[q].family # f /\ req[q].token # n
    BY <1>t, <2>1 DEF ControlInv, WellFormed, LoggingIn
  <2>3. /\ sessions[req[q].family].status = "none"
        /\ tokens[req[q].token].issued
        /\ tokens[req[q].token].family = req[q].family
        /\ \A t \in held : tokens[t].family # req[q].family
        /\ \A p \in Requests \ {q} : req[p].family # req[q].family
    BY <2>1 DEF SessionInv, LoginOwns
  <2>4. \A p \in Requests \ {q} : req'[p].family # req[q].family
    BY <1>0, <1>t, <2>2, <2>3 DEF IdleRequest
  <2>5. \A t \in held' : tokens'[t].family # req[q].family
    BY <1>t, <2>2, <2>3
  <2>6. tokens'[req[q].token].family = req[q].family
    BY <2>2, <2>3
  <2> QED
    BY <2>1, <2>2, <2>3, <2>4, <2>5, <2>6
<1>2. HeldInv'
  BY <1>t DEF SessionInv, HeldInv
<1>3. WriteInv'
  <2>1. ASSUME NEW q \in Requests, req'[q].pc = "write"
        PROVE  sessions'[req'[q].target].status # "none"
    <3>1. req'[q].target \in Families /\ sessions[req'[q].target].status # "none"
      BY <1>t, <2>1 DEF SessionInv, WriteInv, ControlInv, WellFormed, IdleRequest
    <3> QED
      BY <1>h, <3>1 DEF HistoryStep
  <2>2. ASSUME NEW q \in Requests, req'[q].pc = "logout", req'[q].hadSession
        PROVE  sessions'[req'[q].family].status # "none"
    <3>1. req'[q].family \in Families /\ sessions[req'[q].family].status # "none"
      BY <1>t, <2>2 DEF SessionInv, WriteInv, ControlInv, WellFormed, IdleRequest
    <3> QED
      BY <1>h, <3>1 DEF HistoryStep
  <2> QED
    BY <2>1, <2>2 DEF WriteInv
<1>4. TimeInv'
  <2>1. \A t \in Tokens : tokens'[t].acceptedAt <= now'
    BY DEF SessionInv, TimeInv
  <2>2. ASSUME NEW q \in Requests PROVE Granted(req[q])'
    <3>1. Granted(req'[q]) /\ WellFormed(req'[q])
      BY <1>t, IdleRequestType DEF SessionInv, TimeInv, ControlInv, Granted
    <3> QED
      BY <1>h, <3>1 DEF Granted, WellFormed, HistoryStep
  <2>3. AbsoluteCap'
    <3> SUFFICES ASSUME NEW t \in Tokens, NEW g \in Families,
                        tokens'[t].issued, tokens'[t].family = g, sessions'[g].status # "none"
                 PROVE  tokens'[t].acceptedAt <= sessions'[g].created + AbsoluteTimeout
      BY DEF AbsoluteCap
    <3>1. CASE t = n
      BY <3>1
    <3>2. CASE t # n /\ g = f /\ sessions[f].status = "none"
      <4>1. /\ tokens'[t].acceptedAt \in Nat /\ tokens'[t].acceptedAt <= now
            /\ sessions'[f].created = now
        BY <1>t, <2>1, <3>2 DEF TokenRow
      <4> QED
        BY <1>0, <1>t, <3>2, <4>1
    <3>3. CASE t # n /\ sessions[g].status # "none"
      <4>1. tokens[t].issued /\ tokens[t].family = g
        BY <3>3
      <4>2. sessions'[g].created = sessions[g].created
        BY <1>h, <3>3 DEF HistoryStep
      <4> QED
        BY <3>3, <4>1, <4>2 DEF SessionInv, TimeInv, AbsoluteCap
    <3> QED
      BY <3>1, <3>2, <3>3
  <2> QED
    BY <2>1, <2>2, <2>3 DEF TimeInv
<1> QED
  BY <1>h, <1>1, <1>2, <1>3, <1>4 DEF SessionInv

LEMMA InsertSteps ==
    ASSUME SessionInv, TypeInv', NEW r \in Requests,
           LoginCommit(r) \/ LoginCreate(r) \/ RotateCommit(r)
    PROVE  SessionInv' /\ HistoryStep
<1>0. NoFamily \notin Families /\ AbsoluteTimeout \in Nat /\ RefreshTTL \in Nat
  BY ConstantsAssumption
<1>t. /\ TypeInv /\ TypeOK /\ req[r] \in Request /\ WellFormed(req[r])
      /\ now \in Nat /\ held \subseteq Tokens /\ held' \subseteq Tokens
      /\ tokens \in [Tokens -> TokenRow] /\ sessions \in [Families -> SessionRow]
  BY DEF SessionInv, TypeInv, TypeOK, ControlInv
<1>o. ASSUME NEW q \in Requests, LoggingIn(req[q])
      PROVE  /\ req[q].token \in Tokens /\ req[q].family \in Families
             /\ tokens[req[q].token].issued
             /\ tokens[req[q].token].family = req[q].family
             /\ sessions[req[q].family].status = "none"
             /\ \A t \in held : tokens[t].family # req[q].family
             /\ \A p \in Requests \ {q} : req[p].family # req[q].family
  BY <1>t, <1>o DEF SessionInv, LoginOwns, TypeInv, ControlInv, WellFormed, LoggingIn
<1>c. /\ CreateSession(now + RefreshTTL).status = "active"
      /\ CreateSession(now + RefreshTTL).created = now
      /\ \A e : CreateSession(e).status = "active" /\ CreateSession(e).created = now
  BY DEF CreateSession
<1>n. \A f, at : /\ NewToken(f, at).issued /\ NewToken(f, at).family = f
                 /\ NewToken(f, at).acceptedAt = at
  BY DEF NewToken
<1>1. CASE LoginCommit(r)
  <2>1. PICK n \in Tokens, f \in Families :
         /\ FreshToken(n) /\ FreshFamily(f)
         /\ tokens' = [tokens EXCEPT ![n] = NewToken(f, now)]
         /\ sessions' = [sessions EXCEPT ![f] = CreateSession(now + RefreshTTL)]
         /\ Deliver(n)
    BY <1>1 DEF LoginCommit
  <2>2. sessions[f].status = "none" /\ \A q \in Requests : req[q].family # f
    BY <2>1, FreshFacts
  <2>3. \A q \in Requests \ {r} : LoggingIn(req[q]) =>
               req[q].family # f /\ req[q].token # n
    BY <1>o, <2>1, <2>2 DEF FreshToken
  <2>4. held \subseteq held' /\ held' \subseteq held \cup {n} /\ now' = now
    BY <1>1, <2>1 DEF Deliver, LoginCommit
  <2>5. /\ tokens'[n].issued /\ tokens'[n].family = f /\ tokens'[n].acceptedAt = now
        /\ \A t \in Tokens \ {n} : tokens'[t] = tokens[t]
        /\ sessions'[f].status # "none" /\ sessions'[f].created = now
        /\ \A g \in Families \ {f} : sessions'[g] = sessions[g]
    BY <1>t, <1>c, <1>n, <2>1
  <2>6. now <= now /\ now <= now + AbsoluteTimeout
    BY <1>0, <1>t
  <2>7. Become(r, IdleRequest)
    BY <1>1 DEF LoginCommit, Finish
  <2> QED
    BY <2>2, <2>3, <2>4, <2>5, <2>6, <2>7, InsertStep
<1>2. CASE LoginCreate(r)
  <2> DEFINE n == req[r].token
             f == req[r].family
  <2>0. LoggingIn(req[r])
    BY <1>2, <1>t DEF LoginCreate, WellFormed, LoggingIn
  <2>1. /\ n \in Tokens /\ f \in Families /\ tokens[n].issued /\ tokens[n].family = f
        /\ sessions[f].status = "none"
    BY <1>o, <2>0
  <2>2. \A q \in Requests \ {r} : LoggingIn(req[q]) => req[q].family # f /\ req[q].token # n
    BY <1>o, <2>0, <2>1
  <2>3. held \subseteq held' /\ held' \subseteq held \cup {n} /\ now' = now
        /\ tokens' = tokens /\ Become(r, IdleRequest)
    BY <1>2 DEF LoginCreate, Deliver, Finish
  <2>4. /\ sessions'[f].status # "none" /\ sessions'[f].created = now
        /\ \A g \in Families \ {f} : sessions'[g] = sessions[g]
    BY <1>2, <1>c, <1>t, <2>1 DEF LoginCreate
  <2>5. tokens[n].acceptedAt <= now /\ tokens[n].acceptedAt \in Nat
    BY <1>t, <2>1 DEF SessionInv, TimeInv, TokenRow
  <2>6. tokens[n].acceptedAt <= now + AbsoluteTimeout
    BY <1>0, <1>t, <2>5
  <2> HIDE DEF n, f
  <2> QED
    BY <2>1, <2>2, <2>3, <2>4, <2>5, <2>6, InsertStep
<1>3. CASE RotateCommit(r)
  <2>1. PICK n \in Tokens, f \in Families :
         /\ FreshToken(n)
         /\ IF req[r].family = NoFamily THEN FreshFamily(f) ELSE f = req[r].family
         /\ req[r].hadSession \/ sessions[f].status = "none"
         /\ tokens' = [tokens EXCEPT
                ![req[r].token] =
                    RotatedRow(@, IF req[r].family = NoFamily THEN f ELSE NoFamily),
                ![n] = NewToken(f, req[r].at)]
         /\ sessions' = [sessions EXCEPT ![f] =
                IF req[r].hadSession THEN Touch(@, now + RefreshTTL)
                ELSE CreateSession(now + RefreshTTL)]
         /\ Deliver(n)
    BY <1>3 DEF RotateCommit
  <2>2. /\ req[r].token \in Tokens /\ req[r].token \in held /\ req[r].at \in Nat
        /\ req[r].at <= now
        /\ req[r].hadSession => /\ req[r].family \in Families
                                /\ sessions[req[r].family].status # "none"
                                /\ req[r].at <= sessions[req[r].family].created + AbsoluteTimeout
        /\ req[r].op = "rotate"
    BY <1>3, <1>t DEF RotateCommit, WellFormed, Request, SessionInv, TimeInv, Granted
  <2>3. \A q \in Requests \ {r} : LoggingIn(req[q]) => req[q].family # f /\ req[q].token # n
    <3>1. \A q \in Requests \ {r} : LoggingIn(req[q]) => req[q].family # f
      BY <1>o, <2>1, FreshFacts
    <3> QED
      BY <1>o, <2>1, <3>1 DEF FreshToken
  <2>4. req[r].family = NoFamily => sessions[f].status = "none"
    BY <2>1, FreshFacts
  <2>5. held \subseteq held' /\ held' \subseteq held \cup {n} /\ now' = now
        /\ Become(r, IdleRequest)
    BY <1>3, <2>1 DEF RotateCommit, Deliver, Finish
  <2> DEFINE row == RotatedRow(tokens[req[r].token],
                        IF req[r].family = NoFamily THEN f ELSE NoFamily)
  <2>6. /\ row.issued = tokens[req[r].token].issued
        /\ row.acceptedAt = tokens[req[r].token].acceptedAt
        /\ \/ row.family = tokens[req[r].token].family
           \/ req[r].family = NoFamily /\ row.family = f
    BY <1>t, <2>2 DEF RotatedRow, TokenRow
  <2>7. tokens' = [[tokens EXCEPT ![req[r].token] = row] EXCEPT ![n] = NewToken(f, req[r].at)]
    BY <2>1
  <2> HIDE DEF row
  <2>8. /\ tokens'[n].issued /\ tokens'[n].family = f /\ tokens'[n].acceptedAt = req[r].at
        /\ \A t \in Tokens \ {n} :
               /\ tokens'[t].issued = tokens[t].issued
               /\ tokens'[t].acceptedAt = tokens[t].acceptedAt
               /\ tokens'[t].family \in {tokens[t].family, f}
               /\ \/ tokens'[t].family = tokens[t].family
                  \/ t \in held /\ sessions[f].status = "none"
    BY <1>t, <1>n, <2>2, <2>4, <2>6, <2>7
  <2>9. \A g \in Families \ {f} : sessions'[g] = sessions[g]
    BY <1>t, <2>1
  <2>10. /\ sessions'[f].status # "none"
         /\ sessions[f].status # "none" =>
               /\ sessions'[f].created = sessions[f].created
               /\ sessions[f].status = "revoked" => sessions'[f].status = "revoked"
         /\ sessions[f].status = "none" => sessions'[f].created = now
         /\ req[r].at <= sessions'[f].created + AbsoluteTimeout
    <3>1. CASE req[r].hadSession
      <4>1. f = req[r].family
        BY <1>0, <2>1, <2>2, <3>1
      <4>2. /\ sessions'[f] = Touch(sessions[f], now + RefreshTTL)
            /\ sessions[f] \in SessionRow
        BY <1>t, <2>1, <3>1
      <4>3. /\ sessions'[f].status = sessions[f].status
            /\ sessions'[f].created = sessions[f].created
        BY <4>2 DEF Touch, SessionRow
      <4> QED
        BY <2>2, <3>1, <4>1, <4>3
    <3>2. CASE ~req[r].hadSession
      <4>1. sessions[f].status = "none" /\ sessions'[f].status = "active"
            /\ sessions'[f].created = now
        BY <1>t, <1>c, <2>1, <3>2
      <4>2. req[r].at <= now + AbsoluteTimeout
        BY <1>0, <1>t, <2>2
      <4> QED
        BY <4>1, <4>2
    <3> QED
      BY <3>1, <3>2
  <2> QED
    BY <2>2, <2>3, <2>5, <2>8, <2>9, <2>10, InsertStep
<1> QED
  BY <1>1, <1>2, <1>3

\* The early commit of a login at the session limit.
LEMMA EvictStep ==
    ASSUME SessionInv, TypeInv', NEW r \in Requests, LoginEvict(r)
    PROVE  SessionInv' /\ HistoryStep
<1>0. NoFamily \notin Families
  BY ConstantsAssumption
<1>t. /\ TypeInv /\ TypeOK /\ req[r] \in Request /\ ControlInv
      /\ now \in Nat /\ held \subseteq Tokens
      /\ tokens \in [Tokens -> TokenRow] /\ req \in [Requests -> Request]
      /\ UNCHANGED <<sessions, held, now>>
  BY DEF SessionInv, TypeInv, TypeOK, LoginEvict
<1> DEFINE state(E, n, f, e) ==
             [req[r] EXCEPT !.pc = "read", !.token = n, !.family = f,
                        !.target = e, !.todo = E \ {e},
                        !.reason = "concurrent_limit", !.at = now + RefreshTTL]
<1>1. PICK E \in Evictable \ {{}}, n \in Tokens, f \in Families : \E e \in Oldest(E) :
         /\ FreshToken(n) /\ FreshFamily(f)
         /\ tokens' = [RevokeFamily(e) EXCEPT ![n] = NewToken(f, now)]
         /\ Become(r, state(E, n, f, e))
  BY DEF LoginEvict
<1>2. PICK e \in Oldest(E) :
         /\ FreshToken(n) /\ FreshFamily(f)
         /\ tokens' = [RevokeFamily(e) EXCEPT ![n] = NewToken(f, now)]
         /\ Become(r, state(E, n, f, e))
  BY <1>1
<1> DEFINE new == state(E, n, f, e)
<1>3. /\ new.pc = "read" /\ new.token = n /\ new.family = f
  BY <1>t DEF Request
<1>4. req' = [req EXCEPT ![r] = new]
  BY <1>2 DEF Become
<1> HIDE DEF new, state
<1>5. e \in Families
  BY <1>2 DEF Oldest, Evictable, ActiveSessions
<1>6. /\ tokens'[n].issued /\ tokens'[n].family = f /\ tokens'[n].acceptedAt = now
      /\ \A t \in Tokens \ {n} : /\ tokens'[t].issued = tokens[t].issued
                                 /\ tokens'[t].family = tokens[t].family
                                 /\ tokens'[t].acceptedAt = tokens[t].acceptedAt
  BY <1>t, <1>2, <1>5, RevokeFamilyType DEF NewToken
<1>7. /\ sessions[f].status = "none"
      /\ \A t \in held : tokens[t].family # f /\ t # n
      /\ \A q \in Requests : req[q].family # f
  BY <1>2, FreshFacts DEF SessionInv, HeldInv, FreshToken
<1>8. LoginOwns'
  <2> SUFFICES ASSUME NEW q \in Requests, LoggingIn(req'[q])
               PROVE  /\ sessions[req'[q].family].status = "none"
                      /\ tokens'[req'[q].token].issued
                      /\ tokens'[req'[q].token].family = req'[q].family
                      /\ \A t \in held : tokens'[t].family # req'[q].family
                      /\ \A p \in Requests \ {q} : req'[p].family # req'[q].family
    BY <1>t DEF LoginOwns, LoggingIn
  <2>1. CASE q = r
    <3>1. req'[q] = new
      BY <1>t, <1>4, <2>1
    <3>2. \A t \in held : tokens'[t].family # f
      BY <1>t, <1>6, <1>7
    <3>3. \A p \in Requests \ {q} : req'[p].family # f
      BY <1>t, <1>4, <1>7, <2>1
    <3> QED
      BY <1>3, <1>6, <1>7, <3>1, <3>2, <3>3
  <2>2. CASE q # r
    <3>1. req'[q] = req[q] /\ LoggingIn(req[q])
      BY <1>t, <1>4, <2>2
    <3>2. /\ req[q].token \in Tokens /\ req[q].family \in Families
          /\ sessions[req[q].family].status = "none"
          /\ tokens[req[q].token].issued
          /\ tokens[req[q].token].family = req[q].family
          /\ \A t \in held : tokens[t].family # req[q].family
          /\ \A p \in Requests \ {q} : req[p].family # req[q].family
      BY <1>t, <3>1 DEF SessionInv, LoginOwns, ControlInv, WellFormed, LoggingIn
    <3>3. req[q].token # n /\ req[q].family # f
      BY <1>2, <1>7, <3>2 DEF FreshToken
    <3>4. \A p \in Requests \ {q} : req'[p].family # req[q].family
      BY <1>t, <1>3, <1>4, <3>2, <3>3
    <3>5. \A t \in held : tokens'[t].family # req[q].family
      BY <1>t, <1>6, <1>7, <3>2
    <3> QED
      BY <1>6, <3>1, <3>2, <3>3, <3>4, <3>5
  <2> QED
    BY <2>1, <2>2
<1>9. HeldInv'
  BY <1>t, <1>6, <1>7 DEF SessionInv, HeldInv
<1>10. WriteInv'
  BY <1>t, <1>3, <1>4 DEF SessionInv, WriteInv
<1>11. TimeInv'
  <2>1. \A t \in Tokens : tokens'[t].acceptedAt <= now
    BY <1>t, <1>6 DEF SessionInv, TimeInv
  <2>2. ASSUME NEW q \in Requests PROVE Granted(req[q])'
    <3>1. Granted(req'[q])
      BY <1>t, <1>3, <1>4 DEF SessionInv, TimeInv, Granted
    <3> QED
      BY <1>t, <3>1 DEF Granted
  <2>3. AbsoluteCap'
    BY <1>t, <1>6, <1>7 DEF SessionInv, TimeInv, AbsoluteCap
  <2> QED
    BY <1>t, <2>1, <2>2, <2>3 DEF TimeInv
<1>12. HistoryStep
  BY <1>t DEF HistoryStep
<1> QED
  BY <1>8, <1>9, <1>10, <1>11, <1>12 DEF SessionInv

LEMMA SessionNext == SessionInv /\ [Next]_vars => SessionInv' /\ HistoryStep
<1> SUFFICES ASSUME SessionInv, [Next]_vars PROVE SessionInv' /\ HistoryStep
  OBVIOUS
<1>1. TypeInv'
  BY TypeNext DEF SessionInv
<1>2. CASE Tick \/ (\E r \in Requests : Enable(r)) \/ UNCHANGED vars
  <2>1. UNCHANGED <<tokens, sessions, held, req>>
    BY <1>2 DEF Tick, Enable, vars
  <2>2. now \in Nat /\ now' \in Nat /\ now <= now'
    BY <1>2, <1>1 DEF Tick, Enable, vars, SessionInv, TypeInv, TypeOK
  <2>3. HistoryStep
    BY <2>1 DEF HistoryStep
  <2>4. LoginOwns' /\ HeldInv' /\ WriteInv'
    BY <2>1 DEF SessionInv, LoginOwns, LoggingIn, HeldInv, WriteInv
  <2>5. TimeInv'
    <3>1. \A t \in Tokens : tokens[t].acceptedAt \in Nat
      BY DEF SessionInv, TypeInv, TypeOK, TokenRow
    <3>2. \A r \in Requests : req[r].at \in Nat
      BY DEF SessionInv, TypeInv, TypeOK, Request
    <3>3. \A t \in Tokens : tokens'[t].acceptedAt <= now'
      BY <2>1, <2>2, <3>1 DEF SessionInv, TimeInv
    <3>4. ASSUME NEW q \in Requests PROVE Granted(req[q])'
      BY <2>1, <2>2, <3>2 DEF SessionInv, TimeInv, Granted
    <3>5. AbsoluteCap'
      BY <2>1 DEF SessionInv, TimeInv, AbsoluteCap
    <3> QED
      BY <3>3, <3>4, <3>5 DEF TimeInv
  <2> QED
    BY <1>1, <2>3, <2>4, <2>5 DEF SessionInv
<1>3. CASE \E r \in Requests : Step(r) \/ Crash(r)
  BY <1>1, <1>3, ReadSteps, RevocationSteps, InsertSteps, EvictStep DEF Step
<1>4. CASE \E r \in Requests : Arrive(r)
  BY <1>1, <1>2, <1>4, ReadSteps DEF Arrive
<1> QED
  BY <1>2, <1>3, <1>4 DEF Next

\* check_timeout_policy bounds the sliding expiry for every choice of the
\* timeouts, however many refreshes race: no token of a session is granted
\* after its absolute lifetime.
THEOREM AbsoluteCapHolds == Spec => []AbsoluteCap
<1>1. Spec => []SessionInv
  BY SessionInit, SessionNext, PTL DEF Spec
<1>2. SessionInv => AbsoluteCap
  BY DEF SessionInv, TimeInv
<1> QED
  BY <1>1, <1>2, PTL

\* generate_tokens commits its token before its session when it evicts, yet a
\* client never holds a token without a session, crashes included.
THEOREM HeldTokensHaveSessions == Spec => []HeldTokenHasSession
<1>1. Spec => []SessionInv
  BY SessionInit, SessionNext, PTL DEF Spec
<1>2. SessionInv => HeldTokenHasSession
  BY DEF SessionInv, HeldInv, HeldTokenHasSession
<1> QED
  BY <1>1, <1>2, PTL

\* No stale write of touch, create or revoke brings a revoked session back,
\* deletes it or restarts its lifetime.
THEOREM SessionHistoryHolds == Spec => SessionHistory
<1>1. Spec => []SessionInv
  BY SessionInit, SessionNext, PTL DEF Spec
<1>2. SessionInv /\ [Next]_vars => [HistoryStep]_vars
  BY SessionNext
<1>3. SessionHistory <=> [][HistoryStep]_vars
  BY DEF SessionHistory, HistoryStep
<1> QED
  BY <1>1, <1>2, <1>3, PTL DEF Spec

---------------------------------------------------------------------------
(* How a request moves: the fields of its next state, action by action.    *)

Goes(r, op, pc) == req'[r].op = op /\ req'[r].pc = pc

\* A rotation that has just read token t, found it acceptable and wrote nothing.
Rotating(r, t) ==
    /\ RotateVerdict(t) = "accepted"
    /\ req'[r].token = t /\ req'[r].family = tokens[t].family /\ req'[r].at = now
    /\ req'[r].hadSession = (SessionOf(t).status # "none")

\* The loop goes on to the next session, or the handler to what follows it.
After(r) ==
    \/ /\ req[r].todo # {}
       /\ Goes(r, req[r].op, "sweep")
       /\ req'[r].todo = req[r].todo
    \/ /\ req[r].todo = {} /\ req[r].op = "login"
       /\ Goes(r, "login", "create")
       /\ req'[r].todo = {}
    \/ /\ req[r].todo = {} /\ req[r].op # "login"
       /\ req'[r] = IdleRequest

\* The loop takes up session f.
Aims(r, f) ==
    /\ Goes(r, req[r].op, "read")
    /\ req'[r].target = f /\ req'[r].todo = req[r].todo \ {f}

LEMMA Arrivals ==
    ASSUME TypeInv, NEW r \in Requests
    PROVE  /\ LoginAuthenticate(r) => Goes(r, "login", "generate")
           /\ \A t \in Tokens : RotateRead(r, t) =>
                 \/ Goes(r, "rotate", "rotate") /\ Rotating(r, t)
                 \/ Goes(r, "rotate", "sweep")
           /\ \A t \in Tokens : LogoutRead(r, t) =>
                 /\ Goes(r, "logout", "logout")
                 /\ req'[r].family = tokens[t].family
                 /\ req'[r].hadSession = (SessionOf(t).status = "active")
           /\ \A f \in Families : RevokeSessionStart(r, f) => Goes(r, "revoke", "sweep")
           /\ DisableRead(r) =>
                 Goes(r, "disable", "disable") /\ req'[r].todo = UnrevokedSessions
<1>t. req \in [Requests -> Request]
  BY DEF TypeInv, TypeOK
<1>b. ASSUME NEW state, Become(r, state) PROVE req'[r] = state
  BY <1>t, <1>b DEF Become
<1>1. ASSUME LoginAuthenticate(r) PROVE Goes(r, "login", "generate")
  BY <1>1, <1>b DEF LoginAuthenticate, Goes, IdleRequest
<1>2. ASSUME NEW t \in Tokens, RotateRead(r, t)
      PROVE  \/ Goes(r, "rotate", "rotate") /\ Rotating(r, t)
             \/ Goes(r, "rotate", "sweep")
  <2> DEFINE start == [IdleRequest EXCEPT !.op = "rotate", !.token = t,
                         !.family = tokens[t].family, !.at = now,
                         !.hadSession = SessionOf(t).status # "none"]
             rotating == [start EXCEPT !.pc = "rotate"]
             sweeping == [start EXCEPT !.pc = "sweep", !.todo = {tokens[t].family},
                                       !.reason = RotateVerdict(t)]
  <2>1. /\ rotating.op = "rotate" /\ rotating.pc = "rotate" /\ rotating.token = t
        /\ rotating.family = tokens[t].family /\ rotating.at = now
        /\ rotating.hadSession = (SessionOf(t).status # "none")
        /\ sweeping.op = "rotate" /\ sweeping.pc = "sweep"
    BY DEF IdleRequest
  <2>2. \/ RotateVerdict(t) = "accepted" /\ Become(r, rotating)
        \/ Become(r, sweeping)
    BY <1>2 DEF RotateRead
  <2> HIDE DEF rotating, sweeping, start
  <2> QED
    BY <1>b, <2>1, <2>2 DEF Goes, Rotating
<1>3. ASSUME NEW t \in Tokens, LogoutRead(r, t)
      PROVE  /\ Goes(r, "logout", "logout")
             /\ req'[r].family = tokens[t].family
             /\ req'[r].hadSession = (SessionOf(t).status = "active")
  <2> DEFINE state == [IdleRequest EXCEPT !.op = "logout", !.pc = "logout",
                     !.token = t, !.family = tokens[t].family,
                     !.reason = "user_logout",
                     !.hadSession = SessionOf(t).status = "active"]
  <2>1. /\ state.op = "logout" /\ state.pc = "logout" /\ state.family = tokens[t].family
        /\ state.hadSession = (SessionOf(t).status = "active")
    BY DEF IdleRequest
  <2>2. Become(r, state)
    BY <1>3 DEF LogoutRead
  <2> HIDE DEF state
  <2> QED
    BY <1>b, <2>1, <2>2 DEF Goes
<1>4. ASSUME NEW f \in Families, RevokeSessionStart(r, f) PROVE Goes(r, "revoke", "sweep")
  BY <1>4, <1>b DEF RevokeSessionStart, Goes, IdleRequest
<1>5. ASSUME DisableRead(r)
      PROVE  Goes(r, "disable", "disable") /\ req'[r].todo = UnrevokedSessions
  BY <1>5, <1>b DEF DisableRead, Goes, IdleRequest
<1> QED
  BY <1>1, <1>2, <1>3, <1>4, <1>5

LEMMA LoopMoves ==
    ASSUME TypeInv, NEW r \in Requests
    PROVE  /\ SweepFamily(r) =>
                 \E f \in req[r].todo : tokens' = RevokeFamily(f) /\ Aims(r, f)
           /\ DisableCommit(r) =>
                 \/ req[r].todo = {} /\ req'[r] = IdleRequest /\ UNCHANGED tokens
                 \/ \E f \in req[r].todo : tokens' = RevokeFamily(f) /\ Aims(r, f)
           /\ SweepRead(r) =>
                 IF sessions[req[r].target].status = "active"
                 THEN /\ Goes(r, req[r].op, "write")
                      /\ req'[r].target = req[r].target /\ req'[r].todo = req[r].todo
                 ELSE After(r)
           /\ SweepWrite(r) => After(r)
           /\ LoginEvict(r) =>
                 \E E \in Evictable \ {{}}, t \in Tokens, f \in Families :
                 \E e \in Oldest(E) :
                     /\ FreshToken(t) /\ FreshFamily(f)
                     /\ tokens' = [RevokeFamily(e) EXCEPT ![t] = NewToken(f, now)]
                     /\ Goes(r, req[r].op, "read")
                     /\ req'[r].target = e /\ req'[r].todo = E \ {e}
<1>t. req \in [Requests -> Request] /\ req[r] \in Request
  BY DEF TypeInv, TypeOK
<1>b. ASSUME NEW state, Become(r, state) PROVE req'[r] = state
  BY <1>t, <1>b DEF Become
<1>a. ASSUME NEW f, Become(r, [req[r] EXCEPT !.pc = "read", !.target = f, !.todo = @ \ {f}])
      PROVE  Aims(r, f)
  BY <1>t, <1>a, <1>b DEF Aims, Goes, Request
<1>f. ASSUME Become(r, AfterTarget(r)) PROVE After(r)
  <2>1. req'[r] = AfterTarget(r)
    BY <1>b, <1>f
  <2>2. CASE req[r].todo # {}
    BY <1>t, <2>1, <2>2 DEF AfterTarget, After, Goes, Request
  <2>3. CASE req[r].todo = {} /\ req[r].op = "login"
    BY <1>t, <2>1, <2>3 DEF AfterTarget, After, Goes, Request
  <2>4. CASE req[r].todo = {} /\ req[r].op # "login"
    BY <2>1, <2>4 DEF AfterTarget, After
  <2> QED
    BY <2>2, <2>3, <2>4
<1>1. SweepFamily(r) => \E f \in req[r].todo : tokens' = RevokeFamily(f) /\ Aims(r, f)
  BY <1>a, Zenon DEF SweepFamily, Oldest
<1>2. DisableCommit(r) =>
         \/ req[r].todo = {} /\ req'[r] = IdleRequest /\ UNCHANGED tokens
         \/ \E f \in req[r].todo : tokens' = RevokeFamily(f) /\ Aims(r, f)
  BY <1>a, <1>b, Zenon DEF DisableCommit, Finish
<1>3. ASSUME SweepRead(r)
      PROVE  IF sessions[req[r].target].status = "active"
             THEN /\ Goes(r, req[r].op, "write")
                  /\ req'[r].target = req[r].target /\ req'[r].todo = req[r].todo
             ELSE After(r)
  <2>1. CASE sessions[req[r].target].status = "active"
    <3>1. req'[r] = [req[r] EXCEPT !.pc = "write"]
      BY <1>3, <1>b, <2>1 DEF SweepRead
    <3> QED
      BY <1>t, <2>1, <3>1 DEF Goes, Request
  <2>2. CASE sessions[req[r].target].status # "active"
    BY <1>3, <1>f, <2>2 DEF SweepRead
  <2> QED
    BY <2>1, <2>2
<1>4. SweepWrite(r) => After(r)
  BY <1>f DEF SweepWrite
<1>5. ASSUME LoginEvict(r)
      PROVE  \E E \in Evictable \ {{}}, t \in Tokens, f \in Families :
             \E e \in Oldest(E) :
                 /\ FreshToken(t) /\ FreshFamily(f)
                 /\ tokens' = [RevokeFamily(e) EXCEPT ![t] = NewToken(f, now)]
                 /\ Goes(r, req[r].op, "read")
                 /\ req'[r].target = e /\ req'[r].todo = E \ {e}
  <2> DEFINE state(E, t, f, e) ==
               [req[r] EXCEPT !.pc = "read", !.token = t, !.family = f,
                          !.target = e, !.todo = E \ {e},
                          !.reason = "concurrent_limit", !.at = now + RefreshTTL]
  <2>1. PICK E \in Evictable \ {{}}, t \in Tokens, f \in Families : \E e \in Oldest(E) :
         /\ FreshToken(t) /\ FreshFamily(f)
         /\ tokens' = [RevokeFamily(e) EXCEPT ![t] = NewToken(f, now)]
         /\ Become(r, state(E, t, f, e))
    BY <1>5, Zenon DEF LoginEvict
  <2>2. PICK e \in Oldest(E) :
         /\ FreshToken(t) /\ FreshFamily(f)
         /\ tokens' = [RevokeFamily(e) EXCEPT ![t] = NewToken(f, now)]
         /\ Become(r, state(E, t, f, e))
    BY <2>1, Zenon
  <2>3. /\ state(E, t, f, e).op = req[r].op /\ state(E, t, f, e).pc = "read"
        /\ state(E, t, f, e).target = e /\ state(E, t, f, e).todo = E \ {e}
    BY <1>t DEF Request
  <2> HIDE DEF state
  <2> QED
    BY <1>b, <2>2, <2>3 DEF Goes
<1> QED
  BY <1>1, <1>2, <1>3, <1>4, <1>5

\* A request acts alone: it leaves the others where they are.
LEMMA OneMoves ==
    ASSUME TypeInv, NEW r \in Requests, NEW q \in Requests \ {r}
    PROVE  Arrive(r) \/ Step(r) \/ Crash(r) => req'[q] = req[q]
<1>1. ASSUME NEW state, Become(r, state) PROVE req'[q] = req[q]
  BY <1>1 DEF Become, TypeInv, TypeOK
<1>2. Arrive(r) => req'[q] = req[q]
  BY <1>1, Zenon DEF Arrive, Enable, LoginAuthenticate, RotateRead, LogoutRead,
     RevokeSessionStart, DisableRead
<1>3. Step(r) \/ Crash(r) => req'[q] = req[q]
  BY <1>1, Zenon DEF Step, Crash, Finish, LoginCommit, LoginEvict, LoginCreate, RotateCommit,
     RotateConflict, LogoutCommit, DisableCommit, SweepFamily, SweepRead, SweepWrite
<1> QED
  BY <1>2, <1>3

\* The handlers that end.
LEMMA Ends ==
    ASSUME TypeInv, NEW r \in Requests,
           \/ LoginCommit(r) \/ LoginCreate(r) \/ RotateCommit(r) \/ RotateConflict(r)
           \/ LogoutCommit(r) \/ Crash(r)
    PROVE  req'[r] = IdleRequest
<1>1. ASSUME NEW state, Become(r, state) PROVE req'[r] = state
  BY <1>1 DEF Become, TypeInv, TypeOK
<1> QED
  BY <1>1, Zenon DEF Crash, Finish, LoginCommit, LoginCreate, RotateCommit, RotateConflict,
     LogoutCommit

---------------------------------------------------------------------------
(* Frozen families                                                         *)

\* What RevokedFamilyFrozen says of one step.
FrozenStep ==
    \A f \in Families : Frozen(f) =>
        Frozen(f)' /\ FamilyRows(f)' \subseteq FamilyRows(f)

\* Only an accepted RotateRead puts a request into the rotating state.
LEMMA RotationStarts ==
    ASSUME TypeInv, [Next]_vars, NEW r \in Requests, req'[r].pc = "rotate"
    PROVE  \/ req'[r] = req[r]
           \/ /\ \E t \in held : Rotating(r, t)
              /\ UNCHANGED <<account, tokens, sessions, held, now>>
<1>i. IdleRequest.pc = "idle"
  BY DEF IdleRequest
<1>1. ASSUME NEW q \in Requests, Arrive(q)
      PROVE  \/ req'[r] = req[r]
             \/ /\ \E t \in held : Rotating(r, t)
                /\ UNCHANGED <<account, tokens, sessions, held, now>>
  <2>1. q # r => req'[r] = req[r]
    BY <1>1, OneMoves
  <2>2. /\ ~LoginAuthenticate(r) /\ ~DisableRead(r)
        /\ \A f \in Families : ~RevokeSessionStart(r, f)
        /\ \A t \in Tokens : ~LogoutRead(r, t)
    BY Arrivals DEF Goes
  <2>3. ASSUME NEW t \in Tokens, RotateRead(r, t)
        PROVE  /\ t \in held /\ Rotating(r, t)
               /\ UNCHANGED <<account, tokens, sessions, held, now>>
    <3>1. Rotating(r, t)
      BY <2>3, Arrivals DEF Goes
    <3> QED
      BY <2>3, <3>1, Zenon DEF RotateRead
  <2>4. CASE Enable(q)
    BY <2>4 DEF Enable
  <2> QED
    BY <1>1, <2>1, <2>2, <2>3, <2>4 DEF Arrive
<1>2. ASSUME NEW q \in Requests, Step(q) \/ Crash(q) PROVE req'[r] = req[r]
  <2>1. q # r => req'[r] = req[r]
    BY <1>2, OneMoves
  <2>2. ~(LoginEvict(r) \/ DisableCommit(r) \/ SweepFamily(r) \/ SweepRead(r) \/ SweepWrite(r))
    BY <1>i, LoopMoves DEF Aims, After, Goes
  <2>3. ~(\/ LoginCommit(r) \/ LoginCreate(r) \/ RotateCommit(r) \/ RotateConflict(r)
          \/ LogoutCommit(r) \/ Crash(r))
    BY <1>i, Ends
  <2> QED
    BY <1>2, <2>1, <2>2, <2>3 DEF Step
<1> QED
  BY <1>1, <1>2 DEF Next, Tick, vars

\* A rotation that reads a revoked session is refused by is_usable.
LEMMA NoRotationStarts ==
    ASSUME SessionInv, [Next]_vars, NEW f \in Families, Frozen(f), NEW r \in Requests
    PROVE  req'[r].pc = "rotate" => req'[r].family # f
<1> SUFFICES ASSUME req'[r].pc = "rotate", req'[r].family = f PROVE FALSE
  OBVIOUS
<1>1. PICK t \in held : RotateVerdict(t) = "accepted" /\ tokens[t].family = f
  BY RotationStarts DEF SessionInv, Frozen, Rotating
<1>2. SessionOf(t).status = "revoked"
  BY <1>1, ConstantsAssumption DEF SessionOf, Frozen
<1> QED
  BY <1>1, <1>2 DEF RotateVerdict, IsUsable

\* A row enters a family by a login, which takes a fresh one, or by a rotation
\* that was already in flight.
LEMMA NoRowAdded ==
    ASSUME SessionInv, [Next]_vars, NEW f \in Families, Frozen(f)
    PROVE  FamilyRows(f)' \subseteq FamilyRows(f)
<1> SUFFICES ASSUME NEW t \in Tokens, tokens'[t].issued, tokens'[t].family = f
             PROVE  tokens[t].issued /\ tokens[t].family = f
  BY DEF FamilyRows
<1>t. /\ TypeInv /\ TypeOK /\ now \in Nat /\ tokens \in [Tokens -> TokenRow]
      /\ \A q \in Requests : req[q] \in Request
  BY DEF SessionInv, TypeInv, TypeOK
<1>n. \A g, at : NewToken(g, at).family = g
  BY DEF NewToken
<1>1. ASSUME TokensAlike PROVE tokens[t].issued /\ tokens[t].family = f
  BY <1>1 DEF TokensAlike
<1>2. ASSUME NEW q \in Requests, LoginCommit(q) PROVE tokens[t].issued /\ tokens[t].family = f
  <2>1. PICK n \in Tokens, g \in Families :
          FreshFamily(g) /\ tokens' = [tokens EXCEPT ![n] = NewToken(g, now)]
    BY <1>2 DEF LoginCommit
  <2>2. g # f
    BY <2>1 DEF FreshFamily, Frozen
  <2> QED
    BY <1>t, <1>n, <2>1, <2>2
<1>3. ASSUME NEW q \in Requests, LoginEvict(q) PROVE tokens[t].issued /\ tokens[t].family = f
  <2>1. PICK E \in Evictable \ {{}}, n \in Tokens, g \in Families : \E e \in Oldest(E) :
          FreshFamily(g) /\ tokens' = [RevokeFamily(e) EXCEPT ![n] = NewToken(g, now)]
    BY <1>3 DEF LoginEvict
  <2>2. PICK e \in Oldest(E) : tokens' = [RevokeFamily(e) EXCEPT ![n] = NewToken(g, now)]
    BY <2>1
  <2>3. g # f /\ e \in Families
    BY <2>1, <2>2 DEF FreshFamily, Frozen, Oldest, Evictable, ActiveSessions
  <2> QED
    BY <1>t, <1>n, <2>2, <2>3, RevokeFamilyType
<1>4. ASSUME NEW q \in Requests, RotateCommit(q) PROVE tokens[t].issued /\ tokens[t].family = f
  <2>1. PICK n \in Tokens, g \in Families :
         /\ IF req[q].family = NoFamily THEN FreshFamily(g) ELSE g = req[q].family
         /\ tokens' = [tokens EXCEPT
                ![req[q].token] =
                    RotatedRow(@, IF req[q].family = NoFamily THEN g ELSE NoFamily),
                ![n] = NewToken(g, req[q].at)]
    BY <1>4 DEF RotateCommit
  <2>2. g # f
    BY <1>4, <2>1 DEF FreshFamily, Frozen, RotateCommit
  <2> DEFINE row == RotatedRow(tokens[req[q].token],
                        IF req[q].family = NoFamily THEN g ELSE NoFamily)
  <2>3. req[q].token \in Tokens
    BY <1>4 DEF RotateCommit, SessionInv, TypeInv, ControlInv, WellFormed
  <2>4. /\ row.issued = tokens[req[q].token].issued
        /\ row.family \in {tokens[req[q].token].family, g}
    BY <1>t, <2>3 DEF RotatedRow, TokenRow
  <2>5. tokens' = [[tokens EXCEPT ![req[q].token] = row] EXCEPT ![n] = NewToken(g, req[q].at)]
    BY <2>1
  <2> HIDE DEF row
  <2> QED
    BY <1>t, <1>n, <2>2, <2>3, <2>4, <2>5
<1>5. ASSUME NEW q \in Requests, SweepFamily(q) \/ DisableCommit(q) PROVE TokensAlike
  <2>1. ASSUME NEW g \in req[q].todo, tokens' = RevokeFamily(g) PROVE TokensAlike
    BY <1>t, <2>1, RevokeFamilyType DEF Request, TokensAlike
  <2>2. ASSUME UNCHANGED tokens PROVE TokensAlike
    BY <2>2 DEF TokensAlike
  <2> QED
    BY <1>5, <2>1, <2>2 DEF SweepFamily, DisableCommit, Oldest
<1>6. ASSUME NEW q \in Requests, LogoutCommit(q) PROVE TokensAlike
  BY <1>6, <1>t DEF LogoutCommit, TokensAlike, TokenRow
<1>7. ASSUME UNCHANGED tokens PROVE TokensAlike
  BY <1>7 DEF TokensAlike
<1> QED
  BY <1>1, <1>2, <1>3, <1>4, <1>5, <1>6, <1>7
  DEF Next, Arrive, Step, vars, Tick, Crash, Enable, LoginAuthenticate, RotateRead, LogoutRead,
      RevokeSessionStart, DisableRead, LoginCreate, RotateConflict, SweepRead, SweepWrite

\* rotate_refresh_token never mints a token for a session that was revoked
\* before the rotation read it: once the rotations in flight are over, a
\* revoked family is frozen for ever, for every number of requests.
THEOREM RevokedFamilyFrozenHolds == Spec => RevokedFamilyFrozen
<1>1. Spec => []SessionInv
  BY SessionInit, SessionNext, PTL DEF Spec
<1>2. SessionInv /\ SessionInv' /\ [Next]_vars => [FrozenStep]_vars
  <2> SUFFICES ASSUME SessionInv, SessionInv', [Next]_vars, NEW f \in Families, Frozen(f)
               PROVE  Frozen(f)' /\ FamilyRows(f)' \subseteq FamilyRows(f)
    BY DEF FrozenStep
  <2>1. sessions'[f].status = "revoked"
    BY SessionNext DEF HistoryStep, Frozen
  <2>2. \A r \in Requests : req'[r].pc = "rotate" => req'[r].family # f
    BY NoRotationStarts
  <2> QED
    BY <2>1, <2>2, NoRowAdded DEF Frozen
<1>3. RevokedFamilyFrozen <=> [][FrozenStep]_vars
  BY DEF RevokedFamilyFrozen, FrozenStep
<1> QED
  BY <1>1, <1>2, <1>3, PTL DEF Spec

---------------------------------------------------------------------------
(* What the handlers do to the tables.                                     *)

\* Of these rows nothing but flags changes, and no revocation is taken back.
OnlyRevokes(S) ==
    \A t \in S : /\ tokens'[t].issued = tokens[t].issued
                 /\ tokens'[t].family = tokens[t].family
                 /\ tokens'[t].rotated = tokens[t].rotated
                 /\ tokens'[t].expires = tokens[t].expires
                 /\ tokens'[t].acceptedAt = tokens[t].acceptedAt
                 /\ tokens[t].revoked => tokens'[t].revoked

\* A login inserts token n of a new family f.
Inserts(n, f) ==
    /\ FreshToken(n) /\ FreshFamily(f)
    /\ tokens'[n] = NewToken(f, now)
    /\ OnlyRevokes(Tokens \ {n})

\* A rotation of request r marks its token as used and inserts n into family f.
Rotates(r, n, f) ==
    /\ req[r].pc = "rotate"
    /\ FreshToken(n) /\ n # req[r].token
    /\ IF req[r].family = NoFamily THEN FreshFamily(f) ELSE f = req[r].family
    /\ req[r].hadSession \/ sessions[f].status = "none"
    /\ tokens'[n] = NewToken(f, req[r].at)
    /\ \A t \in Tokens \ {n, req[r].token} : tokens'[t] = tokens[t]
    /\ tokens'[req[r].token].issued /\ tokens'[req[r].token].rotated
    /\ tokens'[req[r].token].acceptedAt = tokens[req[r].token].acceptedAt
    /\ tokens'[req[r].token].expires = tokens[req[r].token].expires
    /\ tokens'[req[r].token].family =
          IF req[r].family = NoFamily THEN f ELSE tokens[req[r].token].family
    /\ sessions' = [sessions EXCEPT ![f] =
          IF req[r].hadSession THEN Touch(@, now + RefreshTTL)
          ELSE CreateSession(now + RefreshTTL)]

LEMMA RevokeFamilyRevokes ==
    ASSUME TypeInv, NEW f \in Families, tokens' = RevokeFamily(f)
    PROVE  OnlyRevokes(Tokens)
BY DEF RevokeFamily, OnlyRevokes, TypeInv, TypeOK, TokenRow

LEMMA RevokingRows ==
    ASSUME TypeInv, NEW r \in Requests, SweepFamily(r) \/ DisableCommit(r) \/ LogoutCommit(r)
    PROVE  OnlyRevokes(Tokens)
<1>t. req[r] \in Request /\ tokens \in [Tokens -> TokenRow]
  BY DEF TypeInv, TypeOK
<1>1. CASE \E f \in req[r].todo : tokens' = RevokeFamily(f)
  BY <1>t, <1>1, RevokeFamilyRevokes DEF Request
<1>2. CASE UNCHANGED tokens
  BY <1>2 DEF OnlyRevokes
<1>3. CASE LogoutCommit(r)
  BY <1>t, <1>3 DEF LogoutCommit, OnlyRevokes, TokenRow
<1> QED
  BY <1>1, <1>2, <1>3, LoopMoves

LEMMA LoginRows ==
    ASSUME TypeInv, NEW r \in Requests
    PROVE  /\ LoginCommit(r) => \E n \in Tokens, f \in Families :
                 /\ Inserts(n, f)
                 /\ sessions' = [sessions EXCEPT ![f] = CreateSession(now + RefreshTTL)]
           /\ LoginEvict(r) => \E n \in Tokens, f \in Families : Inserts(n, f)
<1>t. tokens \in [Tokens -> TokenRow]
  BY DEF TypeInv, TypeOK
<1>1. ASSUME LoginCommit(r)
      PROVE  \E n \in Tokens, f \in Families :
                 /\ Inserts(n, f)
                 /\ sessions' = [sessions EXCEPT ![f] = CreateSession(now + RefreshTTL)]
  <2>1. PICK n \in Tokens, f \in Families :
          /\ FreshToken(n) /\ FreshFamily(f)
          /\ tokens' = [tokens EXCEPT ![n] = NewToken(f, now)]
          /\ sessions' = [sessions EXCEPT ![f] = CreateSession(now + RefreshTTL)]
    BY <1>1 DEF LoginCommit
  <2> QED
    BY <1>t, <2>1 DEF Inserts, OnlyRevokes
<1>2. ASSUME LoginEvict(r) PROVE \E n \in Tokens, f \in Families : Inserts(n, f)
  <2>1. PICK E \in Evictable \ {{}}, n \in Tokens, f \in Families : \E e \in Oldest(E) :
          /\ FreshToken(n) /\ FreshFamily(f)
          /\ tokens' = [RevokeFamily(e) EXCEPT ![n] = NewToken(f, now)]
    BY <1>2, LoopMoves
  <2>2. PICK e \in Oldest(E) : tokens' = [RevokeFamily(e) EXCEPT ![n] = NewToken(f, now)]
    BY <2>1
  <2>3. tokens'[n] = NewToken(f, now) /\ OnlyRevokes(Tokens \ {n})
    BY <1>t, <2>2 DEF RevokeFamily, OnlyRevokes, TokenRow
  <2> QED
    BY <2>1, <2>3 DEF Inserts
<1> QED
  BY <1>1, <1>2

LEMMA RotationRows ==
    ASSUME SessionInv, NEW r \in Requests, RotateCommit(r)
    PROVE  \E n \in Tokens, f \in Families : Rotates(r, n, f)
<1>t. /\ tokens \in [Tokens -> TokenRow] /\ req[r].pc = "rotate"
      /\ req[r].token \in Tokens /\ tokens[req[r].token].issued
  BY DEF SessionInv, TypeInv, TypeOK, ControlInv, WellFormed, TimeInv, Granted, HeldInv, RotateCommit
<1>1. PICK n \in Tokens, f \in Families :
         /\ FreshToken(n)
         /\ IF req[r].family = NoFamily THEN FreshFamily(f) ELSE f = req[r].family
         /\ req[r].hadSession \/ sessions[f].status = "none"
         /\ tokens' = [tokens EXCEPT
                ![req[r].token] =
                    RotatedRow(@, IF req[r].family = NoFamily THEN f ELSE NoFamily),
                ![n] = NewToken(f, req[r].at)]
         /\ sessions' = [sessions EXCEPT ![f] =
                IF req[r].hadSession THEN Touch(@, now + RefreshTTL)
                ELSE CreateSession(now + RefreshTTL)]
  BY DEF RotateCommit
<1>2. n # req[r].token
  BY <1>t, <1>1 DEF FreshToken
<1> DEFINE old == tokens[req[r].token]
           row == RotatedRow(old, IF req[r].family = NoFamily THEN f ELSE NoFamily)
<1>3. /\ row.issued = old.issued /\ row.rotated /\ row.acceptedAt = old.acceptedAt
      /\ row.expires = old.expires
      /\ row.family = IF req[r].family = NoFamily THEN f ELSE old.family
  BY <1>t, ConstantsAssumption DEF RotatedRow, TokenRow
<1>4. tokens' = [[tokens EXCEPT ![req[r].token] = row] EXCEPT ![n] = NewToken(f, req[r].at)]
  BY <1>1
<1> HIDE DEF row
<1> QED
  BY <1>t, <1>1, <1>2, <1>3, <1>4 DEF Rotates

\* The token rows after any step.
LEMMA TokenOutcomes ==
    ASSUME SessionInv, [Next]_vars
    PROVE  \/ OnlyRevokes(Tokens)
           \/ \E n \in Tokens, f \in Families : Inserts(n, f)
           \/ \E r \in Requests : RotateCommit(r)
<1>1. ASSUME UNCHANGED tokens PROVE OnlyRevokes(Tokens)
  BY <1>1 DEF OnlyRevokes
<1>2. ASSUME NEW r \in Requests, Arrive(r) \/ Crash(r) PROVE UNCHANGED tokens
  BY <1>2, Zenon DEF Arrive, Enable, LoginAuthenticate, RotateRead, LogoutRead, RevokeSessionStart,
     DisableRead, Crash
<1>3. ASSUME NEW r \in Requests, Step(r)
      PROVE  \/ OnlyRevokes(Tokens)
             \/ \E n \in Tokens, f \in Families : Inserts(n, f)
             \/ RotateCommit(r)
  <2>1. CASE LoginCreate(r) \/ RotateConflict(r) \/ SweepRead(r) \/ SweepWrite(r)
    BY <1>1, <2>1 DEF LoginCreate, RotateConflict, SweepRead, SweepWrite
  <2> QED
    BY <1>3, <2>1, LoginRows, RevokingRows DEF Step, SessionInv
<1>4. CASE Tick \/ UNCHANGED vars
  BY <1>1, <1>4 DEF Tick, vars
<1> QED
  BY <1>1, <1>2, <1>3, <1>4 DEF Next

\* The session rows after any step: revoked, inserted or touched.
LEMMA SessionOutcomes ==
    ASSUME SessionInv, [Next]_vars, NEW f \in Families
    PROVE  \/ sessions'[f] = sessions[f]
           \/ /\ sessions[f].status # "none" /\ sessions'[f].status = "revoked"
              /\ sessions'[f].created = sessions[f].created
              /\ sessions'[f].activity = sessions[f].activity
              /\ \E r \in Requests : \/ SweepWrite(r) /\ f = req[r].target
                                     \/ LogoutCommit(r) /\ req[r].hadSession /\ f = req[r].family
           \/ /\ sessions[f].status = "none"
              /\ sessions'[f].created = now /\ sessions'[f].activity = now
              /\ \E r \in Requests : LoginCommit(r) \/ LoginCreate(r) \/ RotateCommit(r)
           \/ \E r \in Requests, n \in Tokens :
                 /\ RotateCommit(r) /\ Rotates(r, n, f) /\ req[r].hadSession
                 /\ sessions'[f] = Touch(sessions[f], now + RefreshTTL)
<1>t. /\ TypeInv /\ sessions \in [Families -> SessionRow]
      /\ \A r \in Requests : req[r] \in Request /\ WellFormed(req[r])
  BY DEF SessionInv, TypeInv, TypeOK, ControlInv
<1>c. \A e : CreateSession(e).created = now /\ CreateSession(e).activity = now
  BY DEF CreateSession
<1>v. \A g \in Families : \A why :
        /\ RevokeRow(sessions[g], why).status = "revoked"
        /\ RevokeRow(sessions[g], why).created = sessions[g].created
        /\ RevokeRow(sessions[g], why).activity = sessions[g].activity
  BY <1>t DEF RevokeRow, SessionRow
<1>1. ASSUME NEW r \in Requests, Arrive(r) \/ Crash(r) PROVE UNCHANGED sessions
  BY <1>1, Zenon DEF Arrive, Enable, LoginAuthenticate, RotateRead, LogoutRead, RevokeSessionStart,
     DisableRead, Crash
<1>2. CASE \E r \in Requests : SweepWrite(r)
  <2>1. PICK r \in Requests : SweepWrite(r)
    BY <1>2
  <2>2. /\ req[r].target \in Families /\ sessions[req[r].target].status # "none"
        /\ sessions' = [sessions EXCEPT ![req[r].target] =
                          RevokeRow(sessions[req[r].target], req[r].reason)]
    BY <1>t, <2>1 DEF SweepWrite, WellFormed, SessionInv, WriteInv
  <2> QED
    BY <1>t, <1>v, <2>1, <2>2
<1>3. CASE \E r \in Requests : LogoutCommit(r)
  <2>1. PICK r \in Requests : LogoutCommit(r)
    BY <1>3
  <2>2. CASE req[r].hadSession
    <3>1. /\ req[r].family \in Families /\ sessions[req[r].family].status # "none"
          /\ sessions' = [sessions EXCEPT ![req[r].family] =
                            RevokeRow(sessions[req[r].family], req[r].reason)]
      BY <1>t, <2>1, <2>2 DEF LogoutCommit, WellFormed, SessionInv, WriteInv
    <3> QED
      BY <1>t, <1>v, <2>1, <2>2, <3>1
  <2> QED
    BY <2>1, <2>2 DEF LogoutCommit
<1>4. CASE \E r \in Requests : LoginCommit(r)
  <2>1. PICK r \in Requests : LoginCommit(r)
    BY <1>4
  <2>2. PICK n \in Tokens, g \in Families :
          Inserts(n, g) /\ sessions' = [sessions EXCEPT ![g] = CreateSession(now + RefreshTTL)]
    BY <1>t, <2>1, LoginRows
  <2>3. sessions[g].status = "none"
    BY <2>2 DEF Inserts, FreshFamily
  <2> QED
    BY <1>t, <1>c, <2>1, <2>2, <2>3
<1>5. CASE \E r \in Requests : LoginCreate(r)
  <2>1. PICK r \in Requests : LoginCreate(r)
    BY <1>5
  <2>2. req[r].op = "login" /\ req[r].pc = "create"
    BY <1>t, <2>1 DEF LoginCreate, WellFormed
  <2>3. sessions[req[r].family].status = "none" /\ req[r].family \in Families
    BY <1>t, <2>2 DEF SessionInv, LoginOwns, LoggingIn, WellFormed
  <2>4. sessions' = [sessions EXCEPT ![req[r].family] = CreateSession(req[r].at)]
    BY <2>1 DEF LoginCreate
  <2> QED
    BY <1>t, <1>c, <2>1, <2>3, <2>4
<1>6. CASE \E r \in Requests : RotateCommit(r)
  <2>1. PICK r \in Requests : RotateCommit(r)
    BY <1>6
  <2>2. PICK n \in Tokens, g \in Families : Rotates(r, n, g)
    BY <2>1, RotationRows
  <2>3. CASE g = f /\ req[r].hadSession
    BY <1>t, <2>1, <2>2, <2>3 DEF Rotates
  <2>4. CASE g = f /\ ~req[r].hadSession
    <3>1. sessions'[f] = CreateSession(now + RefreshTTL) /\ sessions[f].status = "none"
      BY <1>t, <2>2, <2>4 DEF Rotates
    <3> QED
      BY <1>c, <2>1, <3>1
  <2>5. CASE g # f
    BY <1>t, <2>2, <2>5 DEF Rotates
  <2> QED
    BY <2>3, <2>4, <2>5
<1>7. ASSUME NEW r \in Requests, \/ LoginEvict(r) \/ RotateConflict(r) \/ DisableCommit(r)
                                 \/ SweepFamily(r) \/ SweepRead(r)
      PROVE  UNCHANGED sessions
  BY <1>7, Zenon DEF LoginEvict, RotateConflict, DisableCommit, SweepFamily, SweepRead
<1>8. CASE Tick \/ UNCHANGED vars
  BY <1>8 DEF Tick, vars
<1>9. \/ Tick \/ UNCHANGED vars
      \/ \E r \in Requests : Arrive(r) \/ Step(r) \/ Crash(r)
  BY DEF Next
<1>10. CASE \E r \in Requests : Arrive(r) \/ Crash(r)
  BY <1>1, <1>10
<1>11. CASE \E r \in Requests : Step(r)
  BY <1>2, <1>3, <1>4, <1>5, <1>6, <1>7, <1>11 DEF Step
<1> QED
  BY <1>8, <1>9, <1>10, <1>11

---------------------------------------------------------------------------
(* IdleCap, with any number of overlapping requests.                       *)

\* Time x is within IdleTimeout of the session's start, or of the minting of a
\* token of family f other than t.
Backed(f, x, t) ==
    \/ x <= sessions[f].created + IdleTimeout
    \/ \E u \in Tokens \ (Legacy \cup {t}) :
          /\ tokens[u].issued /\ tokens[u].family = f
          /\ x <= tokens[u].expires - RefreshTTL + IdleTimeout

\* Legacy rows exist from the start, and only they may lack a family.
LegacyRows ==
    /\ \A t \in Legacy : tokens[t].issued
    /\ \A t \in Tokens \ Legacy : tokens[t].issued => tokens[t].family \in Families
    /\ \A r \in Requests :
          req[r].pc = "rotate" /\ req[r].family = NoFamily => req[r].token \in Legacy

\* last_activity_at moves only together with a new token of the family.
ActivityBacked ==
    \A f \in Families : sessions[f].status # "none" =>
        Backed(f, sessions[f].activity + IdleTimeout, NoToken)

GrantsBacked ==
    /\ \A t \in Tokens, f \in Families :
          tokens[t].issued /\ tokens[t].family = f /\ sessions[f].status # "none" =>
              Backed(f, tokens[t].acceptedAt, t)
    /\ \A r \in Requests :
          req[r].pc = "rotate" /\ req[r].hadSession =>
              Backed(req[r].family, req[r].at, NoToken)

IdleInv == SessionInv /\ LegacyRows /\ ActivityBacked /\ GrantsBacked

LEMMA IdleInit == Init => IdleInv
<1> SUFFICES ASSUME Init PROVE IdleInv
  OBVIOUS
<1>1. PICK fam \in [Legacy -> Families \cup {NoFamily}] :
          tokens = [t \in Tokens |->
                IF t \in Legacy
                THEN [NoTokenRow EXCEPT !.issued = TRUE, !.family = fam[t],
                                        !.expires = RefreshTTL]
                ELSE NoTokenRow]
  BY Zenon DEF Init
<1>2. ASSUME NEW t \in Tokens
      PROVE  /\ t \in Legacy => tokens[t].issued
             /\ t \notin Legacy => ~tokens[t].issued
  <2>1. CASE t \in Legacy
    <3>1. tokens[t] = [NoTokenRow EXCEPT !.issued = TRUE, !.family = fam[t],
                                         !.expires = RefreshTTL]
      BY <1>1, <2>1, Zenon
    <3> QED
      BY <2>1, <3>1 DEF NoTokenRow
  <2>2. CASE t \notin Legacy
    <3>1. tokens[t] = NoTokenRow
      BY <1>1, <2>2, Zenon
    <3> QED
      BY <2>2, <3>1 DEF NoTokenRow
  <2> QED
    BY <2>1, <2>2
<1>3. /\ \A r \in Requests : req[r] = IdleRequest
      /\ \A f \in Families : sessions[f] = NoSessionRow
  BY Zenon DEF Init
<1>4. IdleRequest.pc = "idle" /\ NoSessionRow.status = "none"
  BY DEF IdleRequest, NoSessionRow
<1> QED
  BY <1>2, <1>3, <1>4, SessionInit, ConstantsAssumption
  DEF IdleInv, LegacyRows, ActivityBacked, GrantsBacked

\* An issued row that is not a legacy one stays, with its family and expiry.
LEMMA RowsKept ==
    ASSUME IdleInv, [Next]_vars, NEW u \in Tokens \ Legacy, tokens[u].issued
    PROVE  /\ tokens'[u].issued /\ tokens'[u].family = tokens[u].family
           /\ tokens'[u].expires = tokens[u].expires
<1>1. CASE OnlyRevokes(Tokens)
  BY <1>1 DEF OnlyRevokes
<1>2. CASE \E n \in Tokens, f \in Families : Inserts(n, f)
  BY <1>2 DEF Inserts, OnlyRevokes, FreshToken
<1>3. CASE \E r \in Requests : RotateCommit(r)
  <2>1. PICK r \in Requests : RotateCommit(r)
    BY <1>3
  <2>2. PICK n \in Tokens, f \in Families : Rotates(r, n, f)
    BY <2>1, RotationRows DEF IdleInv
  <2>3. u = req[r].token => req[r].family # NoFamily
    BY <2>2 DEF Rotates, IdleInv, LegacyRows
  <2> QED
    BY <2>2, <2>3 DEF Rotates, FreshToken
<1> QED
  BY <1>1, <1>2, <1>3, TokenOutcomes DEF IdleInv

LEMMA BackedKept ==
    ASSUME IdleInv, [Next]_vars, NEW f \in Families, sessions[f].status # "none",
           NEW x, NEW t, Backed(f, x, t)
    PROVE  Backed(f, x, t)'
<1>1. sessions'[f].created = sessions[f].created
  BY SessionNext DEF IdleInv, HistoryStep
<1>2. CASE x <= sessions[f].created + IdleTimeout
  BY <1>1, <1>2 DEF Backed
<1>3. CASE \E u \in Tokens \ (Legacy \cup {t}) :
             /\ tokens[u].issued /\ tokens[u].family = f
             /\ x <= tokens[u].expires - RefreshTTL + IdleTimeout
  <2>1. PICK u \in Tokens \ (Legacy \cup {t}) :
             /\ tokens[u].issued /\ tokens[u].family = f
             /\ x <= tokens[u].expires - RefreshTTL + IdleTimeout
    BY <1>3
  <2>2. /\ tokens'[u].issued /\ tokens'[u].family = f
        /\ tokens'[u].expires = tokens[u].expires
    BY <2>1, RowsKept
  <2> QED
    BY <2>1, <2>2 DEF Backed
<1> QED
  BY <1>2, <1>3 DEF Backed

LEMMA LegacyNext == IdleInv /\ [Next]_vars => LegacyRows'
<1> SUFFICES ASSUME IdleInv, [Next]_vars PROVE LegacyRows'
  OBVIOUS
<1>t. SessionInv /\ LegacyRows /\ TypeInv /\ Legacy \subseteq Tokens
  BY ConstantsAssumption DEF IdleInv, SessionInv
<1>n. \A f, at : NewToken(f, at).issued /\ NewToken(f, at).family = f
  BY DEF NewToken
<1>1. /\ \A t \in Legacy : tokens'[t].issued
      /\ \A t \in Tokens \ Legacy : tokens'[t].issued => tokens'[t].family \in Families
  <2>1. CASE OnlyRevokes(Tokens)
    BY <1>t, <2>1 DEF OnlyRevokes, LegacyRows
  <2>2. CASE \E n \in Tokens, f \in Families : Inserts(n, f)
    BY <1>t, <1>n, <2>2 DEF Inserts, OnlyRevokes, LegacyRows
  <2>3. CASE \E r \in Requests : RotateCommit(r)
    <3>1. PICK r \in Requests : RotateCommit(r)
      BY <2>3
    <3>2. PICK n \in Tokens, f \in Families : Rotates(r, n, f)
      BY <1>t, <3>1, RotationRows
    <3>3. req[r].token \in Tokens /\ tokens[req[r].token].issued
      BY <1>t, <3>2 DEF Rotates, TypeInv, ControlInv, WellFormed, SessionInv, TimeInv, Granted, HeldInv
    <3> QED
      BY <1>t, <1>n, <3>2, <3>3 DEF Rotates, LegacyRows
  <2> QED
    BY <1>t, <2>1, <2>2, <2>3, TokenOutcomes
<1>2. ASSUME NEW r \in Requests, req'[r].pc = "rotate", req'[r].family = NoFamily
      PROVE  req'[r].token \in Legacy
  <2>1. CASE req'[r] = req[r]
    BY <1>t, <1>2, <2>1 DEF LegacyRows
  <2>2. CASE \E t \in held : Rotating(r, t)
    <3>1. PICK t \in held : Rotating(r, t)
      BY <2>2
    <3>2. t \in Tokens /\ tokens[t].issued /\ tokens[t].family = NoFamily
      BY <1>t, <1>2, <3>1 DEF Rotating, SessionInv, HeldInv, TypeInv, TypeOK
    <3> QED
      BY <1>t, <3>1, <3>2, ConstantsAssumption DEF Rotating, LegacyRows
  <2> QED
    BY <1>t, <1>2, <2>1, <2>2, RotationStarts
<1> QED
  BY <1>1, <1>2 DEF LegacyRows

LEMMA ActivityNext == IdleInv /\ [Next]_vars => ActivityBacked'
<1> SUFFICES ASSUME IdleInv, [Next]_vars, NEW f \in Families, sessions'[f].status # "none"
             PROVE  Backed(f, sessions[f].activity + IdleTimeout, NoToken)'
  BY DEF ActivityBacked
<1>t. /\ SessionInv /\ now \in Nat /\ RefreshTTL \in Nat /\ IdleTimeout \in Nat
      /\ sessions \in [Families -> SessionRow] /\ Legacy \subseteq Tokens
      /\ NoToken \notin Tokens
  BY ConstantsAssumption DEF IdleInv, SessionInv, TypeInv, TypeOK
<1>1. CASE sessions[f].status # "none" /\ sessions'[f].activity = sessions[f].activity
  <2>1. Backed(f, sessions[f].activity + IdleTimeout, NoToken)
    BY <1>1 DEF IdleInv, ActivityBacked
  <2> DEFINE x == sessions[f].activity + IdleTimeout
  <2>2. ASSUME NEW y, y = x PROVE Backed(f, y, NoToken)'
    BY <1>1, <2>1, <2>2, BackedKept
  <2> QED
    BY <1>1, <2>2 DEF Backed
<1>2. CASE sessions'[f].created = now /\ sessions'[f].activity = now
  BY <1>t, <1>2 DEF Backed
<1>3. CASE \E r \in Requests, n \in Tokens :
             /\ RotateCommit(r) /\ Rotates(r, n, f) /\ req[r].hadSession
             /\ sessions'[f] = Touch(sessions[f], now + RefreshTTL)
  <2>1. PICK r \in Requests, n \in Tokens :
             /\ RotateCommit(r) /\ Rotates(r, n, f) /\ req[r].hadSession
             /\ sessions'[f] = Touch(sessions[f], now + RefreshTTL)
    BY <1>3
  <2>2. sessions'[f].activity = now
    BY <1>t, <2>1 DEF Touch, SessionRow
  <2>3. /\ tokens'[n].issued /\ tokens'[n].family = f
        /\ tokens'[n].expires = now + RefreshTTL
    BY <2>1 DEF Rotates, NewToken
  <2>4. n \notin Legacy
    BY <2>1 DEF Rotates, FreshToken, IdleInv, LegacyRows
  <2>5. now + IdleTimeout <= tokens'[n].expires - RefreshTTL + IdleTimeout
    BY <1>t, <2>3
  <2> QED
    BY <1>t, <2>2, <2>3, <2>4, <2>5 DEF Backed
<1> QED
  BY <1>t, <1>1, <1>2, <1>3, SessionOutcomes

\* A token just minted by a rotation was granted against a session whose last
\* activity some other token of the family accounts for.
LEMMA GrantsNext == IdleInv /\ [Next]_vars => GrantsBacked'
<1> SUFFICES ASSUME IdleInv, [Next]_vars PROVE GrantsBacked'
  OBVIOUS
<1>t. /\ SessionInv /\ SessionInv' /\ TypeInv /\ now \in Nat /\ IdleTimeout \in Nat
      /\ sessions \in [Families -> SessionRow] /\ sessions' \in [Families -> SessionRow]
      /\ tokens' \in [Tokens -> TokenRow]
      /\ NoFamily \notin Families /\ NoToken \notin Tokens
  BY SessionNext, ConstantsAssumption DEF IdleInv, SessionInv, TypeInv, TypeOK
<1>n. \A f, at : NewToken(f, at).family = f /\ NewToken(f, at).acceptedAt = at
  BY DEF NewToken
<1>1. ASSUME NEW t \in Tokens, NEW f \in Families, tokens'[t].issued, tokens'[t].family = f,
             sessions'[f].status # "none"
      PROVE  Backed(f, tokens[t].acceptedAt, t)'
  <2>1. CASE /\ sessions[f].status = "none" /\ sessions'[f].created = now
             /\ \E r \in Requests : LoginCommit(r) \/ LoginCreate(r) \/ RotateCommit(r)
    <3>1. now' = now
      BY <2>1 DEF LoginCommit, LoginCreate, RotateCommit
    <3>2. tokens'[t].acceptedAt <= now' /\ tokens'[t].acceptedAt \in Nat
      BY <1>t DEF SessionInv, TimeInv, TokenRow
    <3> QED
      BY <1>t, <2>1, <3>1, <3>2 DEF Backed
  <2>2. ASSUME sessions[f].status # "none", tokens[t].issued, tokens[t].family = f,
               tokens'[t].acceptedAt = tokens[t].acceptedAt
        PROVE  Backed(f, tokens[t].acceptedAt, t)'
    <3>1. Backed(f, tokens[t].acceptedAt, t)
      BY <2>2 DEF IdleInv, GrantsBacked
    <3>2. ASSUME NEW y, y = tokens[t].acceptedAt PROVE Backed(f, y, t)'
      BY <2>2, <3>1, <3>2, BackedKept
    <3> QED
      BY <2>2, <3>2 DEF Backed
  <2>3. CASE sessions[f].status # "none" /\ OnlyRevokes(Tokens)
    BY <1>1, <2>2, <2>3 DEF OnlyRevokes
  <2>4. ASSUME sessions[f].status # "none", NEW n \in Tokens, NEW g \in Families, Inserts(n, g)
        PROVE  Backed(f, tokens[t].acceptedAt, t)'
    <3>1. g # f
      BY <2>4 DEF Inserts, FreshFamily
    <3> QED
      BY <1>1, <1>n, <2>2, <2>4, <3>1 DEF Inserts, OnlyRevokes
  <2>5. ASSUME sessions[f].status # "none", NEW r \in Requests, NEW n \in Tokens,
               NEW g \in Families, Rotates(r, n, g)
        PROVE  Backed(f, tokens[t].acceptedAt, t)'
    <3>1. /\ req[r].token \in Tokens /\ tokens[req[r].token].issued
      BY <1>t, <2>5 DEF Rotates, TypeInv, ControlInv, WellFormed, SessionInv, TimeInv, Granted, HeldInv
    <3>2. req[r].family = NoFamily => g # f
      BY <2>5 DEF Rotates, FreshFamily
    <3>3. CASE t # n
      <4>1. tokens[t].issued /\ tokens[t].family = f /\ tokens'[t].acceptedAt = tokens[t].acceptedAt
        BY <1>1, <2>5, <3>1, <3>2, <3>3 DEF Rotates
      <4> QED
        BY <2>2, <2>5, <4>1
    <3>4. CASE t = n
      <4>1. /\ g = f /\ tokens'[n].acceptedAt = req[r].at /\ ~tokens[n].issued
        BY <1>1, <1>n, <2>5, <3>4 DEF Rotates, FreshToken
      <4>2. req[r].family = f /\ req[r].hadSession
        BY <2>5, <3>2, <4>1 DEF Rotates
      <4>3. Backed(f, req[r].at, NoToken)
        BY <2>5, <4>2 DEF Rotates, IdleInv, GrantsBacked
      <4>4. Backed(f, req[r].at, n)
        BY <4>1, <4>3 DEF Backed
      <4>5. ASSUME NEW y, y = req[r].at PROVE Backed(f, y, n)'
        BY <2>5, <4>4, <4>5, BackedKept
      <4> QED
        BY <3>4, <4>1, <4>5 DEF Backed
    <3> QED
      BY <3>3, <3>4
  <2>6. CASE sessions[f].status # "none"
    BY <1>t, <2>3, <2>4, <2>5, <2>6, TokenOutcomes, RotationRows
  <2>7. \/ sessions[f].status # "none"
        \/ /\ sessions[f].status = "none" /\ sessions'[f].created = now
           /\ \E r \in Requests : LoginCommit(r) \/ LoginCreate(r) \/ RotateCommit(r)
    <3>1. Touch(sessions[f], now + RefreshTTL).status = sessions[f].status
      BY <1>t DEF Touch, SessionRow
    <3> QED
      BY <1>1, <1>t, <3>1, SessionOutcomes
  <2> QED
    BY <2>1, <2>6, <2>7
<1>2. ASSUME NEW r \in Requests, req'[r].pc = "rotate", req'[r].hadSession
      PROVE  Backed(req[r].family, req[r].at, NoToken)'
  <2>1. CASE req'[r] = req[r]
    <3>1. /\ Backed(req[r].family, req[r].at, NoToken) /\ req[r].family \in Families
          /\ sessions[req[r].family].status # "none"
      BY <1>2, <1>t, <2>1
      DEF IdleInv, GrantsBacked, SessionInv, TimeInv, Granted, TypeInv, ControlInv, WellFormed
    <3>2. ASSUME NEW f \in Families, NEW y, f = req[r].family, y = req[r].at
          PROVE  Backed(f, y, NoToken)'
      BY <3>1, <3>2, BackedKept
    <3> QED
      BY <2>1, <3>1, <3>2 DEF Backed
  <2>2. CASE /\ \E t \in held : Rotating(r, t)
             /\ UNCHANGED <<account, tokens, sessions, held, now>>
    <3>1. PICK t \in held : Rotating(r, t)
      BY <2>2
    <3> DEFINE f == tokens[t].family
    <3>2. /\ SessionOf(t).status # "none" /\ TimeoutPolicy(SessionOf(t)) = "none"
          /\ req'[r].family = f /\ req'[r].at = now
      <4>1. TimeoutPolicy(SessionOf(t)) # "accepted"
        BY DEF TimeoutPolicy
      <4> QED
        BY <1>2, <3>1, <4>1 DEF Rotating, RotateVerdict
    <3>3. f # NoFamily
      BY <3>2 DEF SessionOf, NoSessionRow
    <3>4. t \in Tokens /\ f \in Families
      BY <1>t, <3>3 DEF TypeInv, TypeOK, TokenRow
    <3>5. now <= sessions[f].activity + IdleTimeout /\ sessions[f].status # "none"
      BY <1>t, <3>2, <3>3, <3>4 DEF SessionOf, TimeoutPolicy, SessionRow
    <3>6. Backed(f, sessions[f].activity + IdleTimeout, NoToken)
      BY <3>4, <3>5 DEF IdleInv, ActivityBacked
    <3>7. Backed(f, now, NoToken)
      <4>1. sessions[f].created \in Nat /\ sessions[f].activity \in Nat /\ RefreshTTL \in Nat
        BY <1>t, <3>4, ConstantsAssumption DEF SessionRow
      <4>2. \A u \in Tokens : tokens[u].expires \in Nat
        BY <1>t DEF TypeInv, TypeOK, TokenRow
      <4> QED
        BY <1>t, <3>5, <3>6, <4>1, <4>2 DEF Backed
    <3> QED
      BY <2>2, <3>2, <3>7 DEF Backed
  <2> QED
    BY <1>t, <1>2, <2>1, <2>2, RotationStarts
<1> QED
  BY <1>1, <1>2 DEF GrantsBacked

\* check_timeout_policy on idleness, for every choice of the timeouts and
\* however many refreshes race: a token was granted no later than IdleTimeout
\* after its session began or after another token of the family was minted.
THEOREM IdleCapHolds == Spec => []IdleCap
<1>1. IdleInv /\ [Next]_vars => IdleInv'
  BY SessionNext, LegacyNext, ActivityNext, GrantsNext DEF IdleInv
<1>2. IdleInv => IdleCap
  BY DEF IdleInv, GrantsBacked, Backed, IdleCap, FamilyRows
<1> QED
  BY <1>1, <1>2, IdleInit, PTL DEF Spec

---------------------------------------------------------------------------
(* One request at a time.  The four promises below hold only when requests *)
(* do not overlap: with a second slot TLC finds each of them violated.     *)

Serial == \A r, s \in Requests : r = s

\* With one request in flight every step is the clock's or that request's.
LEMMA SerialSteps ==
    ASSUME Serial, [Next]_vars, NEW r \in Requests
    PROVE  \/ UNCHANGED <<account, tokens, sessions, held, req>>
           \/ Arrive(r) \/ Step(r) \/ Crash(r)
BY DEF Serial, Next, Tick, vars

\* No token has been used: neither rotated away nor revoked.
Live(t) == tokens[t].issued /\ ~tokens[t].revoked /\ ~tokens[t].rotated

\* A family has one live token, and a rotation in flight holds it.
OneLive ==
    \A f \in Families, t, u \in Tokens :
        Live(t) /\ Live(u) /\ tokens[t].family = f /\ tokens[u].family = f => t = u

RotatesLive ==
    \A r \in Requests : req[r].pc = "rotate" =>
        Live(req[r].token) /\ tokens[req[r].token].family = req[r].family

LiveInv == SessionInv /\ OneLive /\ RotatesLive

LEMMA LiveInit == Init => LiveInv
<1> SUFFICES ASSUME Init PROVE LiveInv
  OBVIOUS
<1>1. PICK fam \in [Legacy -> Families \cup {NoFamily}] :
          /\ \A t, u \in Legacy : fam[t] = fam[u] => t = u \/ fam[t] = NoFamily
          /\ tokens = [t \in Tokens |->
                IF t \in Legacy
                THEN [NoTokenRow EXCEPT !.issued = TRUE, !.family = fam[t],
                                        !.expires = RefreshTTL]
                ELSE NoTokenRow]
  BY Zenon DEF Init
<1>2. ASSUME NEW t \in Tokens, Live(t) PROVE t \in Legacy /\ tokens[t].family = fam[t]
  <2>1. CASE t \in Legacy
    <3>1. tokens[t] = [NoTokenRow EXCEPT !.issued = TRUE, !.family = fam[t],
                                         !.expires = RefreshTTL]
      BY <1>1, <2>1, Zenon
    <3> QED
      BY <2>1, <3>1 DEF NoTokenRow
  <2>2. CASE t \notin Legacy
    <3>1. tokens[t] = NoTokenRow
      BY <1>1, <2>2, Zenon
    <3> QED
      BY <1>2, <2>2, <3>1 DEF NoTokenRow, Live
  <2> QED
    BY <2>1, <2>2
<1>3. OneLive
  <2>1. ASSUME NEW f \in Families, NEW t \in Tokens, NEW u \in Tokens, Live(t), Live(u),
               tokens[t].family = f, tokens[u].family = f
        PROVE  t = u
    <3>1. t \in Legacy /\ u \in Legacy /\ fam[t] = f /\ fam[u] = f
      BY <1>2, <2>1, Zenon
    <3>2. f # NoFamily
      BY ConstantsAssumption
    <3>3. \A x, y \in Legacy : fam[x] = fam[y] => x = y \/ fam[x] = NoFamily
      BY <1>1, Zenon
    <3> QED
      BY <3>1, <3>2, <3>3
  <2> QED
    BY <2>1 DEF OneLive
<1>4. \A r \in Requests : req[r] = IdleRequest
  BY Zenon DEF Init
<1>5. IdleRequest.pc = "idle"
  BY DEF IdleRequest
<1> QED
  BY <1>3, <1>4, <1>5, SessionInit DEF LiveInv, RotatesLive

\* While the only request is a rotation between its read and its write, no row
\* changes.
LEMMA SerialRotation ==
    ASSUME Serial, TypeInv, [Next]_vars, NEW r \in Requests, req'[r].pc = "rotate"
    PROVE  UNCHANGED <<tokens, sessions, held>>
<1>i. IdleRequest.pc = "idle"
  BY DEF IdleRequest
<1>1. ~(\/ LoginCommit(r) \/ LoginCreate(r) \/ RotateCommit(r) \/ RotateConflict(r)
        \/ LogoutCommit(r) \/ Crash(r))
  BY <1>i, Ends
<1>2. ~(LoginEvict(r) \/ DisableCommit(r) \/ SweepFamily(r) \/ SweepRead(r) \/ SweepWrite(r))
  BY <1>i, LoopMoves DEF Aims, After, Goes
<1>3. Arrive(r) => UNCHANGED <<tokens, sessions, held>>
  BY Zenon DEF Arrive, Enable, LoginAuthenticate, RotateRead, LogoutRead, RevokeSessionStart,
     DisableRead
<1> QED
  BY <1>1, <1>2, <1>3, SerialSteps DEF Step

LEMMA LiveNext == Serial /\ LiveInv /\ [Next]_vars => LiveInv'
<1> SUFFICES ASSUME Serial, LiveInv, [Next]_vars PROVE LiveInv'
  OBVIOUS
<1>t. SessionInv /\ SessionInv' /\ TypeInv /\ NoFamily \notin Families
  BY SessionNext, ConstantsAssumption DEF LiveInv, SessionInv
<1>n. \A f, at : NewToken(f, at).family = f
  BY DEF NewToken
<1>1. ASSUME NEW r \in Requests, req'[r].pc = "rotate"
      PROVE  Live(req[r].token)' /\ tokens'[req'[r].token].family = req'[r].family
  <2>1. UNCHANGED tokens
    BY <1>t, <1>1, SerialRotation
  <2>2. CASE req'[r] = req[r]
    BY <1>1, <2>1, <2>2 DEF LiveInv, RotatesLive, Live
  <2>3. CASE \E t \in held : Rotating(r, t)
    <3>1. PICK t \in held : Rotating(r, t)
      BY <2>3
    <3>2. tokens[t].issued
      BY <1>t DEF SessionInv, HeldInv
    <3>3. ~tokens[t].rotated /\ ~tokens[t].revoked
      BY <3>1 DEF Rotating, RotateVerdict
    <3> QED
      BY <2>1, <3>1, <3>2, <3>3 DEF Rotating, Live
  <2> QED
    BY <1>t, <1>1, <2>2, <2>3, RotationStarts
<1>2. OneLive'
  <2>1. CASE OnlyRevokes(Tokens)
    BY <2>1 DEF OnlyRevokes, LiveInv, OneLive, Live
  <2>2. CASE \E n \in Tokens, g \in Families : Inserts(n, g)
    <3>1. PICK n \in Tokens, g \in Families : Inserts(n, g)
      BY <2>2
    <3>2. \A t \in Tokens \ {n} : Live(t)' => Live(t) /\ tokens'[t].family = tokens[t].family
      BY <3>1 DEF Inserts, OnlyRevokes, Live
    <3>3. \A t \in Tokens \ {n} : Live(t) => tokens[t].family # g
      BY <3>1 DEF Inserts, FreshFamily, Live
    <3>4. tokens'[n].family = g
      BY <1>n, <3>1 DEF Inserts
    <3> QED
      BY <3>2, <3>3, <3>4 DEF LiveInv, OneLive
  <2>3. CASE \E r \in Requests : RotateCommit(r)
    <3>1. PICK r \in Requests : RotateCommit(r)
      BY <2>3
    <3>2. PICK n \in Tokens, g \in Families : Rotates(r, n, g)
      BY <1>t, <3>1, RotationRows
    <3>3. /\ req[r].token \in Tokens /\ Live(req[r].token)
          /\ tokens[req[r].token].family = req[r].family
      BY <1>t, <3>2 DEF Rotates, LiveInv, RotatesLive, TypeInv, ControlInv, WellFormed
    <3>4. \A t \in Tokens \ {n} : Live(t)' => /\ t # req[r].token /\ Live(t)
                                              /\ tokens'[t].family = tokens[t].family
      BY <3>2 DEF Rotates, Live
    <3>5. \A t \in Tokens \ {n} : Live(t)' => tokens[t].family # g
      BY <3>2, <3>3, <3>4 DEF Rotates, FreshFamily, LiveInv, OneLive, Live
    <3>6. tokens'[n].family = g
      BY <1>n, <3>2 DEF Rotates
    <3> QED
      BY <3>4, <3>5, <3>6 DEF LiveInv, OneLive
  <2> QED
    BY <1>t, <2>1, <2>2, <2>3, TokenOutcomes
<1> QED
  BY <1>t, <1>1, <1>2 DEF LiveInv, RotatesLive

LEMMA AtMostOne ==
    ASSUME NEW S, \A x, y \in S : x = y
    PROVE  Cardinality(S) <= 1
<1>1. CASE S = {}
  BY <1>1, FS_EmptySet
<1>2. CASE S # {}
  <2>1. PICK x \in S : S = {x}
    BY <1>2
  <2> QED
    BY <2>1, FS_Singleton
<1> QED
  BY <1>1, <1>2

\* A refresh token is single-use as long as requests do not overlap, crashes
\* and rows minted before sessions existed included: /auth/refresh would accept
\* at most one token of a family.
THEOREM OneLiveTokenHolds ==
    ASSUME Serial PROVE Spec => []OneLiveToken
<1>1. LiveInv /\ [Next]_vars => LiveInv'
  BY LiveNext
<1>2. LiveInv => OneLiveToken
  <2> SUFFICES ASSUME LiveInv, NEW f \in Families
               PROVE  Cardinality({t \in FamilyRows(f) : RotateVerdict(t) = "accepted"}) <= 1
    BY DEF OneLiveToken
  <2>1. ASSUME NEW t \in FamilyRows(f), RotateVerdict(t) = "accepted"
        PROVE  t \in Tokens /\ Live(t) /\ tokens[t].family = f
    BY <2>1 DEF FamilyRows, RotateVerdict, Live
  <2> QED
    BY <2>1, AtMostOne DEF LiveInv, OneLive
<1> QED
  BY <1>1, <1>2, LiveInit, PTL DEF Spec

\* A revocation about to be written still finds the session active, so it is
\* the first one.
ActiveWrites ==
    \A r \in Requests :
        /\ req[r].pc = "write" => sessions[req[r].target].status = "active"
        /\ req[r].pc = "logout" /\ req[r].hadSession =>
              sessions[req[r].family].status = "active"

\* What FirstReasonKept says of one step.
ReasonStep ==
    \A f \in Families : sessions[f].status = "revoked" =>
        sessions'[f].reason = sessions[f].reason

LEMMA ActiveWritesInit == Init => ActiveWrites
<1>1. IdleRequest.pc = "idle"
  BY DEF IdleRequest
<1> QED
  BY <1>1, Zenon DEF Init, ActiveWrites

LEMMA ActiveWritesNext ==
    Serial /\ SessionInv /\ ActiveWrites /\ [Next]_vars => ActiveWrites'
<1> SUFFICES ASSUME Serial, SessionInv, ActiveWrites, [Next]_vars, NEW r \in Requests
             PROVE  /\ req'[r].pc = "write" => sessions'[req'[r].target].status = "active"
                    /\ req'[r].pc = "logout" /\ req'[r].hadSession =>
                          sessions'[req'[r].family].status = "active"
  BY DEF ActiveWrites
<1>t. TypeInv
  BY DEF SessionInv
<1>i. IdleRequest.pc = "idle"
  BY DEF IdleRequest
<1>1. CASE UNCHANGED <<sessions, req>>
  BY <1>1 DEF ActiveWrites
<1>2. CASE SweepRead(r)
  <2>1. UNCHANGED sessions
    BY <1>2 DEF SweepRead
  <2> QED
    BY <1>i, <1>t, <1>2, <2>1, LoopMoves DEF After, Goes
<1>3. ASSUME NEW t \in Tokens, LogoutRead(r, t)
      PROVE  /\ req'[r].pc = "write" => sessions'[req'[r].target].status = "active"
             /\ req'[r].pc = "logout" /\ req'[r].hadSession =>
                   sessions'[req'[r].family].status = "active"
  <2>1. UNCHANGED sessions
    BY <1>3 DEF LogoutRead
  <2>2. NoSessionRow.status = "none"
    BY DEF NoSessionRow
  <2> QED
    BY <1>t, <1>3, <2>1, <2>2, Arrivals DEF Goes, SessionOf
<1>4. CASE \/ LoginCommit(r) \/ LoginCreate(r) \/ RotateCommit(r) \/ RotateConflict(r)
           \/ LogoutCommit(r) \/ Crash(r)
  BY <1>i, <1>t, <1>4, Ends
<1>5. CASE LoginEvict(r) \/ DisableCommit(r) \/ SweepFamily(r) \/ SweepWrite(r)
  BY <1>i, <1>t, <1>5, LoopMoves DEF Aims, After, Goes
<1>6. CASE \/ LoginAuthenticate(r) \/ DisableRead(r)
           \/ \E f \in Families : RevokeSessionStart(r, f)
           \/ \E t \in Tokens : RotateRead(r, t)
  BY <1>t, <1>6, Arrivals DEF Goes
<1>7. Enable(r) => UNCHANGED <<sessions, req>>
  BY DEF Enable
<1> QED
  BY <1>1, <1>2, <1>3, <1>4, <1>5, <1>6, <1>7, SerialSteps DEF Arrive, Step

\* session_service.revoke keeps the first reason as long as requests do not
\* overlap, crashes included.
THEOREM FirstReasonKeptHolds ==
    ASSUME Serial PROVE Spec => FirstReasonKept
<1>1. SessionInv /\ ActiveWrites /\ [Next]_vars => SessionInv' /\ ActiveWrites'
  BY SessionNext, ActiveWritesNext
<1>2. Spec => [](SessionInv /\ ActiveWrites)
  BY <1>1, SessionInit, ActiveWritesInit, PTL DEF Spec
<1>3. SessionInv /\ ActiveWrites /\ [Next]_vars => [ReasonStep]_vars
  <2> SUFFICES ASSUME SessionInv, ActiveWrites, [Next]_vars, NEW f \in Families,
                      sessions[f].status = "revoked"
               PROVE  sessions'[f].reason = sessions[f].reason
    BY DEF ReasonStep
  <2>1. \A expires : Touch(sessions[f], expires).reason = sessions[f].reason
    BY DEF SessionInv, TypeInv, TypeOK, SessionRow, Touch
  <2>2. ASSUME NEW r \in Requests
        PROVE  /\ ~(SweepWrite(r) /\ f = req[r].target)
               /\ ~(LogoutCommit(r) /\ req[r].hadSession /\ f = req[r].family)
    BY DEF ActiveWrites, SweepWrite, LogoutCommit
  <2> QED
    BY <2>1, <2>2, SessionOutcomes
<1>4. FirstReasonKept <=> [][ReasonStep]_vars
  BY DEF FirstReasonKept, ReasonStep
<1> QED
  BY <1>2, <1>3, <1>4, PTL DEF Spec

\* Each point of a handler that only one handler has.
ActsFor(q) ==
    /\ q.pc = "idle" => q.op = "none" /\ q.todo = {}
    /\ q.pc = "generate" => q.op = "login"
    /\ q.pc = "create" => q.todo = {}
    /\ q.pc = "logout" => q.op = "logout"
    /\ q.pc = "disable" => q.op = "disable"

HandlersInv == \A r \in Requests : ActsFor(req[r])

LEMMA IdleActs == IdleRequest.pc = "idle" /\ IdleRequest.op = "none" /\ ActsFor(IdleRequest)
BY DEF IdleRequest, ActsFor

LEMMA HandlersInit == Init => HandlersInv
<1>1. Init => \A r \in Requests : req[r] = IdleRequest
  BY Zenon DEF Init
<1> QED
  BY <1>1, IdleActs DEF HandlersInv

LEMMA HandlersNext == TypeInv /\ HandlersInv /\ [Next]_vars => HandlersInv'
<1> SUFFICES ASSUME TypeInv, HandlersInv, [Next]_vars, NEW r \in Requests
             PROVE  ActsFor(req'[r])
  BY DEF HandlersInv
<1>1. CASE req'[r] = req[r]
  BY <1>1 DEF HandlersInv
<1>2. CASE \/ LoginCommit(r) \/ LoginCreate(r) \/ RotateCommit(r) \/ RotateConflict(r)
           \/ LogoutCommit(r) \/ Crash(r)
  BY <1>2, IdleActs, Ends
<1>3. CASE Arrive(r)
  <2>1. Enable(r) => req'[r] = req[r]
    BY DEF Enable
  <2> QED
    BY <1>1, <1>3, <2>1, Arrivals DEF Arrive, Goes, ActsFor
<1>4. CASE SweepFamily(r) \/ SweepRead(r) \/ SweepWrite(r) \/ DisableCommit(r) \/ LoginEvict(r)
  BY <1>4, IdleActs, LoopMoves DEF After, Aims, Goes, ActsFor
<1>5. ASSUME NEW q \in Requests \ {r}, Arrive(q) \/ Step(q) \/ Crash(q)
      PROVE  req'[r] = req[r]
  BY <1>5, OneMoves
<1>6. Tick \/ UNCHANGED vars => req'[r] = req[r]
  BY DEF Tick, vars
<1> QED
  BY <1>1, <1>2, <1>3, <1>4, <1>5, <1>6 DEF Next, Step

\* The sessions a request has still to revoke, the one in hand included.
Aimed(q) == q.todo \cup (IF q.pc \in {"read", "write"} THEN {q.target} ELSE {})

\* What a sweep of active sessions may lose: nothing it has not revoked.
LEMMA AimedMoves ==
    ASSUME SessionInv, HandlersInv, NEW r \in Requests,
           SweepFamily(r) \/ SweepRead(r) \/ SweepWrite(r)
    PROVE  /\ UNCHANGED account
           /\ \A f \in Aimed(req[r]) :
                 \/ f \in Aimed(req'[r])
                 \/ f \in Families /\ sessions'[f].status # "active"
           /\ \/ req'[r].op = req[r].op /\ req'[r].pc # "rotate" /\ req'[r].pc # "disable"
              \/ req'[r] = IdleRequest /\ Aimed(req[r]) \subseteq {req[r].target}
                 /\ req[r].target \in Families
                 /\ sessions'[req[r].target].status # "active"
<1>t. /\ TypeInv /\ WellFormed(req[r])
      /\ sessions \in [Families -> SessionRow]
  BY DEF SessionInv, TypeInv, TypeOK, ControlInv
<1>1. CASE SweepFamily(r)
  <2>1. PICK f \in req[r].todo : Aims(r, f)
    BY <1>t, <1>1, LoopMoves
  <2>2. req[r].pc = "sweep" /\ UNCHANGED account
    BY <1>1, Zenon DEF SweepFamily
  <2> QED
    BY <2>1, <2>2 DEF Aims, Goes, Aimed
<1>2. CASE SweepRead(r)
  <2>1. /\ req[r].pc = "read" /\ UNCHANGED <<account, sessions>>
        /\ req[r].target \in Families
    BY <1>t, <1>2 DEF SweepRead, WellFormed
  <2> QED
    BY <1>t, <1>2, <2>1, LoopMoves DEF Aimed, After, Goes
<1>3. CASE SweepWrite(r)
  <2>1. /\ req[r].pc = "write" /\ UNCHANGED account /\ req[r].target \in Families
    BY <1>t, <1>3 DEF SweepWrite, WellFormed
  <2>2. sessions'[req[r].target].status = "revoked"
    BY <1>t, <1>3, <2>1 DEF SweepWrite, RevokeRow, SessionRow
  <2> QED
    BY <1>t, <1>3, <2>1, <2>2, LoopMoves DEF Aimed, After, Goes
<1> QED
  BY <1>1, <1>2, <1>3

\* While the account is suspended each active session is one the sweep has
\* still to reach; nobody logs in or refreshes; and the status commits when
\* the sweep knows every active session.
SweepCovers ==
    account = "suspended" =>
        \A f \in UnrevokedSessions : \E r \in Requests :
            req[r].op = "disable" /\ f \in Aimed(req[r])

GrantsNeedActive ==
    \A r \in Requests : req[r].op = "login" \/ req[r].pc = "rotate" => account = "active"

DisableKnowsAll ==
    \A r \in Requests : req[r].pc = "disable" => UnrevokedSessions \subseteq req[r].todo

SuspendInv ==
    SessionInv /\ HandlersInv /\ SweepCovers /\ GrantsNeedActive /\ DisableKnowsAll

LEMMA SuspendInit == Init => SuspendInv
<1>1. Init => account = "active" /\ \A r \in Requests : req[r] = IdleRequest
  BY Zenon DEF Init
<1> QED
  BY <1>1, SessionInit, HandlersInit, IdleActs
  DEF SuspendInv, SweepCovers, GrantsNeedActive, DisableKnowsAll

\* The step as the only request r sees it.
LEMMA SuspendStep ==
    ASSUME Serial, ~Crashes, SuspendInv, [Next]_vars, NEW r \in Requests
    PROVE  /\ account' = "suspended" =>
                 \A f \in UnrevokedSessions' : req'[r].op = "disable" /\ f \in Aimed(req'[r])
           /\ req'[r].op = "login" \/ req'[r].pc = "rotate" => account' = "active"
           /\ req'[r].pc = "disable" => UnrevokedSessions' \subseteq req'[r].todo
<1> DEFINE Goal ==
      /\ account' = "suspended" =>
            \A f \in UnrevokedSessions' : req'[r].op = "disable" /\ f \in Aimed(req'[r])
      /\ req'[r].op = "login" \/ req'[r].pc = "rotate" => account' = "active"
      /\ req'[r].pc = "disable" => UnrevokedSessions' \subseteq req'[r].todo
<1>t. /\ SessionInv /\ TypeInv /\ HandlersInv /\ ActsFor(req[r]) /\ WellFormed(req[r])
      /\ sessions \in [Families -> SessionRow] /\ account \in {"active", "suspended"}
  BY DEF SuspendInv, HandlersInv, SessionInv, TypeInv, TypeOK, ControlInv
<1>c. /\ account = "suspended" =>
            \A f \in UnrevokedSessions : req[r].op = "disable" /\ f \in Aimed(req[r])
      /\ req[r].op = "login" \/ req[r].pc = "rotate" => account = "active"
      /\ req[r].pc = "disable" => UnrevokedSessions \subseteq req[r].todo
  BY DEF SuspendInv, SweepCovers, GrantsNeedActive, DisableKnowsAll, Serial
<1>u. UNCHANGED sessions => UnrevokedSessions' = UnrevokedSessions
  BY DEF UnrevokedSessions
<1>i. /\ req[r].pc = "idle" => account = "active" \/ UnrevokedSessions = {}
  BY <1>c, <1>t DEF ActsFor
<1>1. CASE UNCHANGED <<account, sessions, req>>
  BY <1>1, <1>c, <1>u
<1>2. CASE Enable(r)
  <2>1. account' = "active" /\ UNCHANGED <<sessions, req>>
    BY <1>2 DEF Enable
  <2> QED
    BY <1>c, <1>u, <2>1
<1>3. CASE \/ LoginAuthenticate(r) \/ DisableRead(r)
           \/ \E f \in Families : RevokeSessionStart(r, f)
           \/ \E t \in Tokens : RotateRead(r, t) \/ LogoutRead(r, t)
  <2>1. req[r].pc = "idle" /\ UNCHANGED <<account, sessions>>
    BY <1>3, Zenon
    DEF LoginAuthenticate, DisableRead, RevokeSessionStart, RotateRead, LogoutRead
  <2>2. account = "suspended" => UnrevokedSessions' = {}
    BY <1>i, <1>u, <2>1
  <2>3. LoginAuthenticate(r) => account = "active"
    BY DEF LoginAuthenticate
  <2>4. ASSUME NEW t \in Tokens, Rotating(r, t) PROVE account = "active"
    <3>1. TimeoutPolicy(SessionOf(t)) # "accepted"
      BY DEF TimeoutPolicy
    <3> QED
      BY <2>4, <3>1 DEF Rotating, RotateVerdict
  <2> QED
    BY <1>t, <1>3, <1>u, <2>1, <2>2, <2>3, <2>4, Arrivals DEF Goes
<1>4. CASE LoginCommit(r) \/ LoginCreate(r) \/ RotateCommit(r) \/ RotateConflict(r)
  <2>1. req[r].pc \in {"generate", "create", "rotate"} /\ UNCHANGED account
    BY <1>4, Zenon DEF LoginCommit, LoginCreate, RotateCommit, RotateConflict
  <2>2. account' = "active"
    BY <1>c, <1>t, <2>1 DEF ActsFor, WellFormed
  <2> QED
    BY <1>t, <1>4, <2>2, Ends, IdleActs
<1>5. CASE LogoutCommit(r)
  <2>1. req[r].pc = "logout" /\ UNCHANGED account
    BY <1>5 DEF LogoutCommit
  <2>2. account = "active" \/ UnrevokedSessions = {}
    BY <1>c, <1>t, <2>1 DEF ActsFor
  <2>3. UnrevokedSessions' \subseteq UnrevokedSessions
    <3>1. \A f \in Families : RevokeRow(sessions[f], req[r].reason).status = "revoked"
      BY <1>t DEF RevokeRow, SessionRow
    <3>2. ASSUME NEW f \in Families, sessions'[f] # sessions[f]
          PROVE  sessions'[f].status = "revoked"
      BY <1>t, <1>5, <3>1, <3>2 DEF LogoutCommit
    <3> QED
      BY <3>2 DEF UnrevokedSessions
  <2> QED
    BY <1>t, <1>5, <2>1, <2>2, <2>3, Ends, IdleActs
<1>6. CASE LoginEvict(r)
  <2>1. req[r].pc = "generate" /\ UNCHANGED account
    BY <1>6, Zenon DEF LoginEvict
  <2>2. account' = "active"
    BY <1>c, <1>t, <2>1 DEF ActsFor
  <2> QED
    BY <1>t, <1>6, <2>2, LoopMoves DEF Goes
<1>7. CASE DisableCommit(r)
  <2>1. req[r].pc = "disable" /\ account' = "suspended" /\ UNCHANGED sessions
    BY <1>7, Zenon DEF DisableCommit
  <2>2. UnrevokedSessions' \subseteq req[r].todo /\ req[r].op = "disable"
    BY <1>c, <1>t, <1>u, <2>1 DEF ActsFor
  <2> QED
    BY <1>t, <1>7, <2>1, <2>2, LoopMoves, IdleActs DEF Aims, Goes, Aimed
<1>8. CASE SweepFamily(r) \/ SweepRead(r) \/ SweepWrite(r)
  <2>1. UnrevokedSessions' \subseteq UnrevokedSessions
    <3>1. \A f \in Families : RevokeRow(sessions[f], req[r].reason).status = "revoked"
      BY <1>t DEF RevokeRow, SessionRow
    <3>2. SweepFamily(r) \/ SweepRead(r) => UNCHANGED sessions
      BY Zenon DEF SweepFamily, SweepRead
    <3>3. ASSUME NEW f \in Families, sessions'[f] # sessions[f]
          PROVE  sessions'[f].status = "revoked"
      BY <1>t, <1>8, <3>1, <3>2, <3>3 DEF SweepWrite
    <3> QED
      BY <3>3 DEF UnrevokedSessions
  <2> QED
    BY <1>c, <1>t, <1>8, <2>1, AimedMoves, IdleActs DEF UnrevokedSessions
<1>9. ~Crash(r)
  BY DEF Crash
<1> QED
  BY <1>1, <1>2, <1>3, <1>4, <1>5, <1>6, <1>7, <1>8, <1>9, SerialSteps DEF Arrive, Step

\* revoke_all_sessions_for_user leaves no session that re-enabling the account
\* would revive, as long as requests do not overlap and the sweep does not die
\* half-way.
THEOREM SuspendedHasNoSessionHolds ==
    ASSUME Serial, ~Crashes PROVE Spec => []SuspendedHasNoSession
<1>1. SuspendInv /\ [Next]_vars => SuspendInv'
  <2> SUFFICES ASSUME SuspendInv, [Next]_vars PROVE SuspendInv'
    OBVIOUS
  <2>1. SessionInv' /\ HandlersInv'
    BY SessionNext, HandlersNext DEF SuspendInv, SessionInv
  <2>2. GrantsNeedActive' /\ DisableKnowsAll'
    BY SuspendStep DEF GrantsNeedActive, DisableKnowsAll
  <2>3. SweepCovers'
    <3> SUFFICES ASSUME account' = "suspended", NEW f \in UnrevokedSessions'
                 PROVE  \E r \in Requests : req'[r].op = "disable" /\ f \in Aimed(req'[r])
      BY DEF SweepCovers
    <3>1. CASE Requests # {}
      BY <3>1, SuspendStep
    <3>2. CASE Requests = {}
      <4>1. UNCHANGED <<account, sessions>>
        BY <3>2 DEF Next, Tick, vars
      <4> QED
        BY <3>2, <4>1 DEF SuspendInv, SweepCovers, UnrevokedSessions
    <3> QED
      BY <3>1, <3>2
  <2> QED
    BY <2>1, <2>2, <2>3 DEF SuspendInv
<1>2. SuspendInv => SuspendedHasNoSession
  BY DEF SuspendInv, SweepCovers, SuspendedHasNoSession, UnrevokedSessions
<1> QED
  BY <1>1, <1>2, SuspendInit, PTL DEF Spec

AtMost(S, k) == IsFiniteSet(S) /\ Cardinality(S) <= k

LEMMA AtMostSubset ==
    ASSUME NEW S, NEW T, T \subseteq S, NEW k \in Nat, AtMost(S, k)
    PROVE  AtMost(T, k)
<1>1. IsFiniteSet(T) /\ Cardinality(T) <= Cardinality(S)
  BY FS_Subset DEF AtMost
<1>2. Cardinality(T) \in Nat /\ Cardinality(S) \in Nat
  BY <1>1, FS_CardinalityType DEF AtMost
<1> QED
  BY <1>1, <1>2 DEF AtMost

LEMMA AtMostAdd ==
    ASSUME NEW S, NEW T, NEW x, T \subseteq S \cup {x}, NEW k \in Nat \ {0}, AtMost(S, k - 1)
    PROVE  AtMost(T, k)
<1>1. /\ IsFiniteSet(S \cup {x}) /\ Cardinality(S) \in Nat
      /\ Cardinality(S \cup {x}) \in {Cardinality(S), Cardinality(S) + 1}
  BY FS_AddElement, FS_CardinalityType DEF AtMost
<1>2. AtMost(S \cup {x}, k)
  BY <1>1 DEF AtMost
<1> QED
  BY <1>2, AtMostSubset

\* Without an insertion or a touch sessions only stop being active.
LEMMA ActiveShrinks ==
    ASSUME SessionInv, [Next]_vars,
           \A r \in Requests : ~(LoginCommit(r) \/ LoginCreate(r) \/ RotateCommit(r))
    PROVE  ActiveSessions' \subseteq ActiveSessions
<1> SUFFICES ASSUME NEW f \in Families, EffectivelyActive(sessions[f])'
             PROVE  EffectivelyActive(sessions[f])
  BY DEF ActiveSessions
<1>1. now \in Nat /\ now' \in Nat /\ now <= now'
  <2>1. TypeInv /\ TypeInv'
    BY TypeNext DEF SessionInv
  <2>2. UNCHANGED now \/ now' = now + 1
    BY Zenon DEF Next, Tick, vars, Arrive, Step, Crash, Enable, LoginAuthenticate, RotateRead,
       LogoutRead, RevokeSessionStart, DisableRead, LoginCommit, LoginEvict, LoginCreate,
       RotateCommit, RotateConflict, LogoutCommit, DisableCommit, SweepFamily, SweepRead,
       SweepWrite
  <2> QED
    BY <2>1, <2>2 DEF TypeInv, TypeOK
<1>2. sessions[f] \in SessionRow
  BY DEF SessionInv, TypeInv, TypeOK
<1>3. sessions'[f].status = "active"
  BY DEF EffectivelyActive
<1>4. sessions'[f] = sessions[f]
  BY <1>3, SessionOutcomes
<1>5. /\ sessions[f].created \in Nat /\ sessions[f].activity \in Nat /\ sessions[f].expires \in Nat
      /\ IdleTimeout \in Nat /\ AbsoluteTimeout \in Nat
  BY <1>2, ConstantsAssumption DEF SessionRow
<1> QED
  BY <1>1, <1>4, <1>5 DEF EffectivelyActive, TimeoutPolicy

LEMMA ActiveGrows ==
    ASSUME NEW f, NEW x, sessions' = [sessions EXCEPT ![f] = x], UNCHANGED now,
           SessionInv
    PROVE  ActiveSessions' \subseteq ActiveSessions \cup {f}
<1> SUFFICES ASSUME NEW g \in Families \ {f}, EffectivelyActive(sessions[g])'
             PROVE  EffectivelyActive(sessions[g])
  BY DEF ActiveSessions
<1>1. sessions'[g] = sessions[g]
  BY DEF SessionInv, TypeInv, TypeOK
<1> QED
  BY <1>1 DEF EffectivelyActive, TimeoutPolicy

\* The limit holds, a rotation in flight may revive its session without
\* breaking it, and a login in flight has made or is still making room.
RotationFits(q) ==
    q.pc = "rotate" =>
        q.hadSession /\ AtMost(ActiveSessions \cup {q.family}, MaxConcurrent)

LoginFits(q) ==
    LoggingIn(q) => AtMost(ActiveSessions \ Aimed(q), MaxConcurrent - 1)

LimitInv ==
    /\ SessionInv /\ HandlersInv
    /\ AtMost(ActiveSessions, MaxConcurrent)
    /\ \A r \in Requests : RotationFits(req[r]) /\ LoginFits(req[r])

LEMMA LimitInit == Init => LimitInv
<1> SUFFICES ASSUME Init PROVE LimitInv
  OBVIOUS
<1>1. /\ \A r \in Requests : req[r] = IdleRequest
      /\ \A f \in Families : sessions[f] = NoSessionRow
  BY Zenon DEF Init
<1>2. NoSessionRow.status = "none"
  BY DEF NoSessionRow
<1>3. ActiveSessions = {}
  BY <1>1, <1>2 DEF ActiveSessions, EffectivelyActive
<1>4. AtMost(ActiveSessions, MaxConcurrent)
  BY <1>3, FS_EmptySet, ConstantsAssumption DEF AtMost
<1> QED
  BY <1>1, <1>4, IdleActs, SessionInit, HandlersInit
  DEF LimitInv, RotationFits, LoginFits, LoggingIn

\* Eviction leaves room for the session about to be created.
LEMMA EvictionMakesRoom ==
    ASSUME AtMost(ActiveSessions, MaxConcurrent), NEW E \in Evictable
    PROVE  AtMost(ActiveSessions \ E, MaxConcurrent - 1)
<1>t. /\ IsFiniteSet(ActiveSessions) /\ Cardinality(ActiveSessions) \in Nat
      /\ MaxConcurrent \in Nat \ {0}
  BY FS_CardinalityType, ConstantsAssumption DEF AtMost
<1>1. CASE Excess <= 0
  <2>1. E = {} /\ Cardinality(ActiveSessions) <= MaxConcurrent - 1
    BY <1>t, <1>1 DEF Evictable, Excess
  <2> QED
    BY <1>t, <2>1 DEF AtMost
<1>2. CASE ~(Excess <= 0)
  <2>1. E \subseteq ActiveSessions /\ Cardinality(E) = Excess
    BY <1>2 DEF Evictable
  <2>2. ActiveSessions \cap E = E
    BY <2>1
  <2>3. /\ IsFiniteSet(ActiveSessions \ E)
        /\ Cardinality(ActiveSessions \ E) = Cardinality(ActiveSessions) - Excess
    BY <1>t, <2>1, <2>2, FS_Difference
  <2> QED
    BY <1>t, <2>3 DEF AtMost, Excess
<1> QED
  BY <1>1, <1>2

\* A rotation that was just accepted read an effectively active session.
LEMMA AcceptedIsActive ==
    ASSUME SessionInv, Legacy = {}, NEW r \in Requests, NEW t \in held, Rotating(r, t)
    PROVE  req'[r].hadSession /\ req'[r].family \in ActiveSessions
<1> DEFINE f == tokens[t].family
<1>1. f \in Families /\ sessions[f].status # "none"
  BY DEF SessionInv, HeldInv
<1>2. SessionOf(t) = sessions[f]
  BY <1>1, ConstantsAssumption DEF SessionOf
<1>3. TimeoutPolicy(SessionOf(t)) # "accepted"
  BY DEF TimeoutPolicy
<1>4. IsUsable(SessionOf(t)) /\ TimeoutPolicy(SessionOf(t)) = "none"
  BY <1>3 DEF Rotating, RotateVerdict
<1> QED
  BY <1>1, <1>2, <1>4 DEF Rotating, IsUsable, ActiveSessions, EffectivelyActive

\* The step as the only request r sees it.
LEMMA LimitStep ==
    ASSUME Serial, Legacy = {}, LimitInv, [Next]_vars, NEW r \in Requests
    PROVE  /\ AtMost(ActiveSessions, MaxConcurrent)'
           /\ RotationFits(req[r])' /\ LoginFits(req[r])'
<1>t. /\ SessionInv /\ TypeInv /\ HandlersInv /\ ActsFor(req[r]) /\ WellFormed(req[r])
      /\ AtMost(ActiveSessions, MaxConcurrent)
      /\ RotationFits(req[r]) /\ LoginFits(req[r])
  BY DEF LimitInv, HandlersInv, SessionInv, TypeInv, ControlInv
<1>k. MaxConcurrent \in Nat \ {0} /\ MaxConcurrent - 1 \in Nat /\ NoFamily \notin Families
  BY ConstantsAssumption
<1> DEFINE Grants == LoginCommit(r) \/ LoginCreate(r) \/ RotateCommit(r)
<1>1. CASE Grants
  <2>1. req'[r] = IdleRequest
    BY <1>t, <1>1, Ends
  <2>2. RotationFits(req[r])' /\ LoginFits(req[r])'
    BY <2>1, IdleActs DEF RotationFits, LoginFits, LoggingIn
  <2>3. CASE LoginCommit(r)
    <3>1. PICK n \in Tokens, f \in Families :
            sessions' = [sessions EXCEPT ![f] = CreateSession(now + RefreshTTL)]
      BY <1>t, <2>3, LoginRows
    <3>2. {} \in Evictable /\ UNCHANGED now
      BY <2>3, Zenon DEF LoginCommit
    <3>3. AtMost(ActiveSessions \ {}, MaxConcurrent - 1)
      BY <1>t, <3>2, EvictionMakesRoom
    <3>4. ActiveSessions' \subseteq (ActiveSessions \ {}) \cup {f}
      BY <1>t, <3>1, <3>2, ActiveGrows
    <3>5. AtMost(ActiveSessions', MaxConcurrent)
      BY <1>k, <3>3, <3>4, AtMostAdd
    <3> QED
      BY <2>2, <3>5 DEF AtMost
  <2>4. CASE LoginCreate(r)
    <3>1. /\ req[r].pc = "create" /\ UNCHANGED now
          /\ sessions' = [sessions EXCEPT ![req[r].family] = CreateSession(req[r].at)]
      BY <2>4 DEF LoginCreate
    <3>2. ActiveSessions' \subseteq ActiveSessions \cup {req[r].family}
      BY <1>t, <3>1, ActiveGrows
    <3>3. LoggingIn(req[r]) /\ Aimed(req[r]) = {}
      BY <1>t, <3>1 DEF LoggingIn, Aimed, WellFormed, ActsFor
    <3>4. AtMost(ActiveSessions \ Aimed(req[r]), MaxConcurrent - 1)
      BY <1>t, <3>3 DEF LoginFits
    <3>5. ActiveSessions' \subseteq (ActiveSessions \ Aimed(req[r])) \cup {req[r].family}
      BY <3>2, <3>3
    <3>6. AtMost(ActiveSessions', MaxConcurrent)
      BY <1>k, <3>4, <3>5, AtMostAdd
    <3> QED
      BY <2>2, <3>6 DEF AtMost
  <2>5. CASE RotateCommit(r)
    <3>1. PICK n \in Tokens, f \in Families : Rotates(r, n, f)
      BY <1>t, <2>5, RotationRows
    <3>2. /\ req[r].hadSession
          /\ AtMost(ActiveSessions \cup {req[r].family}, MaxConcurrent)
      BY <1>t, <3>1 DEF Rotates, RotationFits
    <3>3. f = req[r].family
      BY <1>k, <1>t, <3>1, <3>2 DEF Rotates, WellFormed
    <3>4. UNCHANGED now
      BY <2>5 DEF RotateCommit
    <3>5. sessions' = [sessions EXCEPT ![f] = Touch(sessions[f], now + RefreshTTL)]
      BY <3>1, <3>2 DEF Rotates
    <3>6. ActiveSessions' \subseteq ActiveSessions \cup {f}
      BY <1>t, <3>4, <3>5, ActiveGrows
    <3>7. AtMost(ActiveSessions', MaxConcurrent)
      BY <1>k, <3>2, <3>3, <3>6, AtMostSubset
    <3> QED
      BY <2>2, <3>7 DEF AtMost
  <2> QED
    BY <1>1, <2>3, <2>4, <2>5
<1>2. CASE ~Grants
  <2>1. ActiveSessions' \subseteq ActiveSessions
    BY <1>t, <1>2, ActiveShrinks DEF Serial
  <2>2. AtMost(ActiveSessions, MaxConcurrent)'
    BY <1>k, <1>t, <2>1, AtMostSubset DEF AtMost
  <2>3. RotationFits(req[r])'
    <3> SUFFICES ASSUME req'[r].pc = "rotate"
                 PROVE  req'[r].hadSession
                        /\ AtMost(ActiveSessions' \cup {req'[r].family}, MaxConcurrent)
      BY DEF RotationFits, AtMost
    <3>1. CASE req'[r] = req[r]
      <4>1. req[r].hadSession /\ AtMost(ActiveSessions \cup {req[r].family}, MaxConcurrent)
        BY <1>t, <3>1 DEF RotationFits
      <4>2. ActiveSessions' \cup {req[r].family} \subseteq ActiveSessions \cup {req[r].family}
        BY <2>1
      <4> QED
        BY <1>k, <3>1, <4>1, <4>2, AtMostSubset
    <3>2. CASE \E t \in held : Rotating(r, t)
      <4>1. req'[r].hadSession /\ req'[r].family \in ActiveSessions
        BY <1>t, <3>2, AcceptedIsActive
      <4>2. ActiveSessions' \cup {req'[r].family} \subseteq ActiveSessions
        BY <2>1, <4>1
      <4> QED
        BY <1>k, <1>t, <4>1, <4>2, AtMostSubset
    <3> QED
      BY <1>t, <3>1, <3>2, RotationStarts
  <2>4. LoginFits(req[r])'
    <3> SUFFICES ASSUME LoggingIn(req'[r])
                 PROVE  AtMost(ActiveSessions' \ Aimed(req'[r]), MaxConcurrent - 1)
      BY DEF LoginFits, LoggingIn, Aimed, AtMost
    <3>1. ASSUME LoggingIn(req[r]), NEW S, S \subseteq ActiveSessions \ Aimed(req[r])
          PROVE  AtMost(S, MaxConcurrent - 1)
      BY <1>k, <1>t, <3>1, AtMostSubset DEF LoginFits
    <3>2. CASE UNCHANGED req
      BY <2>1, <3>1, <3>2
    <3>3. CASE SweepFamily(r) \/ SweepRead(r) \/ SweepWrite(r)
      <4>1. req[r].pc \in {"sweep", "read", "write"}
        BY <3>3, Zenon DEF SweepFamily, SweepRead, SweepWrite
      <4>2. LoggingIn(req[r])
        BY <1>t, <3>3, <4>1, AimedMoves, IdleActs DEF LoggingIn
      <4>3. ActiveSessions' \ Aimed(req'[r]) \subseteq ActiveSessions \ Aimed(req[r])
        <5>1. \A f \in ActiveSessions' : sessions'[f].status = "active"
          BY DEF ActiveSessions, EffectivelyActive
        <5> QED
          BY <1>t, <2>1, <3>3, <5>1, AimedMoves
      <4> QED
        BY <3>1, <4>2, <4>3
    <3>4. CASE LoginEvict(r)
      <4>1. PICK E \in Evictable \ {{}}, n \in Tokens, f \in Families : \E e \in Oldest(E) :
                     /\ Goes(r, req[r].op, "read")
                     /\ req'[r].target = e /\ req'[r].todo = E \ {e}
        BY <1>t, <3>4, LoopMoves
      <4>2. Aimed(req'[r]) = E
        BY <4>1 DEF Goes, Aimed, Oldest
      <4>3. AtMost(ActiveSessions \ E, MaxConcurrent - 1)
        BY <1>t, EvictionMakesRoom
      <4>4. ActiveSessions' \ E \subseteq ActiveSessions \ E
        BY <2>1
      <4> QED
        BY <1>k, <4>2, <4>3, <4>4, AtMostSubset
    <3>5. ~(RotateConflict(r) \/ LogoutCommit(r) \/ Crash(r))
      BY <1>t, IdleActs, Ends DEF LoggingIn
    <3>6. ~DisableCommit(r)
      <4>1. DisableCommit(r) => req[r].pc = "disable"
        BY Zenon DEF DisableCommit
      <4> QED
        BY <1>t, <4>1, IdleActs, LoopMoves DEF ActsFor, LoggingIn, Aims, Goes
    <3>7. Arrive(r) => UNCHANGED req
      <4>1. Enable(r) => UNCHANGED req
        BY DEF Enable
      <4> QED
        BY <1>t, <4>1, Arrivals DEF Arrive, LoggingIn, Goes
    <3> QED
      BY <1>2, <3>2, <3>3, <3>4, <3>5, <3>6, <3>7, SerialSteps DEF Step
  <2> QED
    BY <2>2, <2>3, <2>4
<1> QED
  BY <1>1, <1>2

\* generate_tokens keeps the account within SESSION_MAX_CONCURRENT sessions as
\* long as requests do not overlap and no token predates the sessions table;
\* crashes between the evictions and the new session included.
THEOREM SessionLimitHolds ==
    ASSUME Serial, Legacy = {} PROVE Spec => []SessionLimit
<1>1. LimitInv /\ [Next]_vars => LimitInv'
  <2> SUFFICES ASSUME LimitInv, [Next]_vars PROVE LimitInv'
    OBVIOUS
  <2>1. SessionInv' /\ HandlersInv'
    BY SessionNext, HandlersNext DEF LimitInv, SessionInv
  <2>2. AtMost(ActiveSessions, MaxConcurrent)'
    <3>1. CASE Requests # {}
      BY <3>1, LimitStep
    <3>2. CASE Requests = {}
      <4>1. ActiveSessions' \subseteq ActiveSessions
        BY <3>2, ActiveShrinks DEF LimitInv
      <4> QED
        BY <4>1, AtMostSubset, ConstantsAssumption DEF LimitInv, AtMost
    <3> QED
      BY <3>1, <3>2
  <2> QED
    BY <2>1, <2>2, LimitStep DEF LimitInv
<1>2. LimitInv => SessionLimit
  BY DEF LimitInv, AtMost, SessionLimit
<1> QED
  BY <1>1, <1>2, LimitInit, PTL DEF Spec

=============================================================================
