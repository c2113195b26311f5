---------------------------- MODULE AuthSessions ----------------------------
(***************************************************************************)
(* The refresh tokens of application/services/auth_service.py and their    *)
(* rows in the sessions table.  Every request is one transaction, which    *)
(* the middleware commits after the handler, at READ COMMITTED.  The       *)
(* router passes neither a device nor an address, so the checks and writes *)
(* of those never happen.                                                  *)
(***************************************************************************)
EXTENDS Naturals, FiniteSets

CONSTANTS
    Requests,       \* the requests ever made; a login's or refresh's is its token's jti
    NoRequest,      \* None
    Troubles        \* what may go wrong

ASSUME RequestsAssumption == IsFiniteSet(Requests) /\ NoRequest \notin Requests

\* "request": a process dies or an unexpected exception rolls the request back;
\* "age": a token may expire.
ASSUME TroublesAssumption == Troubles \subseteq {"request", "age"}

VARIABLES
    session,        \* the committed row of each jti
    device,         \* its device_id, named by the login that chose it
    expired,        \* the tokens past their exp
    kind,           \* what each request is
    token,          \* the jti of the token it presents
    phase,          \* where it is
    before          \* history: the requests committed when it read its token's row

rows == <<session, device, expired>>
requests == <<kind, token, phase, before>>
vars == <<rows, requests>>

Committed == {r \in Requests : phase[r] = "committed"}

TypeOK ==
    /\ session \in [Requests -> {"none", "active", "revoked"}]
    /\ device \in [Requests -> Requests \cup {NoRequest}]
    /\ expired \subseteq Requests
    /\ kind \in [Requests -> {"none", "login", "refresh", "logout"}]
    /\ token \in [Requests -> Requests \cup {NoRequest}]
    /\ phase \in [Requests -> {"new", "accepted", "revoked", "issued",
                               "committed", "refused", "lost"}]
    /\ before \in [Requests -> SUBSET Requests]
    /\ \A r \in Requests : session[r] # "none" =>
          \E d \in Committed : device[r] = d /\ kind[d] = "login"

Init ==
    /\ session = [r \in Requests |-> "none"]
    /\ device = [r \in Requests |-> NoRequest]
    /\ expired = {}
    /\ kind = [r \in Requests |-> "none"]
    /\ token = [r \in Requests |-> NoRequest]
    /\ phase = [r \in Requests |-> "new"]
    /\ before = [r \in Requests |-> {}]

-----------------------------------------------------------------------------

\* login: the session is inserted with a device of its own.
Login(r) ==
    /\ phase[r] = "new"
    /\ kind' = [kind EXCEPT ![r] = "login"]
    /\ phase' = [phase EXCEPT ![r] = "issued"]
    /\ device' = [device EXCEPT ![r] = r]
    /\ UNCHANGED <<session, expired, token, before>>

\* The client has a token once its response has been sent, after the commit.
Present(r, t, k, place) ==
    /\ phase[r] = "new"
    /\ session[t] # "none"
    /\ kind' = [kind EXCEPT ![r] = k]
    /\ token' = [token EXCEPT ![r] = t]
    /\ phase' = [phase EXCEPT ![r] = place]
    /\ before' = [before EXCEPT ![r] = Committed]
    /\ UNCHANGED rows

\* Slip: refresh trusts the signature and does not ask is_active.
TrustingRefresh(r) ==
    \E t \in Requests \ expired : Present(r, t, "refresh", "accepted")

\* The row is there, not revoked, and the token has not expired.
IsActive(t) == session[t] = "active" /\ t \notin expired

\* refresh and logout: decode, and the row is read.
Refresh(r) ==
    \E t \in Requests : Present(r, t, "refresh", IF IsActive(t) THEN "accepted" ELSE "refused")

\* Setting revoked on a row that has it already writes nothing: the request ends
\* without effect, as a refused one does.
Logout(r) ==
    \E t \in Requests : Present(r, t, "logout", IF IsActive(t) THEN "accepted" ELSE "refused")

\* The row is locked from the UPDATE to the end of the transaction.  A refresh that
\* finds it revoked when it reads it again (the identity map keeps no row that is
\* referenced no more) writes nothing and waits for nobody, and an UPDATE of a
\* revoked row changes nothing: only those of an active row have an order.
Locked(t) ==
    /\ session[t] = "active"
    /\ \E r \in Requests : token[r] = t /\ phase[r] \in {"revoked", "issued"}

\* Slip: the revocation is committed on its own.
RevokeAndCommit(r) ==
    /\ phase[r] = "accepted"
    /\ ~Locked(token[r])
    /\ phase' = [phase EXCEPT ![r] = "revoked"]
    /\ session' = [session EXCEPT ![token[r]] = "revoked"]
    /\ UNCHANGED <<device, expired, kind, token, before>>

Revoke(r) ==
    /\ phase[r] = "accepted"
    /\ ~Locked(token[r])
    /\ phase' = [phase EXCEPT ![r] = "revoked"]
    /\ UNCHANGED <<rows, kind, token, before>>

\* Slip: the device of the old session is not handed on.
IssueForNewDevice(r) ==
    /\ phase[r] = "revoked"
    /\ kind[r] = "refresh"
    /\ phase' = [phase EXCEPT ![r] = "issued"]
    /\ device' = [device EXCEPT ![r] = r]
    /\ UNCHANGED <<session, expired, kind, token, before>>

\* The new session belongs to the device of the old one.
Issue(r) ==
    /\ phase[r] = "revoked"
    /\ kind[r] = "refresh"
    /\ phase' = [phase EXCEPT ![r] = "issued"]
    /\ device' = [device EXCEPT ![r] = device[token[r]]]
    /\ UNCHANGED <<session, expired, kind, token, before>>

Commit(r) ==
    /\ phase[r] = IF kind[r] = "logout" THEN "revoked" ELSE "issued"
    /\ phase' = [phase EXCEPT ![r] = "committed"]
    /\ session' = [j \in Requests |->
                      IF j = r /\ kind[r] # "logout" THEN "active"
                      ELSE IF j = token[r] THEN "revoked" ELSE session[j]]
    /\ UNCHANGED <<device, expired, kind, token, before>>

RollBack(r) ==
    /\ phase[r] \in {"accepted", "revoked", "issued"}
    /\ "request" \in Troubles
    /\ phase' = [phase EXCEPT ![r] = "lost"]
    /\ device' = [device EXCEPT ![r] = NoRequest]
    /\ UNCHANGED <<session, expired, kind, token, before>>

Expire(t) ==
    /\ session[t] # "none"
    /\ t \notin expired
    /\ "age" \in Troubles
    /\ expired' = expired \cup {t}
    /\ UNCHANGED <<session, device, requests>>

Next ==
    \E r \in Requests :
        \/ Login(r)
        \/ Refresh(r)
        \/ Logout(r)
        \/ Revoke(r)
        \/ Issue(r)
        \/ Commit(r)
        \/ RollBack(r)
        \/ Expire(r)

Spec == Init /\ [][Next]_vars

-----------------------------------------------------------------------------

\* The sessions of one login, which share its device.
Family(d) == {j \in Requests : session[j] # "none" /\ device[j] = d}
Active(d) == {j \in Family(d) : session[j] = "active"}

\* What has been done with tokens of the family, and whether it was in turn.
Uses(d) == {r \in Committed : token[r] \in Family(d)}
LoggedOut(d) == \E r \in Uses(d) : kind[r] = "logout"
InTurn(d) == \A r, s \in Uses(d) : r = s \/ r \in before[s] \/ s \in before[r]

\* Rotation (refresh revokes the old session and creates the new one) is all or
\* nothing: a device that has not logged out keeps an unrevoked session, through
\* overlapping, interrupted and repeated refreshes.
DeviceKeepsSession ==
    \A d \in Committed : kind[d] = "login" /\ ~LoggedOut(d) => Active(d) # {}

\* When the requests of a device did not overlap, it has one unrevoked session,
\* and none after a logout: a spent token never comes back to life.
OneSessionPerDevice ==
    \A d \in Committed :
        kind[d] = "login" /\ InTurn(d) =>
            Cardinality(Active(d)) = IF LoggedOut(d) THEN 0 ELSE 1

\* auth_service.py, refresh: "old refresh token is one-time-use".
RefreshIsOneTime ==
    \A r, s \in Committed :
        kind[r] = "refresh" /\ kind[s] = "refresh" /\ token[r] = token[s] => r = s
=============================================================================
