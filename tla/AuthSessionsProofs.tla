------------------------- MODULE AuthSessionsProofs -------------------------
(***************************************************************************)
(* What rotation keeps, for any number of overlapping, interrupted and     *)
(* repeated requests; and, in the last part, what registration keeps.      *)
(***************************************************************************)
EXTENDS Accounts, FiniteSetTheorems, TLAPS

\* What a request has done at each of its places.
WellFormed(r) ==
    /\ phase[r] = "new" <=> kind[r] = "none"
    /\ session[r] # "none" <=> phase[r] = "committed" /\ kind[r] # "logout"
    /\ kind[r] \in {"none", "login"} => token[r] = NoRequest
    /\ kind[r] = "login" =>
          /\ phase[r] \in {"issued", "committed", "lost"}
          /\ phase[r] # "lost" => device[r] = r
    /\ kind[r] \in {"refresh", "logout"} => token[r] \in Requests /\ session[token[r]] # "none"
    /\ kind[r] = "logout" => phase[r] # "issued"
    /\ kind[r] = "refresh" /\ phase[r] \in {"issued", "committed"} => device[r] = device[token[r]]
    /\ before[r] \subseteq Committed

\* A token that was accepted is still unspent, unless a request that this one has
\* not seen has spent it since.
AcceptedInTurn(r) ==
    kind[r] \in {"refresh", "logout"} /\ phase[r] \in {"accepted", "revoked", "issued"} =>
        \/ session[token[r]] = "active"
        \/ \E s \in Committed \ before[r] : token[s] = token[r]

Sound == TypeOK /\ \A r \in Requests : WellFormed(r) /\ AcceptedInTurn(r)

\* OneSessionPerDevice without counting.
SingleSession ==
    \A d \in Committed :
        kind[d] = "login" /\ InTurn(d) =>
            IF LoggedOut(d) THEN Active(d) = {} ELSE \E j \in Requests : Active(d) = {j}

SessionsInv == Sound /\ DeviceKeepsSession /\ SingleSession

-----------------------------------------------------------------------------

LEMMA InitEstablishes == Init => SessionsInv
<1>. SUFFICES ASSUME Init PROVE SessionsInv
  OBVIOUS
<1>1. TypeOK
  BY DEF Init, TypeOK
<1>2. Committed = {}
  BY DEF Init, Committed
<1>3. \A r \in Requests : WellFormed(r) /\ AcceptedInTurn(r)
  BY <1>2 DEF Init, WellFormed, AcceptedInTurn
<1>4. DeviceKeepsSession /\ SingleSession
  BY <1>2 DEF DeviceKeepsSession, SingleSession
<1>5. QED
  BY <1>1, <1>3, <1>4 DEF SessionsInv, Sound

-----------------------------------------------------------------------------
(* Steps that commit nothing                                               *)

\* What such a step of request r leaves alone.
Uncommitted(r) ==
    /\ session' = session
    /\ phase[r] # "committed" /\ phase'[r] # "committed"
    /\ \A q \in Requests \ {r} :
          /\ phase'[q] = phase[q] /\ kind'[q] = kind[q] /\ token'[q] = token[q]
          /\ device'[q] = device[q] /\ before'[q] = before[q]

LEMMA QuietSteps ==
    ASSUME Sound, NEW r \in Requests,
           \/ Login(r) \/ Refresh(r) \/ Logout(r) \/ Revoke(r)
           \/ Issue(r) \/ RollBack(r) \/ Expire(r)
    PROVE  TypeOK' /\ (Uncommitted(r) \/ UNCHANGED <<session, device, requests>>)
<1>. USE DEF Sound
<1>1. CASE Login(r)
  <2>1. Uncommitted(r)
    BY <1>1 DEF Login, TypeOK, Uncommitted
  <2>2. \A d \in Committed : d \in Committed' /\ kind'[d] = kind[d]
    BY <1>1 DEF Login, Committed, TypeOK
  <2>3. session[r] = "none"
    BY <1>1 DEF Login, WellFormed
  <2>4. QED
    BY <1>1, <2>1, <2>2, <2>3 DEF Login, TypeOK
<1>2. CASE Refresh(r) \/ Logout(r)
  <2>1. PICK t \in Requests, k \in {"refresh", "logout"}, place \in {"accepted", "refused"} :
           Present(r, t, k, place)
    BY <1>2 DEF Refresh, Logout, IsActive
  <2>2. Uncommitted(r)
    BY <2>1 DEF Present, rows, TypeOK, Uncommitted
  <2>3. \A d \in Committed : d \in Committed' /\ kind'[d] = kind[d]
    BY <2>1 DEF Present, Committed, TypeOK
  <2>4. before' \in [Requests -> SUBSET Requests]
    BY <2>1 DEF Present, Committed, TypeOK
  <2>5. QED
    BY <2>1, <2>2, <2>3, <2>4 DEF Present, rows, TypeOK
<1>3. CASE Revoke(r)
  BY <1>3 DEF Revoke, rows, Committed, TypeOK, Uncommitted
<1>4. CASE Issue(r)
  <2>1. token[r] \in Requests /\ device[token[r]] \in Requests \cup {NoRequest} /\ session[r] = "none"
    BY <1>4 DEF Issue, TypeOK, WellFormed
  <2>2. QED
    BY <1>4, <2>1 DEF Issue, Committed, TypeOK, Uncommitted
<1>5. CASE RollBack(r)
  <2>1. session[r] = "none"
    BY <1>5 DEF RollBack, WellFormed
  <2>2. QED
    BY <1>5, <2>1 DEF RollBack, Committed, TypeOK, Uncommitted
<1>6. CASE Expire(r)
  BY <1>6 DEF Expire, requests, Committed, TypeOK
<1>7. QED
  BY <1>1, <1>2, <1>3, <1>4, <1>5, <1>6

LEMMA QuietKeepsForm ==
    ASSUME Sound, NEW r \in Requests, Uncommitted(r),
           \/ Login(r) \/ Refresh(r) \/ Logout(r) \/ Revoke(r)
           \/ Issue(r) \/ RollBack(r)
    PROVE  \A q \in Requests : WellFormed(q)' /\ AcceptedInTurn(q)'
<1>. USE DEF Sound
<1>1. Committed' = Committed
  BY DEF Uncommitted, Committed
<1>2. \A s \in Committed : token'[s] = token[s]
  BY DEF Uncommitted, Committed
<1>3. \A q \in Requests : session[q] # "none" => device'[q] = device[q]
  BY DEF Uncommitted, WellFormed
<1>4. ASSUME NEW q \in Requests \ {r} PROVE WellFormed(q)' /\ AcceptedInTurn(q)'
  BY <1>1, <1>2, <1>3, <1>4 DEF Uncommitted, WellFormed, AcceptedInTurn
<1>5. WellFormed(r)' /\ AcceptedInTurn(r)'
  <2>1. CASE Login(r)
    BY <1>1, <2>1 DEF Login, TypeOK, WellFormed, AcceptedInTurn
  <2>2. CASE Refresh(r) \/ Logout(r)
    <3>1. PICK t \in Requests, k \in {"refresh", "logout"}, place \in {"accepted", "refused"} :
             /\ place = "refused" \/ session[t] = "active"
             /\ Present(r, t, k, place)
      BY <2>2 DEF Refresh, Logout, IsActive
    <3>2. /\ kind'[r] = k /\ token'[r] = t /\ before'[r] = Committed
          /\ phase'[r] = "refused" \/ (phase'[r] = "accepted" /\ session[t] = "active")
          /\ session[t] # "none" /\ phase[r] = "new"
      BY <3>1 DEF Present, TypeOK
    <3>3. QED
      BY <1>1, <3>2 DEF Uncommitted, WellFormed, AcceptedInTurn
  <2>3. CASE Revoke(r)
    BY <1>1, <1>2, <2>3 DEF Revoke, rows, TypeOK, WellFormed, AcceptedInTurn
  <2>4. CASE Issue(r)
    <3>1. /\ phase'[r] = "issued" /\ phase[r] = "revoked" /\ kind[r] = "refresh"
          /\ device'[r] = device[token[r]]
          /\ UNCHANGED <<session, kind, token, before>>
      BY <2>4 DEF Issue, TypeOK
    <3>2. device'[token[r]] = device[token[r]]
      BY <1>3, <3>1 DEF WellFormed
    <3>3. QED
      BY <1>1, <1>2, <3>1, <3>2 DEF WellFormed, AcceptedInTurn
  <2>5. CASE RollBack(r)
    BY <1>1, <2>5 DEF RollBack, TypeOK, WellFormed, AcceptedInTurn
  <2>6. QED
    BY <2>1, <2>2, <2>3, <2>4, <2>5
<1>6. QED
  BY <1>4, <1>5

LEMMA QuietKeepsSessions ==
    ASSUME Sound, DeviceKeepsSession, SingleSession, NEW r \in Requests, Uncommitted(r)
    PROVE  DeviceKeepsSession' /\ SingleSession'
<1>. USE DEF Sound
<1>1. Committed' = Committed
  BY DEF Uncommitted, Committed
<1>2. \A q \in Committed : kind'[q] = kind[q] /\ token'[q] = token[q] /\ before'[q] = before[q]
  BY DEF Uncommitted, Committed
<1>3. \A q \in Requests : session[q] # "none" => device'[q] = device[q]
  BY DEF Uncommitted, WellFormed
<1>4. session' = session
  BY DEF Uncommitted
<1>5. ASSUME NEW d
      PROVE  /\ Active(d)' = Active(d) /\ Uses(d)' = Uses(d)
             /\ LoggedOut(d)' <=> LoggedOut(d)
             /\ InTurn(d)' <=> InTurn(d)
  <2>1. Family(d)' = Family(d)
    BY <1>3, <1>4 DEF Family
  <2>2. Active(d)' = Active(d) /\ Uses(d)' = Uses(d)
    BY <1>1, <1>2, <1>4, <2>1 DEF Active, Uses
  <2>3. Uses(d) \subseteq Committed
    BY DEF Uses
  <2>4. QED
    BY <1>2, <2>2, <2>3 DEF LoggedOut, InTurn
<1>6. DeviceKeepsSession'
  BY <1>1, <1>2, <1>5 DEF DeviceKeepsSession
<1>7. SingleSession'
  BY <1>1, <1>2, <1>5 DEF SingleSession
<1>8. QED
  BY <1>6, <1>7

-----------------------------------------------------------------------------
(* Commit                                                                  *)

LEMMA CommitEffect ==
    ASSUME Sound, NEW r \in Requests, Commit(r)
    PROVE  /\ Committed' = Committed \cup {r} /\ r \notin Committed
           /\ UNCHANGED <<device, kind, token, before>>
           /\ session[r] = "none" /\ kind[r] \in {"login", "refresh", "logout"}
           /\ kind[r] # "logout" => session'[r] = "active"
           /\ kind[r] = "logout" => session'[r] = "none"
           /\ token[r] # r
           /\ \A j \in Requests \ {r} :
                 session'[j] = IF j = token[r] THEN "revoked" ELSE session[j]
<1>. USE DEF Sound
<1>1. session[r] = "none" /\ kind[r] \in {"login", "refresh", "logout"} /\ r \notin Committed
  BY DEF Commit, TypeOK, WellFormed, Committed
<1>2. token[r] # r
  BY <1>1, RequestsAssumption DEF WellFormed
<1>3. Committed' = Committed \cup {r}
  BY DEF Commit, TypeOK, Committed
<1>4. QED
  BY <1>1, <1>2, <1>3 DEF Commit

LEMMA CommitKeepsForm ==
    ASSUME Sound, NEW r \in Requests, Commit(r)
    PROVE  Sound'
<1>. USE DEF Sound
<1>1. /\ Committed' = Committed \cup {r} /\ r \notin Committed
      /\ UNCHANGED <<device, kind, token, before>>
      /\ session[r] = "none" /\ kind[r] \in {"login", "refresh", "logout"}
      /\ kind[r] # "logout" => session'[r] = "active"
      /\ kind[r] = "logout" => session'[r] = "none"
      /\ \A j \in Requests \ {r} :
            session'[j] = IF j = token[r] THEN "revoked" ELSE session[j]
  BY CommitEffect
<1>2. \A j \in Requests : session[j] # "none" => session'[j] # "none"
  BY <1>1
<1>3. \A j \in Requests \ {r} : session'[j] # "none" <=> session[j] # "none"
  <2>1. token[r] \in Requests => session[token[r]] # "none"
    BY <1>1, RequestsAssumption DEF WellFormed
  <2>2. QED
    BY <1>1, <2>1
<1>4. phase'[r] = "committed" /\ \A q \in Requests \ {r} : phase'[q] = phase[q]
  BY DEF Commit, TypeOK
<1>5. TypeOK'
  <2>1. session' \in [Requests -> {"none", "active", "revoked"}]
    BY DEF Commit, TypeOK
  <2>2. phase' \in [Requests -> {"new", "accepted", "revoked", "issued",
                                 "committed", "refused", "lost"}]
    BY DEF Commit, TypeOK
  <2>3. ASSUME NEW q \in Requests, session'[q] # "none"
        PROVE  \E d \in Committed' : device[q] = d /\ kind[d] = "login"
    <3>1. CASE session[q] # "none"
      BY <1>1, <3>1 DEF TypeOK
    <3>2. CASE q = r /\ kind[r] = "login"
      BY <1>1, <3>2 DEF Commit, WellFormed
    <3>3. CASE q = r /\ kind[r] = "refresh"
      <4>1. device[r] = device[token[r]] /\ token[r] \in Requests /\ session[token[r]] # "none"
        BY <3>3 DEF Commit, WellFormed
      <4>2. QED
        BY <1>1, <3>3, <4>1 DEF TypeOK
    <3>4. QED
      BY <1>1, <1>3, <2>3, <3>1, <3>2, <3>3
  <2>4. QED
    BY <1>1, <2>1, <2>2, <2>3 DEF Commit, TypeOK
<1>6. \A q \in Requests : WellFormed(q)'
  <2>1. ASSUME NEW q \in Requests \ {r} PROVE WellFormed(q)'
    BY <1>1, <1>2, <1>3, <1>4 DEF WellFormed
  <2>2. WellFormed(r)'
    BY <1>1, <1>2, <1>4 DEF Commit, WellFormed
  <2>3. QED
    BY <2>1, <2>2
<1>7. ASSUME NEW q \in Requests PROVE AcceptedInTurn(q)'
  <2>1. CASE q = r
    BY <1>4, <2>1 DEF AcceptedInTurn
  <2>2. CASE q # r /\ kind[q] \in {"refresh", "logout"} /\ phase[q] \in {"accepted", "revoked", "issued"}
    <3>1. token[q] \in Requests /\ session[token[q]] # "none" /\ token[q] # r /\ r \notin before[q]
      BY <1>1, <2>2 DEF WellFormed
    <3>2. CASE token[q] = token[r]
      BY <1>1, <3>1, <3>2 DEF AcceptedInTurn
    <3>3. CASE token[q] # token[r]
      BY <1>1, <2>2, <3>1, <3>3 DEF AcceptedInTurn
    <3>4. QED
      BY <3>2, <3>3
  <2>3. QED
    BY <1>1, <1>4, <2>1, <2>2 DEF AcceptedInTurn
<1>8. QED
  BY <1>5, <1>6, <1>7

\* A login starts a family of its own; a refresh or a logout changes the family of
\* its token, and no other.
LEMMA CommitFamilies ==
    ASSUME Sound, NEW r \in Requests, Commit(r), NEW d \in Requests
    PROVE  /\ kind[r] = "login" /\ d # r =>
                 Active(d)' = Active(d) /\ Uses(d)' = Uses(d)
           /\ kind[r] = "login" /\ d = r => Active(d)' = {r} /\ Uses(d)' = {}
           /\ kind[r] # "login" /\ device[token[r]] # d =>
                 Active(d)' = Active(d) /\ Uses(d)' = Uses(d)
           /\ kind[r] # "login" /\ device[token[r]] = d =>
                 /\ Uses(d)' = Uses(d) \cup {r}
                 /\ Active(d)' = (Active(d) \ {token[r]})
                                    \cup (IF kind[r] = "refresh" THEN {r} ELSE {})
<1>. USE DEF Sound
<1>1. /\ Committed' = Committed \cup {r} /\ r \notin Committed
      /\ UNCHANGED <<device, kind, token, before>>
      /\ session[r] = "none" /\ kind[r] \in {"login", "refresh", "logout"}
      /\ kind[r] # "logout" => session'[r] = "active"
      /\ kind[r] = "logout" => session'[r] = "none"
      /\ token[r] # r
      /\ \A j \in Requests \ {r} :
            session'[j] = IF j = token[r] THEN "revoked" ELSE session[j]
  BY CommitEffect
<1>2. kind[r] = "login" => token[r] = NoRequest /\ device[r] = r
  BY DEF Commit, WellFormed
<1>3. kind[r] # "login" => token[r] \in Requests /\ session[token[r]] # "none"
  BY <1>1 DEF WellFormed
<1>4. kind[r] = "refresh" => device[r] = device[token[r]]
  BY DEF Commit, WellFormed
<1>5. Family(d)' = Family(d) \cup (IF kind[r] # "logout" /\ device[r] = d THEN {r} ELSE {})
  <2>1. token[r] \in Requests => session[token[r]] # "none"
    BY <1>2, <1>3, RequestsAssumption
  <2>2. \A j \in Requests \ {r} : session'[j] # "none" <=> session[j] # "none"
    BY <1>1, <2>1
  <2>3. QED
    BY <1>1, <2>2 DEF Family
<1>6. Active(d)' = (Active(d) \ {token[r]})
                      \cup (IF kind[r] # "logout" /\ device[r] = d THEN {r} ELSE {})
  BY <1>1, <1>5 DEF Active, Family
<1>7. \A s \in Committed : token[s] # r
  BY <1>1, RequestsAssumption DEF WellFormed, Committed, TypeOK
<1>8. Uses(d)' = Uses(d) \cup (IF kind[r] # "login" /\ device[token[r]] = d THEN {r} ELSE {})
  <2>1. token[r] \in Family(d) <=> kind[r] # "login" /\ device[token[r]] = d
    BY <1>2, <1>3, RequestsAssumption DEF Family
  <2>2. \A s \in Committed : token[s] \in Family(d)' <=> token[s] \in Family(d)
    BY <1>5, <1>7
  <2>3. token[r] \in Family(d)' <=> token[r] \in Family(d)
    BY <1>1, <1>5
  <2>4. QED
    BY <1>1, <2>1, <2>2, <2>3 DEF Uses
<1>9. CASE kind[r] = "login"
  <2>1. token[r] \notin Active(d)
    BY <1>2, <1>9, RequestsAssumption DEF Active, Family
  <2>2. CASE d = r
    <3>1. Family(r) = {}
      <4>1. \A j \in Requests : session[j] # "none" => device[j] # r
        BY <1>1 DEF TypeOK
      <4>2. QED
        BY <4>1 DEF Family
    <3>2. QED
      BY <1>2, <1>6, <1>8, <1>9, <2>2, <3>1 DEF Active, Uses
  <2>3. CASE d # r
    BY <1>2, <1>6, <1>8, <1>9, <2>1, <2>3
  <2>4. QED
    BY <1>9, <2>2, <2>3
<1>10. CASE kind[r] # "login"
  <2>1. token[r] \in Active(d) => device[token[r]] = d
    BY DEF Active, Family
  <2>2. QED
    BY <1>1, <1>4, <1>6, <1>8, <1>10, <2>1
<1>11. QED
  BY <1>9, <1>10

LEMMA CommitKeepsSessions ==
    ASSUME Sound, DeviceKeepsSession, SingleSession, NEW r \in Requests, Commit(r)
    PROVE  DeviceKeepsSession' /\ SingleSession'
<1>. USE DEF Sound
<1>1. /\ Committed' = Committed \cup {r} /\ r \notin Committed
      /\ UNCHANGED <<device, kind, token, before>>
      /\ kind[r] \in {"login", "refresh", "logout"}
  BY CommitEffect
<1>2. Committed \subseteq Requests
  BY DEF Committed
<1>3. ASSUME NEW d \in Requests, Active(d)' = Active(d), Uses(d)' = Uses(d)
      PROVE  (LoggedOut(d)' <=> LoggedOut(d)) /\ (InTurn(d)' <=> InTurn(d))
  BY <1>1, <1>3 DEF LoggedOut, InTurn
<1>4. CASE kind[r] = "login"
  <2>1. Active(r)' = {r} /\ Uses(r)' = {}
    BY <1>4, CommitFamilies
  <2>2. ~LoggedOut(r)'
    BY <2>1 DEF LoggedOut
  <2>3. \A d \in Committed : Active(d)' = Active(d) /\ Uses(d)' = Uses(d)
    BY <1>1, <1>2, <1>4, CommitFamilies
  <2>4. DeviceKeepsSession'
    BY <1>1, <1>2, <1>3, <2>1, <2>3 DEF DeviceKeepsSession
  <2>5. SingleSession'
    BY <1>1, <1>2, <1>3, <2>1, <2>2, <2>3 DEF SingleSession
  <2>6. QED
    BY <2>4, <2>5
<1>5. CASE kind[r] # "login"
  <2>1. PICK d \in Committed :
           /\ token[r] \in Requests /\ session[token[r]] # "none"
           /\ device[token[r]] = d /\ kind[d] = "login"
    BY <1>1, <1>5 DEF WellFormed, TypeOK
  <2>2. /\ Uses(d)' = Uses(d) \cup {r}
        /\ Active(d)' = (Active(d) \ {token[r]}) \cup (IF kind[r] = "refresh" THEN {r} ELSE {})
    BY <1>2, <1>5, <2>1, CommitFamilies
  <2>3. \A c \in Committed : c # d => Active(c)' = Active(c) /\ Uses(c)' = Uses(c)
    BY <1>2, <1>5, <2>1, CommitFamilies
  <2>4. LoggedOut(d)' <=> LoggedOut(d) \/ kind[r] = "logout"
    BY <1>1, <2>2 DEF LoggedOut
  <2>5. DeviceKeepsSession'
    <3>1. ASSUME NEW c \in Committed', kind[c] = "login", ~LoggedOut(c)'
          PROVE  Active(c)' # {}
      <4>1. c \in Committed
        BY <1>1, <1>5, <3>1
      <4>2. CASE c = d
        BY <1>1, <1>5, <2>2, <2>4, <3>1, <4>2
      <4>3. CASE c # d
        BY <1>2, <1>3, <2>3, <3>1, <4>1, <4>3 DEF DeviceKeepsSession
      <4>4. QED
        BY <4>2, <4>3
    <3>2. QED
      BY <1>1, <3>1 DEF DeviceKeepsSession
  <2>6. ASSUME InTurn(d)'
        PROVE  /\ ~LoggedOut(d)
               /\ Active(d) = {token[r]}
    <3>1. \A s, q \in Uses(d) \cup {r} : s = q \/ s \in before[q] \/ q \in before[s]
      BY <1>1, <2>2, <2>6 DEF InTurn
    <3>2. InTurn(d)
      BY <3>1 DEF InTurn
    <3>3. Uses(d) \subseteq Committed
      BY DEF Uses
    <3>4. \A s \in Committed : r \notin before[s]
      BY <1>1, <1>2 DEF WellFormed
    <3>5. Uses(d) \subseteq before[r]
      BY <1>1, <3>1, <3>3, <3>4
    <3>6. \A s \in Committed : token[s] = token[r] => s \in Uses(d)
      BY <2>1 DEF Uses, Family
    <3>7. session[token[r]] = "active"
      BY <1>1, <1>5, <3>5, <3>6 DEF Commit, AcceptedInTurn
    <3>8. token[r] \in Active(d)
      BY <2>1, <3>7 DEF Active, Family
    <3>9. QED
      BY <2>1, <3>2, <3>8 DEF SingleSession
  <2>7. SingleSession'
    <3>1. ASSUME NEW c \in Committed', kind[c] = "login", InTurn(c)'
          PROVE  IF LoggedOut(c)' THEN Active(c)' = {} ELSE \E j \in Requests : Active(c)' = {j}
      <4>1. c \in Committed
        BY <1>1, <1>5, <3>1
      <4>2. CASE c = d
        BY <1>1, <1>5, <2>2, <2>4, <2>6, <3>1, <4>2
      <4>3. CASE c # d
        BY <1>2, <1>3, <2>3, <3>1, <4>1, <4>3 DEF SingleSession
      <4>4. QED
        BY <4>2, <4>3
    <3>2. QED
      BY <1>1, <3>1 DEF SingleSession
  <2>8. QED
    BY <2>5, <2>7
<1>6. QED
  BY <1>4, <1>5

-----------------------------------------------------------------------------

LEMMA StepKeeps == SessionsInv /\ [Next]_vars => SessionsInv'
<1>. SUFFICES ASSUME SessionsInv, [Next]_vars PROVE SessionsInv'
  OBVIOUS
<1>. USE DEF SessionsInv
<1>1. ASSUME NEW r \in Requests, Commit(r) PROVE SessionsInv'
  BY <1>1, CommitKeepsForm, CommitKeepsSessions
<1>2. ASSUME TypeOK', UNCHANGED <<session, device, requests>> PROVE SessionsInv'
  BY <1>2 DEF Sound, WellFormed, AcceptedInTurn, DeviceKeepsSession, SingleSession, requests,
              Committed, Family, Active, Uses, LoggedOut, InTurn
<1>3. ASSUME NEW r \in Requests,
             \/ Login(r) \/ Refresh(r) \/ Logout(r) \/ Revoke(r)
             \/ Issue(r) \/ RollBack(r) \/ Expire(r)
      PROVE  SessionsInv'
  <2>1. TypeOK' /\ (Uncommitted(r) \/ UNCHANGED <<session, device, requests>>)
    BY <1>3, QuietSteps
  <2>2. CASE Uncommitted(r) /\ ~Expire(r)
    BY <1>3, <2>1, <2>2, QuietKeepsForm, QuietKeepsSessions DEF Sound
  <2>3. CASE Expire(r)
    BY <1>2, <2>1, <2>3 DEF Expire
  <2>4. QED
    BY <1>2, <2>1, <2>2, <2>3
<1>4. CASE UNCHANGED vars
  <2>1. TypeOK'
    BY <1>4 DEF vars, rows, requests, Sound, TypeOK, Committed
  <2>2. QED
    BY <1>2, <1>4, <2>1 DEF vars, rows
<1>5. QED
  BY <1>1, <1>3, <1>4 DEF Next

LEMMA SessionsInvariant == Spec => []SessionsInv
BY InitEstablishes, StepKeeps, PTL DEF Spec

-----------------------------------------------------------------------------

\* Every row's device was chosen by a login that has been committed.
THEOREM SessionsTypeCorrect == Spec => []TypeOK
BY SessionsInvariant, PTL DEF SessionsInv, Sound

\* Rotation never leaves a device that has not logged out without a session.
THEOREM DeviceAlwaysKeepsSession == Spec => []DeviceKeepsSession
BY SessionsInvariant, PTL DEF SessionsInv

\* Requests that follow one another leave a device one session, and none once it
\* has logged out.
THEOREM AlwaysOneSessionPerDevice == Spec => []OneSessionPerDevice
<1>1. ASSUME SessionsInv PROVE OneSessionPerDevice
  <2>1. ASSUME NEW d PROVE IsFiniteSet(Active(d))
    BY RequestsAssumption, FS_Subset DEF Active, Family
  <2>2. ASSUME NEW d, Active(d) = {} PROVE Cardinality(Active(d)) = 0
    BY <2>2, FS_EmptySet
  <2>3. ASSUME NEW d, NEW j, Active(d) = {j} PROVE Cardinality(Active(d)) = 1
    BY <2>3, FS_Singleton
  <2>4. QED
    BY <1>1, <2>2, <2>3 DEF SessionsInv, SingleSession, OneSessionPerDevice
<1>2. QED
  BY <1>1, SessionsInvariant, PTL

-----------------------------------------------------------------------------
(* One-time use                                                            *)

\* Who got through presented a token that nobody had spent when it was read, and what
\* has been spent stays revoked.
Spent ==
    /\ \A s \in Committed : token[s] \in Requests => session[token[s]] = "revoked"
    /\ \A r \in Requests : phase[r] \in {"accepted", "revoked", "issued", "committed"} =>
          \A s \in before[r] : token[s] = token[r] => token[r] = NoRequest

LEMMA CommitKeepsSpent ==
    ASSUME Sound, Spent, NEW r \in Requests, Commit(r)
    PROVE  Spent'
<1>. USE DEF Sound
<1>1. /\ Committed' = Committed \cup {r}
      /\ UNCHANGED <<token, before>>
      /\ session[r] = "none" /\ token[r] # r
      /\ \A j \in Requests \ {r} :
            session'[j] = IF j = token[r] THEN "revoked" ELSE session[j]
  BY CommitEffect
<1>2. ASSUME NEW s \in Committed', token[s] \in Requests PROVE session'[token[s]] = "revoked"
  BY <1>1, <1>2 DEF Spent
<1>3. \A q \in Requests : phase'[q] = phase[q] \/ (q = r /\ phase[r] \in {"revoked", "issued"})
  BY DEF Commit, TypeOK
<1>4. QED
  BY <1>1, <1>2, <1>3 DEF Spent

LEMMA QuietKeepsSpent ==
    ASSUME Sound, Spent, NEW r \in Requests, Uncommitted(r),
           \/ Login(r) \/ Refresh(r) \/ Logout(r) \/ Revoke(r)
           \/ Issue(r) \/ RollBack(r)
    PROVE  Spent'
<1>. USE DEF Sound
<1>1. Committed' = Committed /\ session' = session /\ Committed \subseteq Requests
  BY DEF Uncommitted, Committed
<1>2. \A s \in Committed : token'[s] = token[s]
  BY DEF Uncommitted, Committed
<1>3. \A q \in Requests : before[q] \subseteq Committed
  BY DEF WellFormed
<1>4. ASSUME NEW q \in Requests \ {r}, phase'[q] \in {"accepted", "revoked", "issued", "committed"},
             NEW s \in before'[q], token'[s] = token'[q]
      PROVE  token'[q] = NoRequest
  <2>1. phase[q] = phase'[q] /\ token[q] = token'[q] /\ before[q] = before'[q]
    BY DEF Uncommitted
  <2>2. token[s] = token[q]
    BY <1>2, <1>3, <1>4, <2>1
  <2>3. QED
    BY <1>4, <2>1, <2>2 DEF Spent
<1>5. ASSUME phase'[r] \in {"accepted", "revoked", "issued", "committed"},
             NEW s \in before'[r], token'[s] = token'[r]
      PROVE  token'[r] = NoRequest
  <2>1. CASE Login(r)
    BY <2>1 DEF Login, WellFormed
  <2>2. CASE Refresh(r) \/ Logout(r)
    <3>1. PICK t \in Requests, k \in {"refresh", "logout"}, place \in {"accepted", "refused"} :
             /\ place = "refused" \/ session[t] = "active"
             /\ Present(r, t, k, place)
      BY <2>2 DEF Refresh, Logout, IsActive
    <3>2. token'[r] = t /\ before'[r] = Committed /\ phase'[r] = place
      BY <3>1 DEF Present, TypeOK
    <3>3. session[t] = "active" /\ s \in Committed /\ token[s] = t
      BY <1>2, <1>5, <3>1, <3>2
    <3>4. QED
      BY <3>3 DEF Spent
  <2>3. CASE Revoke(r) \/ Issue(r)
    <3>1. /\ phase[r] \in {"accepted", "revoked"}
          /\ UNCHANGED <<token, before>>
      BY <2>3 DEF Revoke, Issue
    <3>2. QED
      BY <1>5, <3>1 DEF Spent
  <2>4. CASE RollBack(r)
    BY <1>5, <2>4 DEF RollBack, TypeOK
  <2>5. QED
    BY <2>1, <2>2, <2>3, <2>4
<1>6. \A s \in Committed' : token'[s] \in Requests => session'[token'[s]] = "revoked"
  BY <1>1, <1>2 DEF Spent
<1>7. QED
  BY <1>4, <1>5, <1>6 DEF Spent

LEMMA SpentStep == Sound /\ Spent /\ [Next]_vars => Spent'
<1>. SUFFICES ASSUME Sound, Spent, [Next]_vars PROVE Spent'
  OBVIOUS
<1>1. ASSUME UNCHANGED <<session, device, requests>> PROVE Spent'
  BY <1>1 DEF Spent, Committed, requests
<1>2. ASSUME NEW r \in Requests,
             \/ Login(r) \/ Refresh(r) \/ Logout(r) \/ Revoke(r)
             \/ Issue(r) \/ RollBack(r) \/ Expire(r)
      PROVE  Spent'
  <2>1. Uncommitted(r) \/ UNCHANGED <<session, device, requests>>
    BY <1>2, QuietSteps
  <2>2. CASE Expire(r)
    BY <1>1, <2>2 DEF Expire
  <2>3. QED
    BY <1>1, <1>2, <2>1, <2>2, QuietKeepsSpent
<1>3. CASE UNCHANGED vars
  BY <1>1, <1>3 DEF vars, rows
<1>4. QED
  BY <1>2, <1>3, CommitKeepsSpent DEF Next

\* Of the refreshes that get through with one token, none has seen another committed
\* when it read the token's row: the documented one-time use fails for refreshes that
\* overlap, and for those only.
THEOREM RefreshInTurnIsOneTime ==
    Spec => [](\A r, s \in Committed :
                  kind[r] = "refresh" /\ kind[s] = "refresh" /\ token[r] = token[s]
                      => r \notin before[s] /\ s \notin before[r])
<1>1. Init => Spent
  BY DEF Init, Spent, Committed
<1>2. ASSUME Sound, Spent, NEW r \in Committed, NEW s \in Committed,
             kind[r] = "refresh", token[r] = token[s]
      PROVE  r \notin before[s] /\ s \notin before[r]
  <2>1. token[r] # NoRequest
    BY <1>2, RequestsAssumption DEF Sound, WellFormed, Committed
  <2>2. QED
    BY <1>2, <2>1 DEF Spent, Committed
<1>3. Sound /\ Spent =>
        \A r, s \in Committed :
            kind[r] = "refresh" /\ kind[s] = "refresh" /\ token[r] = token[s]
                => r \notin before[s] /\ s \notin before[r]
  BY <1>2
<1>4. QED
  BY <1>1, <1>3, SpentStep, SessionsInvariant, PTL DEF Spec, SessionsInv

-----------------------------------------------------------------------------
(* Registration                                                            *)

\* Only one registration of an address is past the index at any time.
Exclusive ==
    \A p, q \in Registrations :
        /\ address[p] = address[q]
        /\ progress[p] \in {"inserted", "committed"}
        /\ progress[q] \in {"inserted", "committed"}
        => p = q

AccountsInv == AccountTypes /\ Exclusive /\ OneRegistrationWins

LEMMA RegisterStep ==
    ASSUME AccountsInv, NEW p \in Registrations, Register(p)
    PROVE  AccountsInv'
<1>. USE DEF AccountsInv
<1>1. ASSUME NEW place \in {"absent", "failed", "refused", "lost"}, MoveTo(p, place),
             progress[p] # "committed",
             place \in {"failed", "refused"} => Rival(p, {"committed"})
      PROVE  AccountsInv'
  <2>1. AccountTypes' /\ Exclusive'
    BY <1>1 DEF MoveTo, AccountTypes, Exclusive
  <2>2. \A q \in Registrations :
          /\ progress'[q] = IF q = p THEN place ELSE progress[q]
          /\ progress'[q] = "committed" <=> progress[q] = "committed"
    BY <1>1 DEF MoveTo, AccountTypes
  <2>3. \A q \in Registrations : Rival(q, {"committed"})' <=> Rival(q, {"committed"})
    BY <1>1, <2>2 DEF Rival, MoveTo
  <2>4. OneRegistrationWins'
    BY <1>1, <2>2, <2>3 DEF OneRegistrationWins, MoveTo
  <2>5. QED
    BY <2>1, <2>4
<1>2. ASSUME MoveTo(p, "inserted"), progress[p] = "absent", ~Rival(p, {"inserted"}),
             ~Rival(p, {"committed"})
      PROVE  AccountsInv'
  <2>1. AccountTypes'
    BY <1>2 DEF MoveTo, AccountTypes
  <2>2. \A q \in Registrations :
          /\ progress'[q] = IF q = p THEN "inserted" ELSE progress[q]
          /\ progress'[q] = "committed" <=> progress[q] = "committed"
    BY <1>2 DEF MoveTo, AccountTypes
  <2>3. \A q \in Registrations \ {p} :
          address[q] = address[p] => progress[q] \notin {"inserted", "committed"}
    BY <1>2 DEF Rival
  <2>4. Exclusive'
    BY <1>2, <2>2, <2>3 DEF Exclusive, MoveTo
  <2>5. \A q \in Registrations : Rival(q, {"committed"})' <=> Rival(q, {"committed"})
    BY <1>2, <2>2 DEF Rival, MoveTo
  <2>6. OneRegistrationWins'
    BY <1>2, <2>2, <2>5 DEF OneRegistrationWins, MoveTo
  <2>7. QED
    BY <2>1, <2>4, <2>6
<1>3. ASSUME CommitUser(p) PROVE AccountsInv'
  <2>1. AccountTypes'
    BY <1>3 DEF CommitUser, MoveTo, AccountTypes
  <2>2. /\ progress[p] = "inserted" /\ address' = address
        /\ \A q \in Registrations : progress'[q] = IF q = p THEN "committed" ELSE progress[q]
    BY <1>3 DEF CommitUser, MoveTo, AccountTypes
  <2>3. Exclusive'
    BY <2>2 DEF Exclusive
  <2>4. \A q \in Registrations : Rival(q, {"committed"}) => Rival(q, {"committed"})'
    BY <2>2 DEF Rival
  <2>5. OneRegistrationWins'
    BY <2>2, <2>3, <2>4 DEF OneRegistrationWins, Exclusive
  <2>6. QED
    BY <2>1, <2>3, <2>5
<1>4. CASE LookUp(p)
  BY <1>1, <1>4 DEF LookUp
<1>5. CASE Insert(p)
  BY <1>1, <1>2, <1>5 DEF Insert
<1>6. CASE Abandon(p)
  BY <1>1, <1>6 DEF Abandon
<1>7. QED
  BY <1>3, <1>4, <1>5, <1>6 DEF Register

LEMMA AccountsStep == AccountsInv /\ [AccountNext]_accountVars => AccountsInv'
<1>1. ASSUME AccountsInv, UNCHANGED accounts PROVE AccountsInv'
  BY <1>1 DEF AccountsInv, AccountTypes, Exclusive, OneRegistrationWins, Rival, accounts
<1>2. QED
  BY <1>1, RegisterStep DEF AccountNext, accountVars

\* One registration of an address gets it, and none is turned away for nothing, for any
\* number of registrations and addresses.
THEOREM OneRegistrationAlwaysWins == AccountSpec => []OneRegistrationWins
<1>1. AccountInit => AccountsInv
  BY DEF AccountInit, AccountsInv, AccountTypes, Exclusive, OneRegistrationWins
<1>2. QED
  BY <1>1, AccountsStep, PTL DEF AccountSpec, AccountsInv

\* Registration leaves the sessions to the requests of AuthSessions: what holds of them
\* alone holds beside it.
THEOREM AccountsImplementSessions == AccountSpec => Spec
<1>1. AccountInit => Init
  BY DEF AccountInit
<1>2. [AccountNext]_accountVars => [Next]_vars
  BY DEF AccountNext, accountVars, Register, LookUp, Insert, CommitUser, Abandon, MoveTo,
         LoginOfUser, Next
<1>3. QED
  BY <1>1, <1>2, PTL DEF AccountSpec, Spec

\* In particular every property of AuthSessions.
THEOREM AccountsKeepSessions ==
    AccountSpec => []TypeOK /\ []DeviceKeepsSession /\ []OneSessionPerDevice
BY AccountsImplementSessions, SessionsTypeCorrect, DeviceAlwaysKeepsSession,
   AlwaysOneSessionPerDevice
=============================================================================
