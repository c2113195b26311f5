------------------------------ MODULE Accounts ------------------------------
(***************************************************************************)
(* Registration beside the sessions of AuthSessions: AuthService.register  *)
(* looks the address up, hashes the password and inserts the user, in a    *)
(* transaction of its own request, and the users table has a unique index  *)
(* on the address.  Nobody logs in before a registration has committed.    *)
(***************************************************************************)
EXTENDS AuthSessions

CONSTANTS
    Registrations,  \* the requests ever made to register
    Addresses

VARIABLES
    address,        \* the address each registration asks for
    progress        \* where it is

accounts == <<address, progress>>
accountVars == <<vars, accounts>>

AccountTypes ==
    /\ address \in [Registrations -> Addresses]
    /\ progress \in [Registrations -> {"new", "absent", "inserted",
                                       "committed", "refused", "failed", "lost"}]

AccountInit ==
    /\ Init
    /\ address \in [Registrations -> Addresses]
    /\ progress = [p \in Registrations |-> "new"]

-----------------------------------------------------------------------------

\* Whether another registration has its user in the table, committed or not yet.
Rival(p, places) ==
    \E q \in Registrations \ {p} : address[q] = address[p] /\ progress[q] \in places

MoveTo(p, place) ==
    /\ progress' = [progress EXCEPT ![p] = place]
    /\ UNCHANGED <<vars, address>>

\* get_by_email finds committed users only; what it finds is refused with an answer.
LookUp(p) ==
    /\ progress[p] = "new"
    /\ MoveTo(p, IF Rival(p, {"committed"}) THEN "refused" ELSE "absent")

\* Slips: the column without its index, and an index that does not wait for the other
\* transaction to end.
UnindexedInsert(p) ==
    /\ progress[p] = "absent"
    /\ MoveTo(p, "inserted")
ImpatientInsert(p) ==
    /\ progress[p] = "absent"
    /\ MoveTo(p, IF Rival(p, {"inserted", "committed"}) THEN "failed" ELSE "inserted")

\* The INSERT waits for a transaction that has inserted the address, and violates the
\* index if that commits: IntegrityError, which is answered as an internal error.
Insert(p) ==
    /\ progress[p] = "absent"
    /\ ~Rival(p, {"inserted"})
    /\ MoveTo(p, IF Rival(p, {"committed"}) THEN "failed" ELSE "inserted")

CommitUser(p) ==
    /\ progress[p] = "inserted"
    /\ MoveTo(p, "committed")

Abandon(p) ==
    /\ progress[p] \in {"absent", "inserted"}
    /\ "request" \in Troubles
    /\ MoveTo(p, "lost")

Register(p) == LookUp(p) \/ Insert(p) \/ CommitUser(p) \/ Abandon(p)

\* A login without a user is refused and leaves nothing.
LoginOfUser(r) ==
    /\ \E p \in Registrations : progress[p] = "committed"
    /\ Login(r)

AccountNext ==
    \/ \E p \in Registrations : Register(p)
    \/ /\ \E r \in Requests :
              \/ LoginOfUser(r)
              \/ Refresh(r)
              \/ Logout(r)
              \/ Revoke(r)
              \/ Issue(r)
              \/ Commit(r)
              \/ RollBack(r)
              \/ Expire(r)
       /\ UNCHANGED accounts

AccountSpec == AccountInit /\ [][AccountNext]_accountVars

-----------------------------------------------------------------------------

\* Of the registrations of one address at most one gets it, and no other is turned
\* away, as refused or with an error, unless one has got it: two that overlap do not
\* lose the address between them, whichever of them dies.
OneRegistrationWins ==
    /\ \A p, q \in Registrations :
          progress[p] = "committed" /\ progress[q] = "committed" /\ address[p] = address[q] => p = q
    /\ \A p \in Registrations :
          progress[p] \in {"refused", "failed"} => Rival(p, {"committed"})
=============================================================================
