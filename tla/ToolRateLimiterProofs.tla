----------------------- MODULE ToolRateLimiterProofs -----------------------
(***************************************************************************)
(* The rate limiter's two bounds, for any number of checks, any limit, any *)
(* window and any stall shorter than the window.                           *)
(***************************************************************************)
EXTENDS ToolRateLimiter, FiniteSetTheorems, TLAPS

\* Clocks are read before transactions run, and not longer ago than a stall.
ClocksOrdered ==
    /\ \A c \in Ran : now[c] <= at[c] /\ at[c] <= now[c] + MaxStall /\ at[c] <= clock
    /\ \A c \in Checks : phase[c] = "sent" => now[c] <= clock /\ clock <= now[c] + MaxStall

\* An admitted call is still counted as long as it can share a period with a
\* call of the present, and the key outlives it.
RecentCounted ==
    /\ \A c \in Admitted : clock + MaxStall < at[c] + Window => c \in members
    /\ \A c \in members : at[c] + Window <= expiry

LimiterInv == TypeOK /\ ClocksOrdered /\ RecentCounted

-----------------------------------------------------------------------------

LEMMA TypeInit == Init => TypeOK
BY LimiterAssumption DEF Init, TypeOK, Ran, Phases

LEMMA TypeStep == TypeOK /\ [Next]_vars => TypeOK'
<1>. SUFFICES ASSUME TypeOK, [Next]_vars PROVE TypeOK'
  OBVIOUS
<1>. USE LimiterAssumption
<1>1. ASSUME NEW c \in Checks, Send(c) PROVE TypeOK'
  <2>1. Ran' = Ran
    BY <1>1 DEF Send, TypeOK, Ran
  <2>2. QED
    BY <1>1, <2>1 DEF Send, TypeOK, Phases
<1>2. ASSUME NEW c \in Checks, Execute(c) \/ FailOpen(c) PROVE TypeOK'
  <2>1. phase' \in [Checks -> Phases] /\ at' \in [Checks -> 0..Lifetime]
    BY <1>2 DEF Execute, FailOpen, TypeOK, Phases
  <2>2. Ran' = Ran \cup {c}
    BY <1>2 DEF Execute, FailOpen, TypeOK, Ran
  <2>3. members' \subseteq Ran' /\ expiry' \in 0..(Lifetime + KeyTTL)
    BY <1>2, <2>2 DEF Execute, FailOpen, Record, Recent, TypeOK
  <2>4. QED
    BY <1>2, <2>1, <2>3 DEF Execute, FailOpen, TypeOK
<1>3. CASE Tick
  <2>1. Ran' = Ran
    BY <1>3 DEF Tick, Ran
  <2>2. QED
    BY <1>3, <2>1 DEF Tick, TypeOK
<1>4. CASE UNCHANGED vars
  BY <1>4 DEF vars, TypeOK, Ran
<1>5. QED
  BY <1>1, <1>2, <1>3, <1>4 DEF Next

\* Every member of the sorted set is a check that has run, and every value
\* stays in its range.
THEOREM LimiterTypeCorrect == Spec => []TypeOK
BY TypeInit, TypeStep, PTL DEF Spec

-----------------------------------------------------------------------------

LEMMA ClocksStep == LimiterInv /\ [Next]_vars => ClocksOrdered'
<1>. SUFFICES ASSUME LimiterInv, [Next]_vars PROVE ClocksOrdered'
  OBVIOUS
<1>. USE LimiterAssumption DEF LimiterInv
<1>1. ASSUME NEW c \in Checks, Send(c) PROVE ClocksOrdered'
  BY <1>1 DEF Send, TypeOK, Ran, ClocksOrdered
<1>2. ASSUME NEW c \in Checks, Execute(c) \/ FailOpen(c) PROVE ClocksOrdered'
  <2>1. /\ phase[c] = "sent" /\ phase'[c] # "sent" /\ at'[c] = clock
        /\ \A d \in Checks \ {c} : phase'[d] = phase[d] /\ at'[d] = at[d]
        /\ UNCHANGED <<clock, now>>
    BY <1>2 DEF Execute, FailOpen, TypeOK
  <2>2. QED
    BY <2>1 DEF TypeOK, Ran, ClocksOrdered
<1>3. CASE Tick
  BY <1>3 DEF Tick, TypeOK, Ran, ClocksOrdered
<1>4. CASE UNCHANGED vars
  BY <1>4 DEF vars, Ran, ClocksOrdered
<1>5. QED
  BY <1>1, <1>2, <1>3, <1>4 DEF Next

LEMMA CountedStep == LimiterInv /\ [Next]_vars => RecentCounted'
<1>. SUFFICES ASSUME LimiterInv, [Next]_vars PROVE RecentCounted'
  OBVIOUS
<1>. USE LimiterAssumption DEF LimiterInv
<1>0. Admitted \subseteq Ran /\ members \subseteq Ran
  BY DEF Admitted, Ran, TypeOK
<1>1. ASSUME NEW c \in Checks, Send(c) PROVE RecentCounted'
  BY <1>1 DEF Send, TypeOK, Admitted, RecentCounted
<1>2. ASSUME NEW c \in Checks, Record(c), phase[c] = "sent", at' = [at EXCEPT ![c] = clock],
             UNCHANGED <<clock, now>>, Admitted' \subseteq Admitted \cup {c}
      PROVE  RecentCounted'
  <2>1. c \in members' /\ at'[c] = clock /\ expiry' = clock + KeyTTL
    BY <1>2 DEF Record, TypeOK
  <2>2. ASSUME NEW d \in Ran, clock + MaxStall < at[d] + Window PROVE now[d] + Window > now[c]
    BY <1>2, <2>2 DEF ClocksOrdered, TypeOK, Ran
  <2>3. c \notin Ran
    BY <1>2 DEF Ran
  <2>4. \A d \in Ran : at'[d] = at[d] /\ at[d] <= clock
    BY <1>2, <2>3 DEF TypeOK, ClocksOrdered, Ran
  <2>5. \A d \in Admitted' : clock' + MaxStall < at'[d] + Window => d \in members'
    BY <1>0, <1>2, <2>1, <2>2, <2>4 DEF Record, Recent, RecentCounted
  <2>6. \A d \in members' : at'[d] + Window <= expiry'
    BY <1>0, <1>2, <2>1, <2>4 DEF Record, Recent, TypeOK, Ran
  <2>7. QED
    BY <2>5, <2>6 DEF RecentCounted
<1>3. ASSUME NEW c \in Checks, Execute(c) PROVE RecentCounted'
  <2>1. Admitted' \subseteq Admitted \cup {c}
    BY <1>3 DEF Execute, TypeOK, Admitted
  <2>2. QED
    BY <1>2, <1>3, <2>1 DEF Execute
<1>4. ASSUME NEW c \in Checks, FailOpen(c) PROVE RecentCounted'
  <2>1. Admitted' = Admitted /\ c \notin Ran
    BY <1>4 DEF FailOpen, TypeOK, Admitted, Ran
  <2>2. CASE Record(c)
    BY <1>2, <1>4, <2>1, <2>2 DEF FailOpen
  <2>3. CASE UNCHANGED <<members, expiry>>
    <3>1. \A d \in Ran : at'[d] = at[d]
      BY <1>4, <2>1 DEF FailOpen, TypeOK, Ran
    <3>2. QED
      BY <1>0, <1>4, <2>1, <2>3, <3>1 DEF FailOpen, RecentCounted
  <2>4. QED
    BY <1>4, <2>2, <2>3 DEF FailOpen
<1>5. CASE Tick
  <2>1. UNCHANGED <<Admitted, at, expiry>> /\ clock' = clock + 1
    BY <1>5 DEF Tick, Admitted
  <2>2. ASSUME NEW d \in Admitted, clock + 1 + MaxStall < at[d] + Window PROVE d \in members'
    <3>1. clock + MaxStall < at[d] + Window
      BY <1>0, <2>2 DEF TypeOK, Ran
    <3>2. d \in members /\ at[d] + Window <= expiry
      BY <3>1 DEF RecentCounted
    <3>3. ~(clock' >= expiry)
      BY <1>0, <2>1, <2>2, <3>2 DEF TypeOK, Ran
    <3>4. QED
      BY <1>5, <3>2, <3>3 DEF Tick
  <2>3. members' \subseteq members
    BY <1>5 DEF Tick
  <2>4. QED
    BY <2>1, <2>2, <2>3 DEF RecentCounted
<1>6. CASE UNCHANGED vars
  BY <1>6 DEF vars, Admitted, RecentCounted
<1>7. QED
  BY <1>1, <1>3, <1>4, <1>5, <1>6 DEF Next

LEMMA LimiterInvariant == Spec => []LimiterInv
<1>1. Init => LimiterInv
  BY TypeInit DEF Init, LimiterInv, ClocksOrdered, RecentCounted, Ran, Admitted
<1>2. LimiterInv /\ [Next]_vars => LimiterInv'
  BY TypeStep, ClocksStep, CountedStep DEF LimiterInv
<1>3. QED
  BY <1>1, <1>2, PTL DEF Spec

-----------------------------------------------------------------------------

LEMMA ChecksAreFinite == \A S \in SUBSET Checks : IsFiniteSet(S) /\ Cardinality(S) \in Nat
BY ChecksAssumption, FS_Subset, FS_CardinalityType

\* What an admitted call finds in the sorted set bounds the period it closes.
LEMMA AdmissionStep ==
    ASSUME LimiterInv, SlidingWindow, NEW k \in Checks, Execute(k), phase'[k] = "admitted"
    PROVE  SlidingWindow'
<1>. USE LimiterAssumption DEF LimiterInv
<1>1. /\ k \notin Ran /\ phase[k] = "sent" /\ now[k] <= clock
      /\ at'[k] = clock
      /\ \A d \in Admitted : at'[d] = at[d] /\ at[d] <= clock
      /\ Admitted' = Admitted \cup {k}
  BY DEF Execute, TypeOK, ClocksOrdered, Admitted, Ran
<1>2. Admitted \subseteq Checks /\ Recent(k) \subseteq Checks
  BY DEF Admitted, Recent, TypeOK, Ran
<1>3. Cardinality(Recent(k)) < Limit /\ Cardinality(Recent(k) \cup {k}) <= Limit
  <2>1. Cardinality(Recent(k)) < Limit
    BY <1>2, ChecksAreFinite DEF Execute, TypeOK
  <2>2. Cardinality(Recent(k) \cup {k}) <= Cardinality(Recent(k)) + 1
    BY <1>2, ChecksAreFinite, FS_AddElement
  <2>3. QED
    BY <1>2, <2>1, <2>2, ChecksAreFinite
<1>4. ASSUME NEW c \in Admitted' PROVE Cardinality(AdmittedWithin(c)') <= Limit
  <2>1. CASE c # k /\ at[c] < clock
    <3>1. AdmittedWithin(c)' = AdmittedWithin(c)
      BY <1>1, <1>2, <1>4, <2>1 DEF AdmittedWithin, Execute, TypeOK
    <3>2. QED
      BY <1>1, <1>4, <2>1, <3>1 DEF SlidingWindow
  <2>2. CASE c = k \/ at[c] = clock
    <3>1. at'[c] = clock
      BY <1>1, <1>4, <2>2
    <3>2. ASSUME NEW d \in AdmittedWithin(c)', d # k PROVE d \in Recent(k)
      <4>1. d \in Admitted /\ clock + MaxStall < at[d] + Window
        BY <1>1, <3>1, <3>2 DEF AdmittedWithin, Execute
      <4>2. d \in members
        BY <4>1 DEF RecentCounted
      <4>3. d \in Ran /\ at[d] <= now[d] + MaxStall
        BY <4>1 DEF Admitted, Ran, ClocksOrdered
      <4>4. QED
        BY <1>1, <4>1, <4>2, <4>3 DEF Recent, TypeOK, Ran
    <3>3. AdmittedWithin(c)' \subseteq Recent(k) \cup {k}
      BY <3>2
    <3>4. Cardinality(AdmittedWithin(c)') <= Cardinality(Recent(k) \cup {k})
      BY <1>2, <3>3, ChecksAreFinite, FS_Subset
    <3>5. Cardinality(AdmittedWithin(c)') \in Nat /\ Cardinality(Recent(k) \cup {k}) \in Nat
      BY <1>2, <3>3, ChecksAreFinite
    <3>6. QED
      BY <1>3, <3>4, <3>5
  <2>3. QED
    BY <1>1, <1>4, <2>1, <2>2 DEF TypeOK, Admitted
<1>5. QED
  BY <1>4 DEF SlidingWindow

LEMMA WindowStep == LimiterInv /\ SlidingWindow /\ [Next]_vars => SlidingWindow'
<1>. SUFFICES ASSUME LimiterInv, SlidingWindow, [Next]_vars PROVE SlidingWindow'
  OBVIOUS
<1>1. CASE \E k \in Checks : Execute(k) /\ phase'[k] = "admitted"
  BY <1>1, AdmissionStep
<1>2. CASE ~ \E k \in Checks : Execute(k) /\ phase'[k] = "admitted"
  <2>1. Admitted' = Admitted /\ \A d \in Admitted : at'[d] = at[d]
    <3>1. ASSUME NEW k \in Checks, Send(k) \/ Execute(k) \/ FailOpen(k)
          PROVE  Admitted' = Admitted /\ \A d \in Admitted : at'[d] = at[d]
      BY <1>2, <3>1 DEF Send, Execute, FailOpen, Admitted, LimiterInv, TypeOK
    <3>2. QED
      BY <3>1 DEF Next, Tick, vars, Admitted
  <2>2. \A c \in Admitted : AdmittedWithin(c)' = AdmittedWithin(c)
    BY <2>1 DEF AdmittedWithin
  <2>3. QED
    BY <2>1, <2>2 DEF SlidingWindow
<1>3. QED
  BY <1>1, <1>2

\* However transactions are delayed and reordered, no period shorter than the
\* window by the longest stall contains more than Limit admitted calls.
THEOREM WindowAlwaysSlides == Spec => []SlidingWindow
<1>1. Init => SlidingWindow
  BY DEF Init, SlidingWindow, Admitted
<1>2. QED
  BY <1>1, WindowStep, LimiterInvariant, PTL DEF Spec

-----------------------------------------------------------------------------

LEMMA LoadStep == LimiterInv /\ RejectedOnlyUnderLoad /\ [Next]_vars => RejectedOnlyUnderLoad'
<1>. SUFFICES ASSUME LimiterInv, RejectedOnlyUnderLoad, [Next]_vars, NEW c \in Rejected'
              PROVE  Cardinality(MadeBefore(c)') >= Limit
  BY DEF RejectedOnlyUnderLoad
<1>. USE LimiterAssumption DEF LimiterInv
<1>0. c \in Checks /\ MadeBefore(c)' \subseteq Checks
  BY DEF Rejected, MadeBefore, Ran
<1>1. CASE c \in Rejected
  <2>1. Ran \subseteq Ran' /\ \A d \in Ran : at'[d] = at[d]
    <3>1. ASSUME NEW k \in Checks, Send(k) \/ Execute(k) \/ FailOpen(k)
          PROVE  Ran \subseteq Ran' /\ \A d \in Ran : at'[d] = at[d]
      BY <3>1 DEF Send, Execute, FailOpen, Ran, TypeOK
    <3>2. QED
      BY <3>1 DEF Next, Tick, vars, Ran
  <2>2. c \in Ran
    BY <1>1 DEF Rejected, Ran
  <2>3. MadeBefore(c) \subseteq MadeBefore(c)'
    BY <2>1, <2>2 DEF MadeBefore
  <2>4. Cardinality(MadeBefore(c)) <= Cardinality(MadeBefore(c)')
    BY <1>0, <2>3, ChecksAreFinite, FS_Subset
  <2>5. MadeBefore(c) \subseteq Checks
    BY DEF MadeBefore, Ran
  <2>6. QED
    BY <1>0, <1>1, <2>4, <2>5, ChecksAreFinite DEF RejectedOnlyUnderLoad
<1>2. CASE c \notin Rejected
  <2>1. Execute(c)
    BY <1>2 DEF Next, Send, Execute, FailOpen, Tick, vars, Rejected, TypeOK
  <2>2. /\ at'[c] = clock /\ clock <= now[c] + MaxStall /\ c \notin Ran
        /\ \A d \in Ran : d \in Ran' /\ at'[d] = at[d]
    <3>1. at'[c] = clock /\ clock <= now[c] + MaxStall /\ c \notin Ran
      BY <1>0, <2>1 DEF Execute, TypeOK, Ran, ClocksOrdered
    <3>2. ASSUME NEW d \in Ran PROVE d \in Ran' /\ at'[d] = at[d]
      BY <1>0, <2>1, <3>1 DEF Execute, TypeOK, Ran
    <3>3. QED
      BY <3>1, <3>2
  <2>3. Recent(c) \subseteq MadeBefore(c)'
    <3>1. ASSUME NEW m \in Recent(c) PROVE m \in MadeBefore(c)'
      <4>1. /\ m \in Ran /\ now[m] + Window > now[c]
            /\ now[m] <= at[m] /\ at[m] <= clock
        BY DEF Recent, TypeOK, ClocksOrdered
      <4>2. clock < at[m] + Window + MaxStall
        BY <1>0, <2>2, <4>1 DEF TypeOK, Ran
      <4>3. QED
        BY <2>2, <4>1, <4>2 DEF MadeBefore
    <3>2. QED
      BY <3>1
  <2>4. Cardinality(Recent(c)) <= Cardinality(MadeBefore(c)')
    BY <1>0, <2>3, ChecksAreFinite, FS_Subset
  <2>5. Cardinality(Recent(c)) >= Limit
    BY <1>0, <2>1 DEF Execute, Rejected, TypeOK
  <2>6. QED
    BY <1>0, <2>3, <2>4, <2>5, ChecksAreFinite
<1>3. QED
  BY <1>1, <1>2

\* A rejected call was preceded, within a window and a stall, by Limit others.
THEOREM RejectionsNeedLoad == Spec => []RejectedOnlyUnderLoad
<1>1. Init => RejectedOnlyUnderLoad
  BY DEF Init, RejectedOnlyUnderLoad, Rejected
<1>2. QED
  BY <1>1, LoadStep, LimiterInvariant, PTL DEF Spec
=============================================================================
