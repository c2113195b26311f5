----------------------------- MODULE NestedData -----------------------------
(***************************************************************************)
(* Recursion over nested data.  Layer is what a recursive function returns *)
(* for a value, given what it returns for the parts of that value; the     *)
(* theorem is that on values that nest finitely there is such a function.  *)
(***************************************************************************)
EXTENDS TLAPS

CONSTANTS
    Parts(_),       \* the values directly inside a value
    Layer(_, _)     \* Layer(f, v): the result for v, f giving those for its parts

Closed(S) == \A v \in S : Parts(v) \subseteq S

\* Every set of values has one that contains none of them.
Founded(S) == \A T \in SUBSET S : T # {} => \E v \in T : Parts(v) \cap T = {}

UsesParts(S) ==
    \A v \in S : \A f, g : (\A w \in Parts(v) : f[w] = g[w]) => Layer(f, v) = Layer(g, v)

Solves(f, D) == f = [v \in D |-> Layer(f, v)]

Recursion(S) == CHOOSE f : f = [v \in S |-> Layer(f, v)]

-----------------------------------------------------------------------------

\* Two functions that recur in the same way return the same.
LEMMA SolutionsAgree ==
    ASSUME NEW S, Founded(S), UsesParts(S),
           NEW C \in SUBSET S, Closed(C), NEW f, Solves(f, C),
           NEW D \in SUBSET S, Closed(D), NEW g, Solves(g, D)
    PROVE  \A v \in C \cap D : f[v] = g[v]
<1>. DEFINE T == {v \in C \cap D : f[v] # g[v]}
<1>. SUFFICES ASSUME T # {} PROVE FALSE
  OBVIOUS
<1>1. PICK v \in T : Parts(v) \cap T = {}
  BY DEF Founded
<1>2. \A w \in Parts(v) : f[w] = g[w]
  BY <1>1 DEF Closed
<1>3. f[v] = Layer(f, v) /\ g[v] = Layer(g, v)
  BY DEF Solves
<1>4. Layer(f, v) = Layer(g, v)
  BY <1>2 DEF UsesParts
<1>5. QED
  BY <1>3, <1>4

\* The recursive function exists: it is put together from functions that are defined
\* on less, and no value is left over.
THEOREM RecursionDefined ==
    ASSUME NEW S, Closed(S), Founded(S), UsesParts(S)
    PROVE  Recursion(S) = [v \in S |-> Layer(Recursion(S), v)]
<1>. DEFINE Reaches(f, v) == \E D \in SUBSET S : Closed(D) /\ v \in D /\ Solves(f, D)
            Solution(v) == CHOOSE f : Reaches(f, v)
            H == {v \in S : \E f : Reaches(f, v)}
            G == [v \in H |-> Solution(v)[v]]
<1>1. ASSUME NEW v \in H
      PROVE  \E D \in SUBSET H : Closed(D) /\ v \in D /\ Solves(Solution(v), D)
  <2>1. Reaches(Solution(v), v)
    OBVIOUS
  <2>2. PICK D \in SUBSET S : Closed(D) /\ v \in D /\ Solves(Solution(v), D)
    BY <2>1
  <2>3. D \subseteq H
    BY <2>2
  <2>4. QED
    BY <2>2, <2>3
<1>2. Closed(H)
  BY <1>1 DEF Closed
<1>3. Solves(G, H)
  <2>1. ASSUME NEW v \in H PROVE G[v] = Layer(G, v)
    <3>1. PICK D \in SUBSET H : Closed(D) /\ v \in D /\ Solves(Solution(v), D)
      BY <1>1
    <3>2. ASSUME NEW w \in Parts(v) PROVE w \in H /\ G[w] = Solution(v)[w]
      <4>1. w \in D /\ w \in H
        BY <3>1 DEF Closed
      <4>2. PICK E \in SUBSET H : Closed(E) /\ w \in E /\ Solves(Solution(w), E)
        BY <1>1, <4>1
      <4>3. D \in SUBSET S /\ E \in SUBSET S
        OBVIOUS
      <4>. HIDE DEF H, Solution
      <4>4. Solution(w)[w] = Solution(v)[w]
        BY <3>1, <4>1, <4>2, <4>3, SolutionsAgree
      <4>5. QED
        BY <4>1, <4>4
    <3>3. Layer(G, v) = Layer(Solution(v), v)
      BY <3>2 DEF UsesParts
    <3>4. Solution(v)[v] = Layer(Solution(v), v)
      BY <3>1 DEF Solves
    <3>5. QED
      BY <3>3, <3>4
  <2>2. QED
    BY <2>1 DEF Solves
<1>4. H = S
  <2>. SUFFICES ASSUME S \ H # {} PROVE FALSE
    OBVIOUS
  <2>1. PICK v \in S \ H : Parts(v) \cap (S \ H) = {}
    BY DEF Founded
  <2>2. Parts(v) \subseteq H
    BY <2>1 DEF Closed
  <2>. DEFINE E == H \cup {v}
              g == [w \in E |-> Layer(G, w)]
  <2>3. Closed(E) /\ E \in SUBSET S
    BY <1>2, <2>2 DEF Closed
  <2>4. \A w \in H : g[w] = G[w]
    <3>. HIDE DEF G
    <3>1. QED
      BY <1>3 DEF Solves
  <2>5. ASSUME NEW w \in E PROVE g[w] = Layer(g, w)
    <3>1. \A u \in Parts(w) : g[u] = G[u]
      BY <1>2, <2>2, <2>4 DEF Closed
    <3>. HIDE DEF g, G
    <3>2. Layer(g, w) = Layer(G, w)
      BY <2>3, <3>1 DEF UsesParts
    <3>3. QED
      BY <3>2 DEF g
  <2>6. Solves(g, E)
    BY <2>5 DEF Solves
  <2>7. Reaches(g, v)
    BY <2>3, <2>6
  <2>8. QED
    BY <2>7
<1>5. G = [v \in S |-> Layer(G, v)]
  <2>. HIDE DEF G, H
  <2>1. QED
    BY <1>3, <1>4 DEF Solves
<1>6. QED
  <2>. HIDE DEF G
  <2>1. QED
    BY <1>5 DEF Recursion
=============================================================================
