--------------------------- MODULE Feedback_proofs ---------------------------
(***************************************************************************)
(* Theorems about the threads of TrafficWarden under a broker that returns *)
(* what they publish: what circulates dies out.                            *)
(*                                                                         *)
(* Every delivery that has not come back yet is owed the visits that its   *)
(* output will cause.  What a message is granted when somebody else        *)
(* publishes it pays for its own arrival and for what its routes owe, and  *)
(* what a delivery is owed pays for its return.  The sums are those of the *)
(* module Functions; what they do when a value changes or is added comes   *)
(* first, by induction on finite sets.                                     *)
(***************************************************************************)
EXTENDS Feedback, FiniteSetTheorems, WellFoundedInduction, TLAPS

PipelineFacts == INSTANCE TrafficWardenRelay_proofs

-----------------------------------------------------------------------------
(* Induction over the numbers, for a set of them.                          *)
LEMMA NatSetInduction ==
    ASSUME NEW P, 0 \in P, \A n \in Nat : n \in P => n + 1 \in P
    PROVE  Nat \subseteq P
<1> SUFFICES ASSUME Nat \ P # {} PROVE FALSE
  OBVIOUS
<1>1. PICK x \in Nat \ P : \A y \in Nat \ P : ~(<<y, x>> \in OpToRel(<, Nat))
  BY NatLessThanWellFounded, WFMin, Zenon
<1>2. x # 0
  BY <1>1
<1>3. x - 1 \in Nat /\ x - 1 < x /\ x - 1 + 1 = x
  BY <1>2
<1>4. <<x - 1, x>> \in OpToRel(<, Nat)
  BY <1>1, <1>3 DEF OpToRel
<1>5. x - 1 \in P
  BY <1>1, <1>3, <1>4, Zenon
<1> QED BY <1>3, <1>5

(* Induction over the subsets of a finite set: what holds of a set when it *)
(* holds of the set without any one of its elements.                       *)
LEMMA SubsetInduction ==
    ASSUME NEW S, IsFiniteSet(S), NEW F,
           \A s \in SUBSET S : (\A x \in s : s \ {x} \in F) => s \in F
    PROVE  SUBSET S \subseteq F
<1> DEFINE P == {n \in Nat : \A s \in SUBSET S : Cardinality(s) = n => s \in F}
<1>1. \A s \in SUBSET S : IsFiniteSet(s) /\ Cardinality(s) \in Nat
  BY FS_Subset, FS_CardinalityType
<1>2. 0 \in P
  <2> SUFFICES ASSUME NEW s \in SUBSET S, Cardinality(s) = 0 PROVE s \in F
    OBVIOUS
  <2>1. s = {}
    BY <1>1, FS_EmptySet
  <2> QED BY <2>1
<1>3. ASSUME NEW n \in Nat, n \in P
      PROVE  n + 1 \in P
  <2> SUFFICES ASSUME NEW s \in SUBSET S, Cardinality(s) = n + 1 PROVE s \in F
    OBVIOUS
  <2>1. ASSUME NEW x \in s PROVE s \ {x} \in F
    <3>1. Cardinality(s \ {x}) = n
      BY <1>1, FS_RemoveElement
    <3> QED BY <1>3, <3>1
  <2> QED BY <2>1
<1> HIDE DEF P
<1>4. Nat \subseteq P
  BY <1>2, <1>3, NatSetInduction
<1> QED BY <1>1, <1>4 DEF P

(* What a sum is by its definition: the function that adds the elements of *)
(* a set one by one, in the order of some choice.                          *)
Some(s) == CHOOSE x \in s : TRUE
IsSumOn(g, f, S) ==
    g = [s \in SUBSET S |->
            IF s = {} THEN 0 ELSE f[Some(s)] + g[s \ {Some(s)}]]

(* The module's fold is that function.                                     *)
LEMMA SumUnfolds ==
    ASSUME NEW f, NEW S
    PROVE  SumFunctionOnSet(f, S) = (CHOOSE g : IsSumOn(g, f, S))[S]
  BY DEF SumFunctionOnSet, FoldFunctionOnSet, MapThenFoldSet, IsSumOn, Some

(* The function exists: it is made for sets of one element more at a time. *)
LEMMA SumExists ==
    ASSUME NEW f, NEW S, IsFiniteSet(S)
    PROVE  \E g : IsSumOn(g, f, S)
<1> DEFINE Step(g) == [s \in SUBSET S |->
                          IF s = {} THEN 0 ELSE f[Some(s)] + g[s \ {Some(s)}]]
           UpTo(n) == {s \in SUBSET S : Cardinality(s) <= n}
           P == {n \in Nat : \E g : \A s \in UpTo(n) : g[s] = Step(g)[s]}
<1>0. \A s \in SUBSET S : s # {} => Some(s) \in s
  BY DEF Some
<1>1. \A s \in SUBSET S : IsFiniteSet(s) /\ Cardinality(s) \in Nat
  BY FS_Subset, FS_CardinalityType
<1>2. 0 \in P
  <2>1. \A s \in UpTo(0) : s = {}
    BY <1>1, FS_EmptySet
  <2> DEFINE zero == [s \in SUBSET S |-> 0]
  <2>2. \A s \in UpTo(0) : zero[s] = Step(zero)[s]
    BY <2>1
  <2> QED BY <2>2
<1>3. ASSUME NEW n \in Nat, n \in P
      PROVE  n + 1 \in P
  <2>1. PICK g : \A s \in UpTo(n) : g[s] = Step(g)[s]
    BY <1>3
  <2> DEFINE h == Step(g)
  <2>2. ASSUME NEW s \in UpTo(n + 1), s # {}
        PROVE  h[s \ {Some(s)}] = g[s \ {Some(s)}]
    <3>1. s \ {Some(s)} \in UpTo(n)
      <4>1. Some(s) \in s /\ IsFiniteSet(s) /\ Cardinality(s) \in Nat
        BY <1>0, <1>1, <2>2
      <4>2. Cardinality(s \ {Some(s)}) = Cardinality(s) - 1
        BY <4>1, FS_RemoveElement
      <4> QED BY <4>1, <4>2, <2>2
    <3> HIDE DEF Step, UpTo
    <3> QED BY <2>1, <3>1
  <2>3. ASSUME NEW s \in UpTo(n + 1)
        PROVE  h[s] = Step(h)[s]
    <3>1. CASE s = {}
      BY <3>1
    <3>2. CASE s # {}
      <4>1. h[s] = f[Some(s)] + g[s \ {Some(s)}]
        BY <3>2
      <4>2. Step(h)[s] = f[Some(s)] + h[s \ {Some(s)}]
        BY <3>2
      <4> HIDE DEF h, Step, UpTo
      <4> QED BY <2>2, <2>3, <3>2, <4>1, <4>2
    <3> QED BY <3>1, <3>2
  <2> HIDE DEF h, Step, UpTo
  <2> QED BY <2>3
<1>4. Cardinality(S) \in P
  <2> HIDE DEF P
  <2>1. Nat \subseteq P
    BY <1>2, <1>3, NatSetInduction
  <2> QED BY <1>1, <2>1
<1>5. PICK g : \A s \in UpTo(Cardinality(S)) : g[s] = Step(g)[s]
  BY <1>4
<1>6. \A s \in SUBSET S : g[s] = Step(g)[s]
  <2>1. \A s \in SUBSET S : Cardinality(s) <= Cardinality(S)
    BY FS_Subset
  <2> QED BY <1>5, <2>1
<1> DEFINE sum == [s \in SUBSET S |-> g[s]]
<1>7. \A s \in SUBSET S : sum[s] = IF s = {} THEN 0 ELSE f[Some(s)] + sum[s \ {Some(s)}]
  BY <1>6
<1>8. IsSumOn(sum, f, S)
  BY <1>7 DEF IsSumOn
<1> QED BY <1>8

(* Two such functions agree wherever both are made of the same values.     *)
LEMMA SumsAgree ==
    ASSUME NEW S, IsFiniteSet(S), NEW T,
           NEW f, NEW g, IsSumOn(g, f, S), NEW e, NEW h, IsSumOn(h, e, T),
           NEW s, s \subseteq S, s \subseteq T
    PROVE  (\A x \in s : f[x] = e[x]) => g[s] = h[s]
<1> SUFFICES ASSUME \A x \in s : f[x] = e[x] PROVE g[s] = h[s]
  OBVIOUS
<1> DEFINE F == {r \in SUBSET s : g[r] = h[r]}
<1>1. ASSUME NEW r \in SUBSET s, \A x \in r : r \ {x} \in F
      PROVE  r \in F
  <2>1. r \in SUBSET S /\ r \in SUBSET T
    OBVIOUS
  <2>2. g[r] = IF r = {} THEN 0 ELSE f[Some(r)] + g[r \ {Some(r)}]
    BY <2>1 DEF IsSumOn
  <2>3. h[r] = IF r = {} THEN 0 ELSE e[Some(r)] + h[r \ {Some(r)}]
    BY <2>1 DEF IsSumOn
  <2>4. CASE r = {}
    BY <2>2, <2>3, <2>4
  <2>5. CASE r # {}
    <3>1. Some(r) \in r
      BY <2>5 DEF Some
    <3>2. g[r \ {Some(r)}] = h[r \ {Some(r)}] /\ f[Some(r)] = e[Some(r)]
      BY <1>1, <3>1
    <3> QED BY <2>2, <2>3, <2>5, <3>2
  <2> QED BY <2>4, <2>5
<1>2. IsFiniteSet(s)
  BY FS_Subset
<1> HIDE DEF F
<1>3. s \in F
  BY <1>1, <1>2, SubsetInduction
<1> QED BY <1>3 DEF F

(* The sum over a finite set is the value of such a function.              *)
LEMMA SumIsOn ==
    ASSUME NEW f, NEW S, IsFiniteSet(S)
    PROVE  \E g : IsSumOn(g, f, S) /\ SumFunctionOnSet(f, S) = g[S]
<1>1. \E g : IsSumOn(g, f, S)
  BY SumExists
<1>2. IsSumOn(CHOOSE g : IsSumOn(g, f, S), f, S)
  BY <1>1
<1> QED BY <1>2, SumUnfolds

(* The sum over a set depends on the values there only.                    *)
LEMMA SumAgrees ==
    ASSUME NEW S, IsFiniteSet(S), NEW f, NEW e, \A x \in S : f[x] = e[x]
    PROVE  SumFunctionOnSet(f, S) = SumFunctionOnSet(e, S)
<1>1. PICK g : IsSumOn(g, f, S) /\ SumFunctionOnSet(f, S) = g[S]
  BY SumIsOn
<1>2. PICK h : IsSumOn(h, e, S) /\ SumFunctionOnSet(e, S) = h[S]
  BY SumIsOn
<1>3. g[S] = h[S]
  <2>1. \A s \in SUBSET S : g[s] = h[s]
    BY <1>1, <1>2, SumsAgree
  <2> QED BY <2>1
<1> QED BY <1>1, <1>2, <1>3

(* Nothing adds up to zero.                                                *)
LEMMA SumEmpty ==
    ASSUME NEW f
    PROVE  SumFunctionOnSet(f, {}) = 0
<1>1. PICK g : IsSumOn(g, f, {}) /\ SumFunctionOnSet(f, {}) = g[{}]
  BY SumIsOn, FS_EmptySet
<1>2. g[{}] = 0
  BY <1>1 DEF IsSumOn
<1> QED BY <1>1, <1>2

(* The sum is the chosen element's value and the sum of the rest.          *)
LEMMA SumTakesSome ==
    ASSUME NEW S, IsFiniteSet(S), S # {}, NEW f
    PROVE  SumFunctionOnSet(f, S) = f[Some(S)] + SumFunctionOnSet(f, S \ {Some(S)})
<1> DEFINE R == S \ {Some(S)}
<1>1. PICK g : IsSumOn(g, f, S) /\ SumFunctionOnSet(f, S) = g[S]
  BY SumIsOn
<1>2. IsFiniteSet(R)
  BY FS_Subset
<1>3. PICK h : IsSumOn(h, f, R) /\ SumFunctionOnSet(f, R) = h[R]
  BY <1>2, SumIsOn
<1>4. g[S] = f[Some(S)] + g[R]
  BY <1>1 DEF IsSumOn
<1>5. R \subseteq S /\ R \subseteq R
  OBVIOUS
<1> HIDE DEF R
<1>6. g[R] = h[R]
  BY <1>1, <1>3, <1>5, SumsAgree
<1> QED BY <1>1, <1>3, <1>4, <1>6 DEF R

(* A sum of natural numbers is one.                                        *)
LEMMA SumIsNat ==
    ASSUME NEW S, IsFiniteSet(S), NEW f, \A x \in S : f[x] \in Nat
    PROVE  SumFunctionOnSet(f, S) \in Nat
<1> DEFINE F == {s \in SUBSET S : SumFunctionOnSet(f, s) \in Nat}
<1>1. ASSUME NEW s \in SUBSET S, \A x \in s : s \ {x} \in F
      PROVE  s \in F
  <2>1. CASE s = {}
    BY <2>1, SumEmpty
  <2>2. CASE s # {}
    <3>1. Some(s) \in s /\ IsFiniteSet(s)
      BY <2>2, FS_Subset DEF Some
    <3>2. SumFunctionOnSet(f, s) = f[Some(s)] + SumFunctionOnSet(f, s \ {Some(s)})
      BY <2>2, <3>1, SumTakesSome
    <3>3. SumFunctionOnSet(f, s \ {Some(s)}) \in Nat /\ f[Some(s)] \in Nat
      BY <1>1, <3>1
    <3> QED BY <3>2, <3>3
  <2> QED BY <2>1, <2>2
<1> HIDE DEF F
<1>2. S \in F
  BY <1>1, SubsetInduction
<1> QED BY <1>2 DEF F

(* Any element may be taken first.                                         *)
LEMMA SumTakesAny ==
    ASSUME NEW S, IsFiniteSet(S), NEW f, \A y \in S : f[y] \in Nat, NEW x \in S
    PROVE  SumFunctionOnSet(f, S) = f[x] + SumFunctionOnSet(f, S \ {x})
<1> DEFINE Sum(s) == SumFunctionOnSet(f, s)
           F == {s \in SUBSET S : \A y \in s : Sum(s) = f[y] + Sum(s \ {y})}
<1>1. ASSUME NEW s \in SUBSET S, \A y \in s : s \ {y} \in F
      PROVE  s \in F
  <2> SUFFICES ASSUME NEW y \in s PROVE Sum(s) = f[y] + Sum(s \ {y})
    OBVIOUS
  <2> DEFINE c == Some(s)
             r == (s \ {y}) \ {c}
  <2>1. c \in s /\ IsFiniteSet(s) /\ IsFiniteSet(r)
    <3>1. c \in s
      BY DEF Some
    <3>2. IsFiniteSet(s) /\ IsFiniteSet(r)
      BY FS_Subset
    <3> QED BY <3>1, <3>2
  <2>2. Sum(s) = f[c] + Sum(s \ {c})
    BY <2>1, SumTakesSome
  <2> HIDE DEF c
  <2>3. CASE y = c
    BY <2>2, <2>3
  <2>4. CASE y # c
    <3>1. y \in s \ {c} /\ c \in s \ {y}
      BY <2>1, <2>4
    <3>2. Sum(s \ {c}) = f[y] + Sum((s \ {c}) \ {y})
      BY <1>1, <2>1, <3>1
    <3>3. Sum(s \ {y}) = f[c] + Sum((s \ {y}) \ {c})
      BY <1>1, <3>1
    <3>4. (s \ {c}) \ {y} = r
      OBVIOUS
    <3>5. Sum(r) \in Nat
      BY <2>1, SumIsNat
    <3>6. f[c] \in Nat /\ f[y] \in Nat
      BY <2>1
    <3> HIDE DEF Sum
    <3>7. Sum(s) = f[c] + (f[y] + Sum(r)) /\ Sum(s \ {y}) = f[c] + Sum(r)
      BY <2>2, <3>2, <3>3, <3>4
    <3> QED BY <3>5, <3>6, <3>7
  <2> QED BY <2>3, <2>4
<1> HIDE DEF F
<1>2. S \in F
  BY <1>1, SubsetInduction
<1> QED BY <1>2 DEF F

(* One value changed.                                                      *)
LEMMA SumChanges ==
    ASSUME NEW S, IsFiniteSet(S), NEW f \in [S -> Nat], NEW g \in [S -> Nat], NEW x \in S,
           \A y \in S \ {x} : g[y] = f[y]
    PROVE  SumFunction(g) + f[x] = SumFunction(f) + g[x]
<1> DEFINE r == S \ {x}
<1>1. IsFiniteSet(r)
  BY FS_Subset
<1>2. SumFunctionOnSet(g, r) = SumFunctionOnSet(f, r)
  BY <1>1, SumAgrees
<1>3. SumFunctionOnSet(f, r) \in Nat
  BY <1>1, SumIsNat
<1>4. SumFunctionOnSet(f, S) = f[x] + SumFunctionOnSet(f, r)
  BY SumTakesAny
<1>5. SumFunctionOnSet(g, S) = g[x] + SumFunctionOnSet(g, r)
  BY SumTakesAny
<1>6. f[x] \in Nat /\ g[x] \in Nat
  OBVIOUS
<1>7. SumFunction(f) = SumFunctionOnSet(f, S) /\ SumFunction(g) = SumFunctionOnSet(g, S)
  BY DEF SumFunction
<1> HIDE DEF r
<1> QED BY <1>2, <1>3, <1>4, <1>5, <1>6, <1>7

(* One value more.                                                         *)
LEMMA SumExtends ==
    ASSUME NEW n \in Nat, NEW f \in [1..n -> Nat], NEW g \in [1..(n + 1) -> Nat],
           \A i \in 1..n : g[i] = f[i]
    PROVE  SumFunction(g) = SumFunction(f) + g[n + 1]
<1>1. IsFiniteSet(1..(n + 1)) /\ IsFiniteSet(1..n)
  BY FS_Interval
<1>2. n + 1 \in 1..(n + 1) /\ (1..(n + 1)) \ {n + 1} = 1..n
  OBVIOUS
<1>3. SumFunctionOnSet(g, 1..(n + 1)) = g[n + 1] + SumFunctionOnSet(g, 1..n)
  BY <1>1, <1>2, SumTakesAny
<1>4. SumFunctionOnSet(g, 1..n) = SumFunctionOnSet(f, 1..n)
  BY <1>1, SumAgrees
<1>5. SumFunctionOnSet(f, 1..n) \in Nat
  BY <1>1, SumIsNat
<1>6. g[n + 1] \in Nat
  BY <1>2
<1>7. SumFunction(f) = SumFunctionOnSet(f, 1..n) /\ SumFunction(g) = SumFunctionOnSet(g, 1..(n + 1))
  BY DEF SumFunction
<1> QED BY <1>3, <1>4, <1>5, <1>6, <1>7

-----------------------------------------------------------------------------
(* A transformer's result for a given input is one value, so a chain has   *)
(* one output, or none if a transformer throws.                            *)
LEMMA OneOutput ==
    ASSUME NEW route \in RouteProperties, NEW it, NEW ip,
           NEW a \in ChainOutputs(route, it, ip), NEW b \in ChainOutputs(route, it, ip)
    PROVE  a = b
<1> DEFINE chain == route.streamTransformers
           initial == [topic |-> route.outputTopic, payload |-> ip]
<1>1. chain \in Seq(Transformer)
  BY DEF RouteProperties
<1>2. CASE chain = << >>
  BY <1>2 DEF ChainOutputs
<1>3. CASE chain # << >>
  <2>1. PICK f \in [DOMAIN chain -> Output] :
           IsChainRun(f, chain, it, ip, initial) /\ a = f[Len(chain)]
    BY <1>3 DEF ChainOutputs
  <2>2. PICK g \in [DOMAIN chain -> Output] :
           IsChainRun(g, chain, it, ip, initial) /\ b = g[Len(chain)]
    BY <1>3 DEF ChainOutputs
  <2>3. Len(chain) \in DOMAIN chain /\ DOMAIN chain = 1..Len(chain) /\ Len(chain) \in Nat
    BY <1>1, <1>3
  <2> HIDE DEF chain, initial
  <2> DEFINE P == {i \in Nat : i \in DOMAIN chain => f[i] = g[i]}
  <2>4. 0 \in P
    BY <2>3
  <2>5. ASSUME NEW i \in Nat, i \in P
        PROVE  i + 1 \in P
    <3> SUFFICES ASSUME i + 1 \in DOMAIN chain PROVE f[i + 1] = g[i + 1]
      OBVIOUS
    <3>1. i = 0 \/ i \in DOMAIN chain
      BY <2>3
    <3>2. i + 1 # 1 => i + 1 - 1 = i /\ i \in DOMAIN chain
      BY <2>3
    <3>3. f[i + 1] = Transformed(chain[i + 1], it, ip,
                                 IF i + 1 = 1 THEN initial ELSE f[i + 1 - 1])
      BY <2>1 DEF IsChainRun
    <3>4. g[i + 1] = Transformed(chain[i + 1], it, ip,
                                 IF i + 1 = 1 THEN initial ELSE g[i + 1 - 1])
      BY <2>2 DEF IsChainRun
    <3>5. (IF i + 1 = 1 THEN initial ELSE f[i + 1 - 1])
             = (IF i + 1 = 1 THEN initial ELSE g[i + 1 - 1])
      BY <2>5, <3>2
    <3> QED BY <3>3, <3>4, <3>5
  <2> HIDE DEF P
  <2>6. Len(chain) \in P
    BY <2>3, <2>4, <2>5, NatSetInduction
  <2> QED BY <2>1, <2>2, <2>3, <2>6 DEF P
<1> QED BY <1>2, <1>3

(* The visits along a route are a number, and those of what leaves on it.  *)
LEMMA VisitsOfOutput ==
    ASSUME NEW t \in DOMAIN Routes, NEW p, NEW k \in DOMAIN Routes[t]
    PROVE  /\ VisitsAlong(t, p, k) \in Nat
           /\ \A out \in ChainOutputs(Routes[t][k], t, p) :
                 VisitsOf(out.topic) = VisitsAlong(t, p, k)
<1> DEFINE outputs == ChainOutputs(Routes[t][k], t, p)
<1>1. Routes[t][k] \in RouteProperties
  BY RoutesAssumption
<1>2. \A u : VisitsOf(u) \in Nat
  BY VisitsAssumption DEF VisitsOf
<1>3. \A out \in outputs : out = CHOOSE o \in outputs : TRUE
  BY <1>1, OneOutput
<1> HIDE DEF outputs
<1>4. VisitsAlong(t, p, k)
         = IF outputs = {} THEN 0 ELSE VisitsOf((CHOOSE out \in outputs : TRUE).topic)
  BY DEF VisitsAlong, outputs
<1>5. \A out \in outputs : VisitsOf(out.topic) = VisitsAlong(t, p, k)
  BY <1>3, <1>4
<1>6. VisitsAlong(t, p, k) \in Nat
  BY <1>2, <1>4
<1> QED BY <1>5, <1>6 DEF outputs

-----------------------------------------------------------------------------
(* Delivery n, k is among the first r that were published: it came back.   *)
CameBack(n, k, r) ==
    \E i \in 1..r : published[i].origin = n /\ published[i].route = k

(* What the routes of message n are owed, and all messages together, after *)
(* the return of the first r; what the messages of others were granted.    *)
OwedAlong(n, r) ==
    [k \in DOMAIN Routes[arrived[n].topic] |->
        IF CameBack(n, k, r) THEN 0
        ELSE VisitsAlong(arrived[n].topic, arrived[n].payload, k)]
Owed(r) == [n \in DOMAIN arrived |-> SumFunction(OwedAlong(n, r))]
Granted == [i \in DOMAIN outside |-> Visits[outside[i]]]

PipelineInv == PipelineFacts!IInv /\ PipelineFacts!ContentInv
TopicsInv ==
    /\ outside \in Seq(DOMAIN Routes)
    /\ \A n \in DOMAIN arrived : arrived[n].topic \in DOMAIN Routes
    /\ returned \in 0..Len(published)
IsPaid == Len(arrived) + SumFunction(Owed(returned)) <= SumFunction(Granted)

IInv == PipelineInv /\ TopicsInv /\ IsPaid

-----------------------------------------------------------------------------
(* What is owed is a number for each message and each of its routes.       *)
LEMMA OwedType ==
    ASSUME PipelineInv, TopicsInv, NEW r
    PROVE  /\ \A n \in DOMAIN arrived :
                 /\ IsFiniteSet(DOMAIN Routes[arrived[n].topic])
                 /\ OwedAlong(n, r) \in [DOMAIN Routes[arrived[n].topic] -> Nat]
           /\ Owed(r) \in [1..Len(arrived) -> Nat]
           /\ Len(arrived) \in Nat
           /\ SumFunction(Owed(r)) \in Nat
<1>1. arrived \in Seq([topic: Topic, payload: Payload])
  BY DEF PipelineInv, PipelineFacts!IInv, PipelineFacts!TypeOK
<1>2. ASSUME NEW n \in DOMAIN arrived
      PROVE  /\ IsFiniteSet(DOMAIN Routes[arrived[n].topic])
             /\ OwedAlong(n, r) \in [DOMAIN Routes[arrived[n].topic] -> Nat]
             /\ SumFunction(OwedAlong(n, r)) \in Nat
  <2> DEFINE t == arrived[n].topic
  <2>1. t \in DOMAIN Routes
    BY DEF TopicsInv
  <2>2. Routes[t] \in Seq(RouteProperties)
    BY <2>1, RoutesAssumption
  <2>3. IsFiniteSet(DOMAIN Routes[t])
    <3>1. DOMAIN Routes[t] = 1..Len(Routes[t]) /\ Len(Routes[t]) \in Nat
      BY <2>2
    <3> QED BY <3>1, FS_Interval
  <2>4. OwedAlong(n, r) \in [DOMAIN Routes[t] -> Nat]
    BY <2>1, VisitsOfOutput DEF OwedAlong
  <2> HIDE DEF t
  <2>5. SumFunction(OwedAlong(n, r)) \in Nat
    BY <2>3, <2>4, SumIsNat DEF SumFunction
  <2> QED BY <2>3, <2>4, <2>5 DEF t
<1>3. DOMAIN arrived = 1..Len(arrived) /\ Len(arrived) \in Nat
  BY <1>1
<1>4. Owed(r) \in [1..Len(arrived) -> Nat]
  BY <1>2, <1>3 DEF Owed
<1>5. SumFunction(Owed(r)) \in Nat
  <2>1. IsFiniteSet(1..Len(arrived))
    BY <1>3, FS_Interval
  <2> QED BY <1>4, <2>1, SumIsNat DEF SumFunction
<1> QED BY <1>2, <1>3, <1>4, <1>5

(* What is published is a delivery of a message that has arrived, with the *)
(* output of its chain, and it is published once.                          *)
LEMMA PublishedOnce ==
    ASSUME PipelineInv, TopicsInv, NEW i \in DOMAIN published
    PROVE  LET n == published[i].origin
               k == published[i].route
               t == arrived[n].topic
           IN  /\ n \in DOMAIN arrived /\ t \in DOMAIN Routes /\ k \in DOMAIN Routes[t]
               /\ VisitsOf(published[i].topic) = VisitsAlong(t, arrived[n].payload, k)
               /\ ~CameBack(n, k, i - 1)
<1> DEFINE p == published[i]
           n == p.origin
           k == p.route
           t == arrived[n].topic
<1>1. PipelineFacts!IInv /\ PipelineFacts!TypeOK /\ PipelineFacts!ContentInv
  BY DEF PipelineInv, PipelineFacts!IInv
<1>2. published \in Seq(PipelineFacts!OutgoingItem) /\ p \in PipelineFacts!OutgoingItem
  BY <1>1, PipelineFacts!ItemOf DEF PipelineFacts!TypeOK
<1>3. i \in Nat /\ n \in Nat /\ k \in Nat
  BY <1>2 DEF PipelineFacts!OutgoingItem
<1>4. \A h \in DOMAIN published :
         /\ published[h].origin \in 1..PipelineFacts!Taken
         /\ published[h].from = arrived[published[h].origin].topic
         /\ published[h].route \in DOMAIN PipelineFacts!RoutesOf(published[h].from)
  <2> SUFFICES ASSUME NEW h \in DOMAIN published
               PROVE  /\ published[h].origin \in 1..PipelineFacts!Taken
                      /\ published[h].from = arrived[published[h].origin].topic
                      /\ published[h].route \in DOMAIN PipelineFacts!RoutesOf(published[h].from)
    OBVIOUS
  <2>1. PipelineFacts!TokenOf(published[h]) \in PipelineFacts!Stages
    BY DEF PipelineFacts!Stages, PipelineFacts!Tokens
  <2>2. PipelineFacts!IsHandedOver(PipelineFacts!TokenOf(published[h]))
    BY <1>1, <2>1 DEF PipelineFacts!IInv, PipelineFacts!Conserved
  <2> QED BY <2>2 DEF PipelineFacts!IsHandedOver, PipelineFacts!TokenOf
<1>5. /\ n \in DOMAIN arrived /\ t \in DOMAIN Routes /\ k \in DOMAIN Routes[t]
      /\ p.from = t
  <2>1. /\ arrived \in Seq([topic: Topic, payload: Payload])
        /\ Len(arrived) \in Nat /\ Len(incomingQueue) \in Nat
        /\ Len(incomingQueue) <= Len(arrived)
    BY <1>1 DEF PipelineFacts!IInv, PipelineFacts!TypeOK, PipelineFacts!IntakeInv
  <2>2. n \in DOMAIN arrived /\ p.from = t
    BY <1>4, <2>1 DEF PipelineFacts!Taken
  <2>3. t \in DOMAIN Routes
    BY <2>2 DEF TopicsInv
  <2> QED BY <1>4, <2>2, <2>3 DEF PipelineFacts!RoutesOf
<1>6. VisitsOf(p.topic) = VisitsAlong(t, arrived[n].payload, k)
  <2> DEFINE out == [topic |-> p.topic, payload |-> p.payload]
  <2>1. PipelineFacts!IsMade(p)
    BY <1>1 DEF PipelineFacts!ContentInv, PipelineFacts!Leaving, PipelineFacts!Items
  <2>2. out \in PipelineFacts!ChainOutputs(Routes[t][k], t, arrived[n].payload)
    BY <1>5, <2>1 DEF PipelineFacts!IsMade, PipelineFacts!IsChainOutput,
       PipelineFacts!RoutesOf
  <2>3. out \in ChainOutputs(Routes[t][k], t, arrived[n].payload)
    BY <2>2 DEF PipelineFacts!ChainOutputs, ChainOutputs, PipelineFacts!IsChainRun,
       IsChainRun, PipelineFacts!Survives, Survives, PipelineFacts!Transformed,
       Transformed, PipelineFacts!Output, Output
  <2>4. out.topic = p.topic
    OBVIOUS
  <2> HIDE DEF out
  <2> QED BY <1>5, <2>3, <2>4, VisitsOfOutput
<1>7. ~CameBack(n, k, i - 1)
  <2> SUFFICES ASSUME NEW h \in 1..(i - 1), published[h].origin = n, published[h].route = k
               PROVE  FALSE
    BY DEF CameBack
  <2>1. h \in DOMAIN published /\ h < i
    BY <1>2, <1>3
  <2>2. PipelineFacts!SameLane(published[h], p) => PipelineFacts!Precedes(published[h], p)
    BY <1>1, <2>1 DEF PipelineFacts!IInv, PipelineFacts!OrderInv, PipelineFacts!Ordered
  <2>3. published[h].from = p.from
    BY <1>4, <2>1
  <2> QED BY <1>3, <2>2, <2>3 DEF PipelineFacts!SameLane, PipelineFacts!Direct,
             PipelineFacts!StreamTransformersOf, PipelineFacts!Precedes
<1> QED BY <1>5, <1>6, <1>7

(* A delivery that comes back is no longer owed its visits.                *)
LEMMA ReturnIsPaid ==
    ASSUME PipelineInv, TopicsInv, returned < Len(published)
    PROVE  SumFunction(Owed(returned + 1)) + VisitsOf(published[returned + 1].topic)
              = SumFunction(Owed(returned))
<1> DEFINE i == returned + 1
           m == published[i].origin
           j == published[i].route
           t == arrived[m].topic
           v == VisitsOf(published[i].topic)
<1>1. /\ returned \in Nat /\ i \in DOMAIN published /\ i - 1 = returned
      /\ 1..i = 1..returned \cup {i}
  <2>1. published \in Seq(PipelineFacts!OutgoingItem)
    BY DEF PipelineInv, PipelineFacts!IInv, PipelineFacts!TypeOK
  <2> QED BY <2>1 DEF TopicsInv
<1>2. /\ m \in DOMAIN arrived /\ t \in DOMAIN Routes /\ j \in DOMAIN Routes[t]
      /\ v = VisitsAlong(t, arrived[m].payload, j)
      /\ ~CameBack(m, j, returned)
  <2> HIDE DEF i
  <2>1. ~CameBack(m, j, i - 1)
    BY <1>1, PublishedOnce
  <2> QED BY <1>1, <2>1, PublishedOnce
<1>3. \A n, k : CameBack(n, k, i) <=> CameBack(n, k, returned) \/ (n = m /\ k = j)
  BY <1>1 DEF CameBack
<1>4. v \in Nat
  BY <1>2, VisitsOfOutput
<1> HIDE DEF i, v
<1>5. ASSUME NEW n \in DOMAIN arrived, n # m
      PROVE  OwedAlong(n, i) = OwedAlong(n, returned)
  BY <1>3, <1>5 DEF OwedAlong
<1>6. SumFunction(OwedAlong(m, i)) + v = SumFunction(OwedAlong(m, returned))
  <2> DEFINE f == OwedAlong(m, returned)
             g == OwedAlong(m, i)
             S == DOMAIN Routes[t]
  <2>1. IsFiniteSet(S) /\ f \in [S -> Nat] /\ g \in [S -> Nat]
    BY <1>2, OwedType
  <2>2. f[j] = v /\ g[j] = 0
    BY <1>2, <1>3 DEF OwedAlong
  <2>3. \A k \in S \ {j} : g[k] = f[k]
    BY <1>3 DEF OwedAlong
  <2>4. j \in S
    BY <1>2
  <2> HIDE DEF f, g, S
  <2>5. SumFunction(g) + f[j] = SumFunction(f) + g[j]
    BY <2>1, <2>3, <2>4, SumChanges
  <2>6. SumFunction(f) \in Nat
    <3>1. DOMAIN f = S /\ \A x \in S : f[x] \in Nat
      BY <2>1
    <3> QED BY <2>1, <3>1, SumIsNat DEF SumFunction
  <2> QED BY <2>2, <2>5, <2>6 DEF f, g
<1>7. SumFunction(Owed(i)) + v = SumFunction(Owed(returned))
  <2> DEFINE f == Owed(returned)
             g == Owed(i)
             S == 1..Len(arrived)
  <2>1. f \in [S -> Nat] /\ g \in [S -> Nat] /\ Len(arrived) \in Nat
    BY OwedType
  <2>2. IsFiniteSet(S)
    BY <2>1, FS_Interval
  <2>3. S = DOMAIN arrived /\ m \in S
    <3>1. arrived \in Seq([topic: Topic, payload: Payload])
      BY DEF PipelineInv, PipelineFacts!IInv, PipelineFacts!TypeOK
    <3> QED BY <1>2, <3>1
  <2>4. f[m] = SumFunction(OwedAlong(m, returned)) /\ g[m] = SumFunction(OwedAlong(m, i))
    BY <1>2 DEF Owed
  <2>5. \A n \in S \ {m} : g[n] = f[n]
    BY <1>5, <2>3 DEF Owed
  <2>6. SumFunction(f) \in Nat /\ SumFunction(g) \in Nat
    BY OwedType
  <2> HIDE DEF f, g, S
  <2>7. SumFunction(g) + f[m] = SumFunction(f) + g[m]
    BY <2>1, <2>2, <2>3, <2>5, SumChanges
  <2>8. f[m] \in Nat /\ g[m] \in Nat /\ g[m] + v = f[m]
    BY <1>6, <2>1, <2>3, <2>4
  <2>9. SumFunction(g) + v = SumFunction(f)
    <3> DEFINE before == SumFunction(f)
               after == SumFunction(g)
               old == f[m]
               new == g[m]
    <3>1. after \in Nat /\ before \in Nat
      BY <2>6 DEF f, g
    <3>2. old \in Nat /\ new \in Nat /\ new + v = old /\ after + old = before + new
      BY <2>7, <2>8
    <3> HIDE DEF before, after, old, new
    <3>3. after + v = before
      BY <1>4, <3>1, <3>2
    <3> QED BY <3>3 DEF before, after
  <2> QED BY <2>9 DEF f, g
<1> QED BY <1>7 DEF i, v

(* What somebody else's message is granted, and what a delivery is owed,   *)
(* pays for its arrival and for what the routes of its topic are owed.     *)
LEMMA ArrivalIsPaid ==
    ASSUME PipelineInv, TopicsInv,
           NEW t \in DOMAIN Routes, NEW p \in Payload, NEW r \in 0..Len(published),
           arrived' = Append(arrived, [topic |-> t, payload |-> p]),
           UNCHANGED published, returned' = r
    PROVE  /\ SumFunction(Owed(returned)') \in Nat
           /\ SumFunction(Owed(returned)') + 1 <= SumFunction(Owed(r)) + Visits[t]
<1> DEFINE a == [topic |-> t, payload |-> p]
           w == [k \in DOMAIN Routes[t] |-> VisitsAlong(t, p, k)]
           f == Owed(r)
           g == Owed(returned)'
<1>1. arrived \in Seq([topic: Topic, payload: Payload]) /\ a \in [topic: Topic, payload: Payload]
  BY RoutesAssumption DEF PipelineInv, PipelineFacts!IInv, PipelineFacts!TypeOK
<1>2. published \in Seq(PipelineFacts!OutgoingItem)
  BY DEF PipelineInv, PipelineFacts!IInv, PipelineFacts!TypeOK
<1> PICK N \in Nat : N = Len(arrived)
  BY <1>1
<1>3. /\ N \in Nat /\ DOMAIN arrived = 1..N /\ DOMAIN arrived' = 1..(N + 1)
      /\ \A n \in 1..N : arrived'[n] = arrived[n]
      /\ arrived'[N + 1] = a
  BY <1>1
<1>4. f \in [1..N -> Nat] /\ SumFunction(f) \in Nat
  BY OwedType
<1>5. SumFunction(w) \in Nat /\ SumFunction(w) + 1 <= Visits[t] /\ Visits[t] \in Nat
  <2>1. IsFiniteSet(DOMAIN Routes[t])
    <3>1. DOMAIN Routes[t] = 1..Len(Routes[t]) /\ Len(Routes[t]) \in Nat
      BY RoutesAssumption
    <3> QED BY <3>1, FS_Interval
  <2>2. \A k \in DOMAIN Routes[t] : w[k] \in Nat
    BY VisitsOfOutput
  <2>3. SumFunction(w) \in Nat
    BY <2>1, <2>2, SumIsNat DEF SumFunction
  <2>4. Visits[t] \in Nat /\ Visits[t] > SumFunction(w)
    BY VisitsAssumption
  <2> HIDE DEF w
  <2> QED BY <2>3, <2>4
<1>6. \A n, k : CameBack(n, k, returned)' <=> CameBack(n, k, r)
  BY DEF CameBack
<1>7. \A k : ~CameBack(N + 1, k, r)
  <2> SUFFICES ASSUME NEW i \in 1..r, published[i].origin = N + 1 PROVE FALSE
    BY DEF CameBack
  <2>1. i \in DOMAIN published
    BY <1>2
  <2>2. published[i].origin \in DOMAIN arrived
    BY <2>1, PublishedOnce
  <2> QED BY <1>3, <2>2
<1>8. \A n \in 1..N : OwedAlong(n, returned)' = OwedAlong(n, r)
  BY <1>3, <1>6 DEF OwedAlong
<1>9. OwedAlong(N + 1, returned)' = w
  <2>1. arrived'[N + 1].topic = t /\ arrived'[N + 1].payload = p
    BY <1>3
  <2>2. \A k : ~CameBack(N + 1, k, returned)'
    BY <1>6, <1>7
  <2>3. OwedAlong(N + 1, returned)'
           = [k \in DOMAIN Routes[t] |->
                 IF CameBack(N + 1, k, returned)' THEN 0 ELSE VisitsAlong(t, p, k)]
    BY <2>1 DEF OwedAlong
  <2> QED BY <2>2, <2>3
<1>10. g = [n \in 1..(N + 1) |-> SumFunction(OwedAlong(n, returned)')]
  BY <1>3 DEF Owed
<1>11. \A n \in 1..N : g[n] = f[n]
  <2>1. \A n \in 1..N : f[n] = SumFunction(OwedAlong(n, r))
    BY <1>3 DEF Owed
  <2>2. \A n \in 1..N : n \in 1..(N + 1)
    BY <1>3
  <2> QED BY <1>8, <1>10, <2>1, <2>2
<1>12. g[N + 1] = SumFunction(w)
  <2>1. N + 1 \in 1..(N + 1)
    BY <1>3
  <2> HIDE DEF g, w
  <2>2. g[N + 1] = SumFunction(OwedAlong(N + 1, returned)')
    BY <1>10, <2>1
  <2> QED BY <1>9, <2>2
<1> HIDE DEF a, w, f, g
<1>13. g \in [1..(N + 1) -> Nat]
  <2>1. \A n \in 1..(N + 1) : n \in 1..N \/ n = N + 1
    BY <1>3
  <2>2. \A n \in 1..(N + 1) : g[n] \in Nat
    BY <1>4, <1>5, <1>11, <1>12, <2>1
  <2>3. g = [n \in 1..(N + 1) |-> g[n]]
    BY <1>10
  <2> QED BY <2>2, <2>3
<1>14. SumFunction(g) = SumFunction(f) + g[N + 1]
  BY <1>3, <1>4, <1>11, <1>13, SumExtends
<1> QED BY <1>4, <1>5, <1>12, <1>14 DEF f, g

-----------------------------------------------------------------------------
(* The constants are what the theorems about the threads assume.           *)
LEMMA Assumptions ==
    /\ PipelineFacts!RoutesAssumption
    /\ PipelineFacts!ExecuteAssumption
    /\ PipelineFacts!MaxMessagesAssumption
<1>1. PipelineFacts!RoutesAssumption
  BY RoutesAssumption DEF PipelineFacts!RoutesAssumption, PipelineFacts!RouteProperties,
     RouteProperties
<1>2. PipelineFacts!ExecuteAssumption
  BY ExecuteAssumption DEF PipelineFacts!ExecuteAssumption, PipelineFacts!ExecuteResult,
     ExecuteResult
<1>3. PipelineFacts!MaxMessagesAssumption
  BY BoundsAssumption DEF PipelineFacts!MaxMessagesAssumption
<1> QED BY <1>1, <1>2, <1>3

(* The theorems about the threads speak of the same threads.               *)
LEMMA SameThreads ==
    /\ Pipeline!Init <=> PipelineFacts!Init
    /\ Pipeline!Ingest <=> PipelineFacts!Ingest
    /\ Pipeline!Transform <=> PipelineFacts!Transform
    /\ Pipeline!PublishPop <=> PipelineFacts!PublishPop
    /\ Pipeline!PublishAccepted <=> PipelineFacts!PublishAccepted
    /\ \A t, p : Pipeline!MessageArrived(t, p) <=> PipelineFacts!MessageArrived(t, p)
<1> USE DEF Pipeline!queues, PipelineFacts!queues, Pipeline!threads, PipelineFacts!threads,
            Pipeline!Terminate, PipelineFacts!Terminate
<1>1. Pipeline!Init <=> PipelineFacts!Init
  BY DEF Pipeline!Init, PipelineFacts!Init
<1>2. Pipeline!Ingest <=> PipelineFacts!Ingest
  BY DEF Pipeline!Ingest, PipelineFacts!Ingest, Pipeline!IngestPop, PipelineFacts!IngestPop,
         Pipeline!IngestRoute, PipelineFacts!IngestRoute,
         Pipeline!RestOfRoutes, PipelineFacts!RestOfRoutes,
         Pipeline!NeedsTransform, PipelineFacts!NeedsTransform,
         Pipeline!RoutesOf, PipelineFacts!RoutesOf
<1>3. Pipeline!Transform <=> PipelineFacts!Transform
  BY DEF Pipeline!Transform, PipelineFacts!Transform,
         Pipeline!TransformPop, PipelineFacts!TransformPop,
         Pipeline!TransformExecute, PipelineFacts!TransformExecute,
         Pipeline!TransformPush, PipelineFacts!TransformPush,
         Pipeline!ChainIsThrough, PipelineFacts!ChainIsThrough,
         Pipeline!Survives, PipelineFacts!Survives,
         Pipeline!Transformed, PipelineFacts!Transformed
<1>4. Pipeline!PublishPop <=> PipelineFacts!PublishPop
  BY DEF Pipeline!PublishPop, PipelineFacts!PublishPop
<1>5. Pipeline!PublishAccepted <=> PipelineFacts!PublishAccepted
  BY DEF Pipeline!PublishAccepted, PipelineFacts!PublishAccepted
<1>6. \A t, p : Pipeline!MessageArrived(t, p) <=> PipelineFacts!MessageArrived(t, p)
  BY DEF Pipeline!MessageArrived, PipelineFacts!MessageArrived
<1> QED BY <1>1, <1>2, <1>3, <1>4, <1>5, <1>6

(* What the broker returns is one of the program's own messages.           *)
LEMMA ReturnedType ==
    ASSUME PipelineInv, TopicsInv, returned < Len(published)
    PROVE  /\ returned \in Nat
           /\ published[returned + 1] \in PipelineFacts!OutgoingItem
<1>1. published \in Seq(PipelineFacts!OutgoingItem)
  BY DEF PipelineInv, PipelineFacts!IInv, PipelineFacts!TypeOK
<1> QED BY <1>1 DEF TopicsInv

(* Every step is a step of the threads, or leaves them alone.              *)
LEMMA PipelinePart ==
    ASSUME PipelineInv, TopicsInv, [Next]_vars
    PROVE  PipelineInv'
<1> USE Assumptions
<1>1. ASSUME [PipelineFacts!Next]_(PipelineFacts!vars)
      PROVE  PipelineInv'
  <2>1. PipelineFacts!TypeOK
    BY DEF PipelineInv, PipelineFacts!IInv
  <2> QED BY <1>1, <2>1, PipelineFacts!PipelineStep, PipelineFacts!ContentStep
          DEF PipelineInv
<1>2. ASSUME NEW t \in Topic, NEW p \in Payload, Pipeline!MessageArrived(t, p)
      PROVE  PipelineFacts!Next
  BY <1>2, SameThreads DEF PipelineFacts!Next, PipelineFacts!Callback
<1>3. ASSUME UNCHANGED pipelineVars
      PROVE  UNCHANGED PipelineFacts!vars
  BY <1>3 DEF pipelineVars, PipelineFacts!vars, PipelineFacts!queues, PipelineFacts!threads
<1>4. CASE MessageArrived
  BY <1>1, <1>2, <1>4, RoutesAssumption DEF MessageArrived
<1>5. CASE BrokerReturns
  <2> DEFINE message == published[returned + 1]
  <2>1. /\ returned < Len(published)
        /\ \/ Pipeline!MessageArrived(message.topic, message.payload)
           \/ UNCHANGED pipelineVars
    BY <1>5 DEF BrokerReturns
  <2>2. message.topic \in Topic /\ message.payload \in Payload
    BY <2>1, ReturnedType DEF PipelineFacts!OutgoingItem
  <2> HIDE DEF message
  <2> QED BY <1>1, <1>2, <1>3, <2>1, <2>2
<1>6. CASE Ingest \/ Transform \/ Publish
  BY <1>1, <1>6, SameThreads
     DEF Ingest, Transform, Publish, PipelineFacts!Next, PipelineFacts!Publish
<1>7. CASE UNCHANGED vars
  BY <1>1, <1>3, <1>7 DEF vars
<1> QED BY <1>4, <1>5, <1>6, <1>7 DEF Next

(* What the messages of others were granted is a number.                   *)
LEMMA GrantedIsNat ==
    ASSUME TopicsInv
    PROVE  SumFunction(Granted) \in Nat
<1>1. outside \in Seq(DOMAIN Routes)
  BY DEF TopicsInv
<1>2. IsFiniteSet(DOMAIN outside)
  <2>1. DOMAIN outside = 1..Len(outside) /\ Len(outside) \in Nat
    BY <1>1
  <2> QED BY <2>1, FS_Interval
<1>3. \A i \in DOMAIN outside : Granted[i] \in Nat
  BY <1>1, VisitsAssumption DEF Granted
<1>4. DOMAIN Granted = DOMAIN outside
  BY DEF Granted
<1> HIDE DEF Granted
<1> QED BY <1>2, <1>3, <1>4, SumIsNat DEF SumFunction

(* A message of somebody else brings what its topic is granted.            *)
LEMMA GrantedMore ==
    ASSUME TopicsInv, NEW t \in DOMAIN Routes, outside' = Append(outside, t)
    PROVE  /\ SumFunction(Granted) \in Nat
           /\ SumFunction(Granted') = SumFunction(Granted) + Visits[t]
           /\ outside' \in Seq(DOMAIN Routes)
<1> DEFINE f == Granted
           g == Granted'
<1>1. outside \in Seq(DOMAIN Routes)
  BY DEF TopicsInv
<1> PICK N \in Nat : N = Len(outside)
  BY <1>1
<1>2. /\ DOMAIN outside = 1..N /\ DOMAIN outside' = 1..(N + 1)
      /\ \A i \in 1..N : outside'[i] = outside[i] /\ outside[i] \in DOMAIN Routes
      /\ outside'[N + 1] = t /\ outside' \in Seq(DOMAIN Routes)
  BY <1>1
<1>3. f = [i \in 1..N |-> Visits[outside[i]]] /\ g = [i \in 1..(N + 1) |-> Visits[outside'[i]]]
  BY <1>2 DEF Granted
<1>4. f \in [1..N -> Nat]
  BY <1>2, <1>3, VisitsAssumption
<1>5. g \in [1..(N + 1) -> Nat]
  <2>1. \A i \in 1..(N + 1) : outside'[i] \in DOMAIN Routes
    BY <1>2
  <2> QED BY <1>3, <2>1, VisitsAssumption
<1>6. (\A i \in 1..N : g[i] = f[i]) /\ g[N + 1] = Visits[t]
  BY <1>2, <1>3
<1>7. SumFunction(f) \in Nat
  BY GrantedIsNat
<1> HIDE DEF f, g
<1>8. SumFunction(g) = SumFunction(f) + g[N + 1]
  BY <1>4, <1>5, <1>6, SumExtends
<1> QED BY <1>2, <1>6, <1>7, <1>8 DEF f, g

(* While neither arrivals nor returns change, nor what was published       *)
(* before, what is owed stays.                                             *)
LEMMA OwedStays ==
    ASSUME UNCHANGED <<arrived, returned>>,
           \A i \in 1..returned : published'[i] = published[i]
    PROVE  Owed(returned)' = Owed(returned)
<1>1. \A n, k : CameBack(n, k, returned)' <=> CameBack(n, k, returned)
  BY DEF CameBack
<1>2. \A n \in DOMAIN arrived : OwedAlong(n, returned)' = OwedAlong(n, returned)
  BY <1>1 DEF OwedAlong
<1> QED BY <1>2 DEF Owed

(* Every step pays for the arrivals it makes.                              *)
LEMMA BoundStep ==
    ASSUME IInv, [Next]_vars
    PROVE  TopicsInv' /\ IsPaid'
<1> USE DEF IInv
<1>1. /\ arrived \in Seq([topic: Topic, payload: Payload])
      /\ published \in Seq(PipelineFacts!OutgoingItem)
      /\ returned \in 0..Len(published)
  BY DEF PipelineInv, PipelineFacts!IInv, PipelineFacts!TypeOK, TopicsInv
<1>2. ASSUME NEW t \in DOMAIN Routes, NEW p, arrived' = Append(arrived, [topic |-> t, payload |-> p])
      PROVE  /\ \A n \in DOMAIN arrived' : arrived'[n].topic \in DOMAIN Routes
             /\ Len(arrived') = Len(arrived) + 1 /\ Len(arrived) \in Nat
  BY <1>1, <1>2 DEF TopicsInv
<1>3. CASE MessageArrived
  <2>1. PICK t \in DOMAIN Routes, p \in Payload :
           Pipeline!MessageArrived(t, p) /\ outside' = Append(outside, t)
    BY <1>3 DEF MessageArrived
  <2>2. /\ arrived' = Append(arrived, [topic |-> t, payload |-> p])
        /\ UNCHANGED <<published, returned>>
    BY <1>3, <2>1 DEF MessageArrived, Pipeline!MessageArrived
  <2> PICK r \in 0..Len(published) : r = returned
    BY <1>1
  <2>3. /\ SumFunction(Owed(returned)') \in Nat
        /\ SumFunction(Owed(returned)') + 1 <= SumFunction(Owed(r)) + Visits[t]
    BY <2>2, ArrivalIsPaid
  <2>4. /\ SumFunction(Granted) \in Nat
        /\ SumFunction(Granted') = SumFunction(Granted) + Visits[t]
        /\ outside' \in Seq(DOMAIN Routes)
    BY <2>1, GrantedMore
  <2>5. Visits[t] \in Nat /\ SumFunction(Owed(r)) \in Nat
    BY VisitsAssumption, OwedType
  <2>6. TopicsInv'
    BY <1>1, <1>2, <2>2, <2>4 DEF TopicsInv
  <2>7. Len(arrived) + SumFunction(Owed(r)) <= SumFunction(Granted)
    BY DEF IsPaid
  <2>8. Len(arrived') + SumFunction(Owed(returned)') <= SumFunction(Granted')
    BY <1>2, <2>2, <2>3, <2>4, <2>5, <2>7
  <2> QED BY <2>6, <2>8 DEF IsPaid
<1>4. CASE BrokerReturns
  <2> DEFINE message == published[returned + 1]
  <2>1. /\ returned < Len(published) /\ returned' = returned + 1 /\ UNCHANGED outside
        /\ IF message.topic \in DOMAIN Routes
           THEN Pipeline!MessageArrived(message.topic, message.payload)
           ELSE UNCHANGED pipelineVars
    BY <1>4 DEF BrokerReturns
  <2>2. message \in PipelineFacts!OutgoingItem /\ returned \in Nat
    BY <2>1, ReturnedType
  <2>3. UNCHANGED published
    BY <2>1 DEF Pipeline!MessageArrived, pipelineVars
  <2> PICK r \in 0..Len(published) : r = returned + 1
    BY <1>1, <2>1, <2>2
  <2>4. SumFunction(Owed(r)) + VisitsOf(message.topic) = SumFunction(Owed(returned))
    BY <2>1, ReturnIsPaid
  <2>5. SumFunction(Owed(r)) \in Nat /\ SumFunction(Owed(returned)) \in Nat
    BY OwedType
  <2>6. Len(arrived) + SumFunction(Owed(returned)) <= SumFunction(Granted)
    BY DEF IsPaid
  <2>7. VisitsOf(message.topic) \in Nat
    BY VisitsAssumption DEF VisitsOf
  <2>8. Granted' = Granted
    BY <2>1 DEF Granted
  <2>9. SumFunction(Granted) \in Nat
    BY GrantedIsNat
  <2> PICK t : t = message.topic
    OBVIOUS
  <2> PICK p : p = message.payload
    OBVIOUS
  <2>10. p \in Payload
    BY <2>2 DEF PipelineFacts!OutgoingItem
  <2>11. CASE t \in DOMAIN Routes
    <3>1. arrived' = Append(arrived, [topic |-> t, payload |-> p])
      BY <2>1, <2>11 DEF Pipeline!MessageArrived
    <3>2. /\ SumFunction(Owed(returned)') \in Nat
          /\ SumFunction(Owed(returned)') + 1 <= SumFunction(Owed(r)) + Visits[t]
      BY <2>1, <2>3, <2>10, <2>11, <3>1, ArrivalIsPaid
    <3>3. VisitsOf(message.topic) = Visits[t]
      BY <2>11 DEF VisitsOf
    <3>4. TopicsInv'
      BY <1>1, <1>2, <2>1, <2>3, <2>11, <3>1 DEF TopicsInv
    <3>5. Len(arrived') + SumFunction(Owed(returned)') <= SumFunction(Granted)
      <4>1. Len(arrived') = Len(arrived) + 1 /\ Len(arrived) \in Nat
        BY <1>2, <2>11, <3>1
      <4> HIDE DEF message
      <4> QED BY <2>4, <2>5, <2>6, <2>7, <2>9, <3>2, <3>3, <4>1
    <3> QED BY <2>8, <3>4, <3>5 DEF IsPaid
  <2>12. CASE t \notin DOMAIN Routes
    <3>1. UNCHANGED arrived
      BY <2>1, <2>12 DEF pipelineVars
    <3>2. Owed(returned)' = Owed(r)
      BY <2>1, <2>3, <3>1 DEF Owed, OwedAlong, CameBack
    <3>3. TopicsInv'
      BY <1>1, <2>1, <2>3, <3>1 DEF TopicsInv
    <3>4. Len(arrived) + SumFunction(Owed(r)) <= SumFunction(Granted)
      <4>1. Len(arrived) \in Nat
        BY <1>1
      <4> HIDE DEF message
      <4> QED BY <2>4, <2>5, <2>6, <2>7, <2>9, <4>1
    <3> QED BY <2>8, <3>1, <3>2, <3>3, <3>4 DEF IsPaid
  <2> QED BY <2>11, <2>12
<1>5. CASE Ingest \/ Transform \/ Publish \/ UNCHANGED vars
  <2>1. UNCHANGED <<arrived, outside, returned>>
    BY <1>5 DEF Ingest, Transform, Publish, vars, pipelineVars, Pipeline!Ingest,
       Pipeline!IngestPop, Pipeline!IngestRoute, Pipeline!Transform, Pipeline!TransformPop,
       Pipeline!TransformExecute, Pipeline!TransformPush, Pipeline!Terminate,
       Pipeline!PublishPop, Pipeline!PublishAccepted
  <2>2. UNCHANGED published \/ \E x : published' = Append(published, x)
    BY <1>5 DEF Ingest, Transform, Publish, vars, pipelineVars, Pipeline!Ingest,
       Pipeline!IngestPop, Pipeline!IngestRoute, Pipeline!Transform, Pipeline!TransformPop,
       Pipeline!TransformExecute, Pipeline!TransformPush, Pipeline!Terminate,
       Pipeline!PublishPop, Pipeline!PublishAccepted
  <2>3. /\ \A i \in 1..returned : published'[i] = published[i]
        /\ returned \in 0..Len(published')
    BY <1>1, <2>2
  <2>4. Owed(returned)' = Owed(returned)
    BY <2>1, <2>3, OwedStays
  <2>5. TopicsInv'
    BY <2>1, <2>3 DEF TopicsInv
  <2> QED BY <2>1, <2>4, <2>5 DEF IsPaid, Granted
<1> QED BY <1>3, <1>4, <1>5 DEF Next

(* In every reachable state the messages that have arrived, and the visits *)
(* still owed to the deliveries that have not come back, are within what   *)
(* the messages of others were granted.                                    *)
THEOREM FeedbackInvariant == Safety => []IInv
<1>1. Init => IInv
  <2> SUFFICES ASSUME Init PROVE IInv
    OBVIOUS
  <2>1. PipelineInv
    BY Assumptions, SameThreads, PipelineFacts!PipelineInit, PipelineFacts!ContentInit
       DEF Init, PipelineInv
  <2>2. arrived = << >> /\ outside = << >> /\ returned = 0 /\ published = << >>
    BY DEF Init, Pipeline!Init
  <2>3. TopicsInv
    BY <2>2 DEF TopicsInv
  <2>4. SumFunction(Owed(returned)) = 0 /\ SumFunction(Granted) = 0
    <3>1. DOMAIN Owed(returned) = {} /\ DOMAIN Granted = {}
      BY <2>2 DEF Owed, Granted
    <3> QED BY <3>1, SumEmpty DEF SumFunction
  <2>5. IsPaid
    <3>1. Len(arrived) = 0
      BY <2>2
    <3> QED BY <2>4, <3>1 DEF IsPaid
  <2> QED BY <2>1, <2>3, <2>5 DEF IInv
<1>2. IInv /\ [Next]_vars => IInv'
  BY PipelinePart, BoundStep DEF IInv
<1> QED BY <1>1, <1>2, PTL DEF Safety

(* One message causes no more arrivals than its routes make of it, for     *)
(* every set of routes on which nothing leads back, whatever the threads   *)
(* do and however slowly the broker returns the messages.                  *)
THEOREM FeedbackIsBounded == Safety => []ArrivalsAreBounded
<1>1. IInv => ArrivalsAreBounded
  <2> SUFFICES ASSUME IInv PROVE Len(arrived) <= SumFunction(Granted)
    BY DEF ArrivalsAreBounded, Granted
  <2>1. SumFunction(Owed(returned)) \in Nat /\ Len(arrived) \in Nat
    BY OwedType DEF IInv
  <2>2. SumFunction(Granted) \in Nat
    BY GrantedIsNat DEF IInv
  <2>3. Len(arrived) + SumFunction(Owed(returned)) <= SumFunction(Granted)
    BY DEF IInv, IsPaid
  <2> QED BY <2>1, <2>2, <2>3
<1> QED BY <1>1, FeedbackInvariant, PTL
=============================================================================
