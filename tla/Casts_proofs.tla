---------------------------- MODULE Casts_proofs ----------------------------
(***************************************************************************)
(* Theorems about the conversions of texts, for every text and all widths: *)
(* splitting and joining, insertion of levels, integers, addresses.        *)
(*                                                                         *)
(* splitString, joinStrings and the numerals are recursive functions.      *)
(* Recursion shows that they exist, so that they may be unfolded; then the *)
(* argument is by induction, over a set of numbers.  Joining is injective  *)
(* on lists of elements that are free of the token, so that splitting is   *)
(* known as soon as it is known to make such a list.                       *)
(***************************************************************************)
EXTENDS MCCasts, FiniteSetTheorems, SequenceTheorems, WellFoundedInduction, TLAPS

-----------------------------------------------------------------------------
(* Induction over the numbers, for a set of them.                          *)
LEMMA NatSetInduction ==
    ASSUME NEW P, 0 \in P, \A n \in Nat : n \in P => n + 1 \in P
    PROVE  Nat \subseteq P
<1> SUFFICES ASSUME Nat \ P # {} PROVE FALSE
  OBVIOUS
<1>1. PICK x \in Nat \ P : \A y \in Nat \ P : ~(<<y, x>> \in OpToRel(<, Nat))
  BY NatLessThanWellFounded, WFMin, Zenon
<1>2. x # 0
  BY <1>1
<1>3. x - 1 \in Nat /\ x - 1 < x /\ x - 1 + 1 = x
  BY <1>2
<1>4. <<x - 1, x>> \in OpToRel(<, Nat)
  BY <1>1, <1>3 DEF OpToRel
<1>5. x - 1 \in P
  BY <1>1, <1>3, <1>4, Zenon
<1> QED BY <1>3, <1>5

(* What is true of a number when it is true of all smaller ones.           *)
LEMMA StrongInduction ==
    ASSUME NEW P, \A n \in Nat : (\A m \in 0 .. n - 1 : m \in P) => n \in P
    PROVE  Nat \subseteq P
<1> DEFINE Q == {n \in Nat : \A m \in 0..n : m \in P}
<1>1. 0 \in Q
  OBVIOUS
<1>2. ASSUME NEW n \in Nat, n \in Q PROVE n + 1 \in Q
  <2>1. \A m \in 0..n : m \in P
    BY <1>2
  <2>2. n + 1 \in P
    BY <2>1
  <2>3. \A m \in 0 .. n + 1 : m \in 0..n \/ m = n + 1
    OBVIOUS
  <2> QED BY <2>1, <2>2, <2>3
<1>3. Nat \subseteq Q
  <2> HIDE DEF Q
  <2> QED BY <1>1, <1>2, NatSetInduction
<1>4. \A n \in Nat : n \in 0..n
  OBVIOUS
<1> QED BY <1>3, <1>4

(* A recursive function exists when each of its values depends on those of *)
(* lower rank alone.                                                       *)
DependsOnLower(G, D, V, rank) ==
    /\ rank \in [D -> Nat]
    /\ G \in [D -> [[D -> V] -> V]]
    /\ \A x \in D : \A f, g \in [D -> V] :
          (\A y \in D : rank[y] < rank[x] => f[y] = g[y]) => G[x][f] = G[x][g]

(* There is such a function.  It is put together from functions that obey  *)
(* the equation up to a rank, which agree with each other.                 *)
LEMMA Recursion ==
    ASSUME NEW G, NEW D, NEW V, NEW rank, V # {}, DependsOnLower(G, D, V, rank)
    PROVE  \E f \in [D -> V] : \A x \in D : f[x] = G[x][f]
<1> USE DEF DependsOnLower
<1> PICK v : v \in V
  OBVIOUS
<1> DEFINE Fits(f, n) == \A x \in D : rank[x] < n => f[x] = G[x][f]
           Agree(f, g, n) == \A x \in D : rank[x] < n => f[x] = g[x]
           A == {n \in Nat : \A f, g \in [D -> V] : Fits(f, n) /\ Fits(g, n) => Agree(f, g, n)}
           E == {n \in Nat : \E f \in [D -> V] : Fits(f, n)}
<1>1. Nat \subseteq A
  <2>1. 0 \in A
    OBVIOUS
  <2>2. ASSUME NEW n \in Nat, n \in A PROVE n + 1 \in A
    <3>1. ASSUME NEW f \in [D -> V], NEW g \in [D -> V], Fits(f, n + 1), Fits(g, n + 1),
                 NEW x \in D, rank[x] < n + 1
          PROVE  f[x] = g[x]
      <4>1. \A z \in D : rank[z] < n => rank[z] < n + 1
        OBVIOUS
      <4>2. Fits(f, n) /\ Fits(g, n)
        BY <3>1, <4>1
      <4>3. Agree(f, g, n)
        BY <4>2, <2>2
      <4>4. \A y \in D : rank[y] < rank[x] => rank[y] < n
        BY <3>1
      <4>5. \A y \in D : rank[y] < rank[x] => f[y] = g[y]
        BY <4>3, <4>4
      <4>6. G[x][f] = G[x][g]
        BY <4>5
      <4> QED BY <3>1, <4>6
    <3>2. \A f, g \in [D -> V] : Fits(f, n + 1) /\ Fits(g, n + 1) => Agree(f, g, n + 1)
      BY <3>1
    <3> HIDE DEF Fits, Agree
    <3> QED BY <3>2
  <2> HIDE DEF A
  <2> QED BY <2>1, <2>2, NatSetInduction
<1>2. Nat \subseteq E
  <2>1. 0 \in E
    <3>1. [x \in D |-> v] \in [D -> V]
      OBVIOUS
    <3>2. Fits([x \in D |-> v], 0)
      OBVIOUS
    <3> QED BY <3>1, <3>2
  <2>2. ASSUME NEW n \in Nat, n \in E PROVE n + 1 \in E
    <3>1. PICK f \in [D -> V] : Fits(f, n)
      BY <2>2
    <3> DEFINE h == [x \in D |-> IF rank[x] < n THEN f[x] ELSE G[x][f]]
    <3>2. h \in [D -> V]
      OBVIOUS
    <3>3. ASSUME NEW x \in D, rank[x] < n + 1 PROVE h[x] = G[x][h]
      <4>1. \A y \in D : rank[y] < rank[x] => h[y] = f[y]
        BY <3>3
      <4>2. G[x][h] = G[x][f]
        <5> HIDE DEF h
        <5> QED BY <3>2, <4>1
      <4>3. h[x] = G[x][f]
        BY <3>1
      <4> QED BY <4>2, <4>3
    <3> HIDE DEF h
    <3> QED BY <3>2, <3>3
  <2> HIDE DEF E
  <2> QED BY <2>1, <2>2, NatSetInduction
<1> DEFINE F == [n \in Nat |-> CHOOSE f \in [D -> V] : Fits(f, n)]
           w == [x \in D |-> F[rank[x] + 1][x]]
<1>3. \A n \in Nat : F[n] \in [D -> V] /\ Fits(F[n], n)
  BY <1>2
<1>4. w \in [D -> V]
  <2>1. \A x \in D : F[rank[x] + 1][x] \in V
    <3> HIDE DEF F, Fits
    <3> QED BY <1>3
  <2> HIDE DEF F
  <2> QED BY <2>1
<1>5. ASSUME NEW x \in D PROVE w[x] = G[x][w]
  <2> DEFINE f == F[rank[x] + 1]
  <2>1. f \in [D -> V] /\ Fits(f, rank[x] + 1)
    <3> HIDE DEF F, Fits
    <3> QED BY <1>3
  <2>2. ASSUME NEW y \in D, rank[y] < rank[x] PROVE w[y] = f[y]
    <3> DEFINE g == F[rank[y] + 1]
    <3>1. g \in [D -> V] /\ Fits(g, rank[y] + 1)
      <4> HIDE DEF F, Fits
      <4> QED BY <1>3
    <3>2. w[y] = g[y]
      OBVIOUS
    <3>3. Fits(f, rank[y] + 1)
      <4> HIDE DEF f
      <4> QED BY <2>1, <2>2
    <3>4. Agree(f, g, rank[y] + 1)
      <4>1. rank[y] + 1 \in A
        <5> HIDE DEF A
        <5> QED BY <1>1
      <4> HIDE DEF f, g, Fits, Agree
      <4> QED BY <2>1, <3>1, <3>3, <4>1
    <3>5. rank[y] < rank[y] + 1
      OBVIOUS
    <3> HIDE DEF f, g, w
    <3> QED BY <3>2, <3>4, <3>5
  <2>3. w[x] = f[x]
    OBVIOUS
  <2>4. f[x] = G[x][f]
    <3> HIDE DEF f
    <3> QED BY <2>1
  <2> HIDE DEF f, w
  <2> QED BY <1>4, <2>1, <2>2, <2>3, <2>4
<1> HIDE DEF w
<1> QED BY <1>4, <1>5

-----------------------------------------------------------------------------
(* A text, a token, and a text behind it.                                  *)
Behind(x, c, y) == x \o <<c>> \o y

(* It is a text.                                                           *)
LEMMA BehindType ==
    ASSUME NEW C, NEW c \in C
    PROVE  \A x, y \in Seq(C) : Behind(x, c, y) \in Seq(C)
  BY DEF Behind

(* Where the parentheses are does not matter.                              *)
LEMMA BehindTwice ==
    ASSUME NEW C, NEW c \in C
    PROVE  \A x, y, z \in Seq(C) : Behind(Behind(x, c, y), c, z) = Behind(x, c, Behind(y, c, z))
<1> DEFINE Concat(a, b) == a \o b
           v == <<c>>
<1>1. /\ \A a, b, d \in Seq(C) :
            Concat(a, b) \in Seq(C) /\ Concat(Concat(a, b), d) = Concat(a, Concat(b, d))
      /\ v \in Seq(C)
  OBVIOUS
<1>2. \A x, y, z \in Seq(C) :
         Concat(Concat(Concat(Concat(x, v), y), v), z) =
            Concat(Concat(x, v), Concat(Concat(y, v), z))
  <2> HIDE DEF Concat, v
  <2> QED BY <1>1
<1> QED BY <1>2 DEF Behind

(* The function that joinStrings computes, one element after the other.    *)
IsJoin(r, ls, c) ==
    r = [n \in 0..Len(ls) |->
            IF n = 0 THEN << >> ELSE IF n = 1 THEN ls[1] ELSE Behind(r[n - 1], c, ls[n])]

(* That function exists, and joinStrings returns its last value.           *)
LEMMA JoinUnfolds ==
    ASSUME NEW C, NEW c \in C, NEW ls \in Seq(Seq(C))
    PROVE  \E r \in [0..Len(ls) -> Seq(C)] :
              IsJoin(r, ls, c) /\ joinStrings(ls, c) = r[Len(ls)]
<1> DEFINE D == 0..Len(ls)
           V == Seq(C)
           rank == [n \in D |-> n]
           Step(n, r) ==
               IF n = 0 THEN << >> ELSE IF n = 1 THEN ls[1] ELSE Behind(r[n - 1], c, ls[n])
           G == [n \in D |-> [r \in [D -> V] |-> Step(n, r)]]
<1>1. ASSUME NEW n \in D, NEW r \in [D -> V] PROVE Step(n, r) \in V
  <2>1. CASE n = 0
    BY <2>1
  <2>2. CASE n = 1
    BY <2>2
  <2>3. CASE n # 0 /\ n # 1
    <3>1. n - 1 \in D /\ n \in 1..Len(ls)
      BY <2>3
    <3>2. r[n - 1] \in V
      <4> HIDE DEF D, V
      <4> QED BY <3>1
    <3>3. ls[n] \in Seq(C)
      BY <3>1, ElementOfSeq
    <3>4. Behind(r[n - 1], c, ls[n]) \in Seq(C)
      <4> HIDE DEF D
      <4> QED BY <3>2, <3>3, BehindType
    <3> QED BY <2>3, <3>4
  <2> QED BY <2>1, <2>2, <2>3
<1>2. ASSUME NEW n \in D, NEW f \in [D -> V], NEW g \in [D -> V],
             \A m \in D : rank[m] < rank[n] => f[m] = g[m]
      PROVE  Step(n, f) = Step(n, g)
  <2>1. n > 1 => f[n - 1] = g[n - 1]
    BY <1>2
  <2> QED BY <2>1
<1>3. V # {} /\ rank \in [D -> Nat]
  <2>1. << >> \in V
    OBVIOUS
  <2> QED BY <2>1
<1>4. \E f \in [D -> V] : \A n \in D : f[n] = G[n][f]
  <2>1. G \in [D -> [[D -> V] -> V]]
    <3> HIDE DEF D, V, Step
    <3> QED BY <1>1
  <2>2. \A n \in D : \A f, g \in [D -> V] :
           (\A m \in D : rank[m] < rank[n] => f[m] = g[m]) => G[n][f] = G[n][g]
    <3> HIDE DEF D, V, Step, rank
    <3> QED BY <1>2
  <2> HIDE DEF D, V, G, rank
  <2>3. DependsOnLower(G, D, V, rank)
    BY <1>3, <2>1, <2>2 DEF DependsOnLower
  <2> QED BY <1>3, <2>3, Recursion
<1>5. PICK f \in [D -> V] : \A n \in D : f[n] = G[n][f]
  BY <1>4
<1>6. \A n \in D : f[n] = Step(n, f)
  <2> HIDE DEF D, V, Step
  <2> QED BY <1>5
<1>7. IsJoin(f, ls, c)
  BY <1>6 DEF IsJoin
<1> DEFINE r == CHOOSE g : IsJoin(g, ls, c)
<1>8. joinStrings(ls, c) = r[Len(ls)]
  BY DEF joinStrings, IsJoin, Behind
<1>9. IsJoin(r, ls, c)
  BY <1>7
<1>10. r \in [D -> V]
  <2> DEFINE P == {n \in Nat : n \in D => r[n] \in V}
  <2>1. 0 \in P
    <3>1. r[0] = << >>
      <4> HIDE DEF r
      <4> QED BY <1>9 DEF IsJoin
    <3>2. << >> \in V
      OBVIOUS
    <3> HIDE DEF r, V
    <3> QED BY <3>1, <3>2
  <2>2. ASSUME NEW n \in Nat, n \in P PROVE n + 1 \in P
    <3> SUFFICES ASSUME n + 1 \in D PROVE r[n + 1] \in V
      OBVIOUS
    <3>1. r[n + 1] = Step(n + 1, r)
      <4> HIDE DEF r
      <4> QED BY <1>9 DEF IsJoin
    <3>2. r[n] \in V /\ n + 1 \in 1..Len(ls) /\ (n + 1) - 1 = n
      BY <2>2
    <3>3. ls[n + 1] \in Seq(C)
      BY <3>2, ElementOfSeq
    <3>4. Behind(r[n], c, ls[n + 1]) \in Seq(C)
      BY <3>2, <3>3, BehindType
    <3> HIDE DEF r
    <3> QED BY <3>1, <3>2, <3>3, <3>4
  <2>3. Nat \subseteq P
    <3> HIDE DEF P
    <3> QED BY <2>1, <2>2, NatSetInduction
  <2>4. r = [n \in D |-> r[n]]
    <3> HIDE DEF r
    <3> QED BY <1>9 DEF IsJoin
  <2>5. D \subseteq Nat
    OBVIOUS
  <2>6. \A n \in D : r[n] \in V
    <3> HIDE DEF r, D, V
    <3> QED BY <2>3, <2>5
  <2> HIDE DEF r, D, V
  <2> QED BY <2>4, <2>6
<1> HIDE DEF r
<1> QED BY <1>8, <1>9, <1>10

(* Joining element by element.                                             *)
LEMMA JoinType ==
    ASSUME NEW C, NEW c \in C, NEW ls \in Seq(Seq(C))
    PROVE  joinStrings(ls, c) \in Seq(C)
<1>1. PICK r \in [0..Len(ls) -> Seq(C)] :
          IsJoin(r, ls, c) /\ joinStrings(ls, c) = r[Len(ls)]
  BY JoinUnfolds
<1> QED BY <1>1

(* No element.                                                             *)
LEMMA JoinEmpty ==
    ASSUME NEW C, NEW c \in C
    PROVE  joinStrings(<< >>, c) = << >>
<1>1. << >> \in Seq(Seq(C)) /\ Len(<< >>) = 0
  OBVIOUS
<1>2. PICK r \in [0..Len(<< >>) -> Seq(C)] :
          IsJoin(r, << >>, c) /\ joinStrings(<< >>, c) = r[Len(<< >>)]
  BY <1>1, JoinUnfolds
<1>3. r[0] = << >>
  BY <1>1, <1>2 DEF IsJoin
<1> QED BY <1>1, <1>2, <1>3

(* One element.                                                            *)
LEMMA JoinOne ==
    ASSUME NEW C, NEW c \in C, NEW u \in Seq(C)
    PROVE  joinStrings(<<u>>, c) = u
<1>1. <<u>> \in Seq(Seq(C)) /\ Len(<<u>>) = 1 /\ <<u>>[1] = u
  OBVIOUS
<1>2. PICK r \in [0..Len(<<u>>) -> Seq(C)] :
          IsJoin(r, <<u>>, c) /\ joinStrings(<<u>>, c) = r[Len(<<u>>)]
  BY <1>1, JoinUnfolds
<1>3. r[1] = u
  <2> DEFINE ls == <<u>>
  <2>1. IsJoin(r, ls, c) /\ Len(ls) = 1 /\ ls[1] = u
    BY <1>1, <1>2
  <2> HIDE DEF ls
  <2> QED BY <2>1 DEF IsJoin
<1> QED BY <1>1, <1>2, <1>3

(* One element more.                                                       *)
LEMMA JoinAppend ==
    ASSUME NEW C, NEW c \in C, NEW ls \in Seq(Seq(C)), ls # << >>, NEW u \in Seq(C)
    PROVE  joinStrings(Append(ls, u), c) = Behind(joinStrings(ls, c), c, u)
<1> DEFINE more == Append(ls, u)
<1>1. /\ more \in Seq(Seq(C)) /\ Len(more) = Len(ls) + 1 /\ more[Len(more)] = u
      /\ \A i \in 1..Len(ls) : more[i] = ls[i]
      /\ Len(ls) \in Nat \ {0}
  OBVIOUS
<1> HIDE DEF more
<1>2. PICK r \in [0..Len(ls) -> Seq(C)] :
          IsJoin(r, ls, c) /\ joinStrings(ls, c) = r[Len(ls)]
  BY JoinUnfolds
<1>3. PICK q \in [0..Len(more) -> Seq(C)] :
          IsJoin(q, more, c) /\ joinStrings(more, c) = q[Len(more)]
  BY <1>1, JoinUnfolds
<1> DEFINE P == {n \in Nat : n <= Len(ls) => q[n] = r[n]}
<1>4. 0 \in P
  BY <1>2, <1>3 DEF IsJoin
<1>5. ASSUME NEW m \in 1..Len(ls), q[m - 1] = r[m - 1] PROVE q[m] = r[m]
  <2>1. m \in 0..Len(ls) /\ m \in 0..Len(more) /\ more[m] = ls[m] /\ more[1] = ls[1] /\ m # 0
    BY <1>1
  <2>2. CASE m = 1
    BY <1>2, <1>3, <2>1, <2>2 DEF IsJoin
  <2>3. CASE m # 1
    <3>1. r[m] = Behind(r[m - 1], c, ls[m])
      BY <1>2, <2>1, <2>3 DEF IsJoin
    <3>2. q[m] = Behind(q[m - 1], c, more[m])
      BY <1>3, <2>1, <2>3 DEF IsJoin
    <3> QED BY <1>5, <2>1, <3>1, <3>2
  <2> QED BY <2>2, <2>3
<1>6. q[Len(ls)] = r[Len(ls)]
  <2>1. Nat \subseteq P
    <3>1. ASSUME NEW n \in Nat, n \in P PROVE n + 1 \in P
      <4>1. n + 1 <= Len(ls) =>
               n + 1 \in 1..Len(ls) /\ (n + 1) - 1 = n /\ q[n] = r[n]
        BY <1>1, <3>1
      <4>2. n + 1 <= Len(ls) => q[n + 1] = r[n + 1]
        <5> HIDE DEF P
        <5> QED BY <1>5, <4>1
      <4> QED BY <4>2
    <3> HIDE DEF P
    <3> QED BY <1>4, <3>1, NatSetInduction
  <2>2. Len(ls) \in P
    <3> HIDE DEF P
    <3> QED BY <1>1, <2>1
  <2> QED BY <1>1, <2>2
<1>7. q[Len(more)] = Behind(q[Len(ls)], c, u)
  <2>1. Len(more) \in 0..Len(more) /\ Len(more) # 0 /\ Len(more) # 1 /\ Len(more) - 1 = Len(ls)
    BY <1>1
  <2> QED BY <1>1, <1>3, <2>1 DEF IsJoin
<1> QED BY <1>2, <1>3, <1>6, <1>7 DEF more

(* Joining two lists of elements is joining what either has been joined to.*)
LEMMA JoinConcat ==
    ASSUME NEW C, NEW c \in C, NEW ls \in Seq(Seq(C)), ls # << >>
    PROVE  \A ms \in Seq(Seq(C)) : ms # << >> =>
              joinStrings(ls \o ms, c) = Behind(joinStrings(ls, c), c, joinStrings(ms, c))
<1> DEFINE Good(ms) ==
              joinStrings(ls \o ms, c) = Behind(joinStrings(ls, c), c, joinStrings(ms, c))
           P == {n \in Nat : \A ms \in Seq(Seq(C)) : Len(ms) = n + 1 => Good(ms)}
<1>1. ASSUME NEW ms \in Seq(Seq(C)), Len(ms) = 1 PROVE Good(ms)
  <2>1. ms[1] \in Seq(C) /\ ms = <<ms[1]>>
    <3>1. 1 \in 1..Len(ms)
      BY <1>1
    <3>2. ms[1] \in Seq(C)
      BY <3>1, ElementOfSeq
    <3>3. ms = <<ms[1]>>
      BY <1>1
    <3> QED BY <3>2, <3>3
  <2>2. ls \o ms = Append(ls, ms[1])
    <3>1. ls \o <<ms[1]>> = Append(ls, ms[1])
      BY <2>1, AppendIsConcat
    <3> QED BY <2>1, <3>1, Zenon
  <2>3. joinStrings(Append(ls, ms[1]), c) = Behind(joinStrings(ls, c), c, ms[1])
    BY <2>1, JoinAppend
  <2>4. joinStrings(<<ms[1]>>, c) = ms[1]
    BY <2>1, JoinOne
  <2> QED BY <2>1, <2>2, <2>3, <2>4, Zenon
<1>2. ASSUME NEW n \in Nat, n \in P, NEW ms \in Seq(Seq(C)), Len(ms) = n + 1 + 1
      PROVE  Good(ms)
  <2>1. PICK front \in Seq(Seq(C)), u \in Seq(C) : ms = Append(front, u)
    <3>1. ms # << >>
      BY <1>2
    <3> QED BY <3>1, SequenceEmptyOrAppend
  <2>2. Len(front) = n + 1 /\ front # << >>
    <3>1. Len(Append(front, u)) = Len(front) + 1 /\ Len(front) \in Nat
      BY AppendProperties
    <3> QED BY <1>2, <2>1, <3>1
  <2>3. Good(front)
    <3> HIDE DEF Good
    <3> QED BY <1>2, <2>2
  <2>4. ls \o ms = Append(ls \o front, u) /\ ls \o front \in Seq(Seq(C)) /\ ls \o front # << >>
    BY <2>1
  <2>5. joinStrings(ls \o ms, c) = Behind(joinStrings(ls \o front, c), c, u)
    BY <2>4, JoinAppend
  <2>6. joinStrings(ms, c) = Behind(joinStrings(front, c), c, u)
    BY <2>1, <2>2, JoinAppend
  <2> DEFINE x == joinStrings(ls, c)
             y == joinStrings(front, c)
  <2>7. x \in Seq(C) /\ y \in Seq(C)
    BY JoinType
  <2>8. Behind(Behind(x, c, y), c, u) = Behind(x, c, Behind(y, c, u))
    <3> HIDE DEF x, y
    <3> QED BY <2>7, BehindTwice
  <2> QED BY <2>3, <2>5, <2>6, <2>8, Zenon
<1>3. Nat \subseteq P
  <2>1. 0 \in P
    <3> HIDE DEF Good
    <3> QED BY <1>1
  <2>2. ASSUME NEW n \in Nat, n \in P PROVE n + 1 \in P
    <3>1. \A ms \in Seq(Seq(C)) : Len(ms) = n + 1 + 1 => Good(ms)
      <4> HIDE DEF Good, P
      <4> QED BY <1>2, <2>2
    <3> HIDE DEF Good
    <3> QED BY <3>1
  <2> HIDE DEF P
  <2> QED BY <2>1, <2>2, NatSetInduction
<1>4. ASSUME NEW ms \in Seq(Seq(C)), ms # << >> PROVE Good(ms)
  <2>1. Len(ms) - 1 \in Nat /\ Len(ms) - 1 + 1 = Len(ms)
    BY <1>4
  <2>2. Len(ms) - 1 \in P
    <3> HIDE DEF P
    <3> QED BY <1>3, <2>1
  <2> HIDE DEF Good
  <2> QED BY <2>1, <2>2
<1> QED BY <1>4
-----------------------------------------------------------------------------
(* Elements are free of the token; there is at least one of them.          *)
IsFree(u, c) == \A i \in 1..Len(u) : u[i] # c
Lists(C, c) == {ls \in Seq(Seq(C)) : ls # << >> /\ \A i \in 1..Len(ls) : IsFree(ls[i], c)}

(* What stands where in a text with a token.                               *)
HasPlaces(t, x, c, y) ==
    /\ Len(x) \in Nat /\ Len(y) \in Nat
    /\ Len(t) = Len(x) + 1 + Len(y)
    /\ \A i \in 1..Len(x) : t[i] = x[i]
    /\ t[Len(x) + 1] = c
    /\ \A i \in 1..Len(y) : t[Len(x) + 1 + i] = y[i]

(* That is what stands where.                                              *)
LEMMA BehindPlaces ==
    ASSUME NEW C, NEW c \in C
    PROVE  \A x, y \in Seq(C) : HasPlaces(Behind(x, c, y), x, c, y)
  BY DEF Behind, HasPlaces

(* What is free of the token has none in it.                               *)
LEMMA FreeHasNone ==
    ASSUME NEW C, NEW c \in C, NEW u \in Seq(C), IsFree(u, c), NEW x \in Seq(C), NEW y \in Seq(C)
    PROVE  u # Behind(x, c, y)
<1> SUFFICES ASSUME u = Behind(x, c, y) PROVE FALSE
  OBVIOUS
<1>1. HasPlaces(u, x, c, y)
  BY BehindPlaces
<1>2. Len(x) + 1 \in 1..Len(u) /\ u[Len(x) + 1] = c
  BY <1>1 DEF HasPlaces
<1> QED BY <1>2 DEF IsFree

(* A text is cut at its last token in one way.                             *)
LEMMA LastToken ==
    ASSUME NEW C, NEW c \in C, NEW x \in Seq(C), NEW y \in Seq(C),
           NEW u \in Seq(C), NEW v \in Seq(C), IsFree(u, c), IsFree(v, c),
           Behind(x, c, u) = Behind(y, c, v)
    PROVE  x = y /\ u = v
<1> DEFINE t == Behind(x, c, u)
<1>1. HasPlaces(t, x, c, u)
  BY BehindPlaces
<1>2. HasPlaces(t, y, c, v)
  BY BehindPlaces
<1> HIDE DEF t
<1> USE DEF HasPlaces
<1>3. ~(Len(x) < Len(y))
  <2> SUFFICES ASSUME Len(x) < Len(y) PROVE FALSE
    OBVIOUS
  <2>1. PICK i \in 1..Len(u) : Len(x) + 1 + i = Len(y) + 1
    <3>1. Len(y) - Len(x) \in 1..Len(u) /\ Len(x) + 1 + (Len(y) - Len(x)) = Len(y) + 1
      BY <1>1, <1>2
    <3> QED BY <3>1
  <2>2. t[Len(x) + 1 + i] = u[i] /\ t[Len(y) + 1] = c
    BY <1>1, <1>2
  <2>3. u[i] = c
    BY <2>1, <2>2
  <2> QED BY <2>3 DEF IsFree
<1>4. ~(Len(y) < Len(x))
  <2> SUFFICES ASSUME Len(y) < Len(x) PROVE FALSE
    OBVIOUS
  <2>1. PICK i \in 1..Len(v) : Len(y) + 1 + i = Len(x) + 1
    <3>1. Len(x) - Len(y) \in 1..Len(v) /\ Len(y) + 1 + (Len(x) - Len(y)) = Len(x) + 1
      BY <1>1, <1>2
    <3> QED BY <3>1
  <2>2. t[Len(y) + 1 + i] = v[i] /\ t[Len(x) + 1] = c
    BY <1>1, <1>2
  <2>3. v[i] = c
    BY <2>1, <2>2
  <2> QED BY <2>3 DEF IsFree
<1>5. Len(x) = Len(y) /\ Len(u) = Len(v)
  BY <1>1, <1>2, <1>3, <1>4
<1>6. \A i \in 1..Len(x) : x[i] = y[i]
  BY <1>1, <1>2, <1>5
<1>7. \A i \in 1..Len(u) : u[i] = v[i]
  BY <1>1, <1>2, <1>5
<1> QED BY <1>5, <1>6, <1>7, SeqEqual

(* A list of elements and its last one.                                    *)
LEMMA ListFromBack ==
    ASSUME NEW C, NEW c \in C, NEW a \in Lists(C, c)
    PROVE  \E f \in Seq(Seq(C)), u \in Seq(C) :
              /\ a = Append(f, u) /\ IsFree(u, c) /\ Len(f) = Len(a) - 1
              /\ f = << >> \/ f \in Lists(C, c)
<1>1. a \in Seq(Seq(C)) /\ a # << >> /\ \A i \in 1..Len(a) : IsFree(a[i], c)
  BY DEF Lists
<1>2. PICK f \in Seq(Seq(C)), u \in Seq(C) : a = Append(f, u)
  BY <1>1, SequenceEmptyOrAppend
<1>3. /\ Len(a) = Len(f) + 1 /\ Len(f) \in Nat /\ a[Len(f) + 1] = u
      /\ \A i \in 1..Len(f) : a[i] = f[i]
  BY <1>2, AppendProperties
<1>4. IsFree(u, c)
  BY <1>1, <1>3
<1>5. \A i \in 1..Len(f) : IsFree(f[i], c)
  BY <1>1, <1>3
<1> QED BY <1>2, <1>3, <1>4, <1>5 DEF Lists

(* A list of elements is recovered from what it has been joined to.        *)
LEMMA JoinInjective ==
    ASSUME NEW C, NEW c \in C
    PROVE  \A a, b \in Lists(C, c) : joinStrings(a, c) = joinStrings(b, c) => a = b
<1> DEFINE Good(a) == \A b \in Lists(C, c) : joinStrings(a, c) = joinStrings(b, c) => a = b
           P == {n \in Nat : \A a \in Lists(C, c) : Len(a) = n => Good(a)}
<1>1. ASSUME NEW n \in Nat, \A m \in 0 .. n - 1 : m \in P,
             NEW a \in Lists(C, c), Len(a) = n,
             NEW b \in Lists(C, c), joinStrings(a, c) = joinStrings(b, c)
      PROVE  a = b
  <2>1. PICK f \in Seq(Seq(C)), u \in Seq(C) :
              /\ a = Append(f, u) /\ IsFree(u, c) /\ Len(f) = Len(a) - 1
              /\ f = << >> \/ f \in Lists(C, c)
    BY ListFromBack
  <2>2. PICK g \in Seq(Seq(C)), v \in Seq(C) :
              /\ b = Append(g, v) /\ IsFree(v, c) /\ Len(g) = Len(b) - 1
              /\ g = << >> \/ g \in Lists(C, c)
    BY ListFromBack
  <2>3. f = << >> => joinStrings(a, c) = u
    <3>1. Append(<< >>, u) = <<u>>
      OBVIOUS
    <3> QED BY <2>1, <3>1, JoinOne
  <2>4. g = << >> => joinStrings(b, c) = v
    <3>1. Append(<< >>, v) = <<v>>
      OBVIOUS
    <3> QED BY <2>2, <3>1, JoinOne
  <2>5. f # << >> => joinStrings(a, c) = Behind(joinStrings(f, c), c, u)
    BY <2>1, JoinAppend
  <2>6. g # << >> => joinStrings(b, c) = Behind(joinStrings(g, c), c, v)
    BY <2>2, JoinAppend
  <2>7. joinStrings(f, c) \in Seq(C) /\ joinStrings(g, c) \in Seq(C)
    BY JoinType
  <2>8. CASE f = << >> /\ g = << >>
    BY <1>1, <2>1, <2>2, <2>3, <2>4, <2>8
  <2>9. CASE f = << >> /\ g # << >>
    BY <1>1, <2>1, <2>3, <2>6, <2>7, <2>9, FreeHasNone
  <2>10. CASE f # << >> /\ g = << >>
    BY <1>1, <2>2, <2>4, <2>5, <2>7, <2>10, FreeHasNone
  <2>11. CASE f # << >> /\ g # << >>
    <3>1. joinStrings(f, c) = joinStrings(g, c) /\ u = v
      <4>1. Behind(joinStrings(f, c), c, u) = Behind(joinStrings(g, c), c, v)
        BY <1>1, <2>5, <2>6, <2>11
      <4> QED BY <2>1, <2>2, <2>7, <4>1, LastToken
    <3>2. Len(f) \in 0 .. n - 1
      BY <1>1, <2>1
    <3>3. Good(f)
      <4> HIDE DEF Good
      <4> QED BY <1>1, <2>1, <2>11, <3>2
    <3> QED BY <2>1, <2>2, <2>11, <3>1, <3>3
  <2> QED BY <2>8, <2>9, <2>10, <2>11
<1>2. Nat \subseteq P
  <2>1. ASSUME NEW n \in Nat, \A m \in 0 .. n - 1 : m \in P PROVE n \in P
    <3>1. \A a \in Lists(C, c) : Len(a) = n => Good(a)
      <4> HIDE DEF P
      <4> QED BY <1>1, <2>1
    <3> HIDE DEF Good
    <3> QED BY <3>1
  <2> HIDE DEF P
  <2> QED BY <2>1, StrongInduction
<1>3. \A a \in Lists(C, c) : Good(a)
  <2>1. \A a \in Lists(C, c) : Len(a) \in Nat
    BY DEF Lists
  <2> HIDE DEF Good
  <2> QED BY <1>2, <2>1
<1> QED BY <1>3
-----------------------------------------------------------------------------
(* find finds the first token.                                             *)
LEMMA FindsFirst ==
    ASSUME NEW t, NEW c, NEW from \in Nat, Len(t) \in Nat, Tokens(t, c, from) # {}
    PROVE  /\ find(t, c, from) \in from..Len(t)
           /\ t[find(t, c, from)] = c
           /\ \A j \in from .. find(t, c, from) - 1 : t[j] # c
<1> DEFINE T == Tokens(t, c, from)
<1>1. \E i \in T : \A j \in T : i <= j
  <2> SUFFICES ASSUME ~ \E i \in T : \A j \in T : i <= j PROVE FALSE
    OBVIOUS
  <2> DEFINE P == Nat \ T
  <2>1. ASSUME NEW n \in Nat, \A m \in 0 .. n - 1 : m \in P PROVE n \in P
    <3> SUFFICES ASSUME n \in T PROVE FALSE
      OBVIOUS
    <3>1. \A j \in T : j \in Nat /\ ~(j < n)
      BY <2>1 DEF Tokens
    <3>2. \A j \in T : n <= j
      <4> HIDE DEF T, P
      <4> QED BY <3>1
    <3> HIDE DEF T, P
    <3> QED BY <3>2
  <2>2. Nat \subseteq P
    <3> HIDE DEF P
    <3> QED BY <2>1, StrongInduction
  <2>3. T \subseteq Nat /\ T # {}
    BY DEF Tokens
  <2> HIDE DEF T
  <2> QED BY <2>2, <2>3
<1>2. find(t, c, from) \in T /\ \A j \in T : find(t, c, from) <= j
  <2>1. find(t, c, from) = CHOOSE i \in T : \A j \in T : i <= j
    BY DEF find
  <2> HIDE DEF T
  <2> QED BY <1>1, <2>1
<1> HIDE DEF T
<1>3. \A i : i \in T <=> i \in from..Len(t) /\ t[i] = c
  BY DEF T, Tokens
<1>4. find(t, c, from) \in from..Len(t) /\ t[find(t, c, from)] = c
  BY <1>2, <1>3
<1>5. ASSUME NEW j \in from .. find(t, c, from) - 1, t[j] = c PROVE FALSE
  <2>1. j \in T /\ j < find(t, c, from)
    BY <1>3, <1>4, <1>5
  <2> QED BY <1>2, <1>4, <2>1
<1> QED BY <1>4, <1>5

(* The function that splitString computes, from the back of the text on.   *)
IsSplit(r, t, c) ==
    r = [from \in 1 .. Len(t) + 1 |->
            IF from > Len(t) THEN << >>
            ELSE IF Tokens(t, c, from) = {} THEN <<SubSeq(t, from, Len(t))>>
            ELSE <<SubSeq(t, from, find(t, c, from) - 1)>> \o
                    (IF find(t, c, from) = Len(t) THEN << << >> >>
                     ELSE r[find(t, c, from) + 1])]


(* It consists of what stands before the first token, at i, and the rest.  *)
StartsWith(r, t, from, i) ==
    /\ i = Len(t) => r[from] = <<SubSeq(t, from, i - 1)>> \o << << >> >>
    /\ i # Len(t) => r[from] = <<SubSeq(t, from, i - 1)>> \o r[i + 1]

(* A text with a token starts with what stands before the first one.       *)
LEMMA SplitStep ==
    ASSUME NEW r, NEW t, NEW c, IsSplit(r, t, c), Len(t) \in Nat
    PROVE  \A from \in 1..Len(t) :
              Tokens(t, c, from) # {} => StartsWith(r, t, from, find(t, c, from))
<1> SUFFICES ASSUME NEW from \in 1..Len(t), Tokens(t, c, from) # {}
             PROVE  StartsWith(r, t, from, find(t, c, from))
  OBVIOUS
<1> DEFINE Step(f) ==
               IF f > Len(t) THEN << >>
               ELSE IF Tokens(t, c, f) = {} THEN <<SubSeq(t, f, Len(t))>>
               ELSE <<SubSeq(t, f, find(t, c, f) - 1)>> \o
                       (IF find(t, c, f) = Len(t) THEN << << >> >>
                        ELSE r[find(t, c, f) + 1])
<1>1. r = [f \in 1 .. Len(t) + 1 |-> Step(f)]
  BY DEF IsSplit
<1>2. from \in 1 .. Len(t) + 1 /\ ~(from > Len(t))
  OBVIOUS
<1>3. r[from] = Step(from)
  <2> HIDE DEF Step
  <2> QED BY <1>1, <1>2
<1> QED BY <1>2, <1>3, Zenon DEF StartsWith

(* The function exists, and splitString returns its value for the whole    *)
(* text.                                                                   *)
LEMMA SplitUnfolds ==
    ASSUME NEW C, NEW c \in C, NEW t \in Seq(C)
    PROVE  \E r : IsSplit(r, t, c) /\ splitString(t, c) = r[1]
<1> DEFINE D == 1 .. Len(t) + 1
           V == Seq(Seq(C))
           rank == [from \in D |-> Len(t) + 1 - from]
           Step(from, r) ==
               IF from > Len(t) THEN << >>
               ELSE IF Tokens(t, c, from) = {} THEN <<SubSeq(t, from, Len(t))>>
               ELSE <<SubSeq(t, from, find(t, c, from) - 1)>> \o
                       (IF find(t, c, from) = Len(t) THEN << << >> >>
                        ELSE r[find(t, c, from) + 1])
           G == [from \in D |-> [r \in [D -> V] |-> Step(from, r)]]
<1>1. ASSUME NEW from \in D, NEW r \in [D -> V] PROVE Step(from, r) \in V
  <2>1. CASE from > Len(t)
    BY <2>1
  <2>2. CASE from <= Len(t) /\ Tokens(t, c, from) = {}
    <3>1. SubSeq(t, from, Len(t)) \in Seq(C)
      OBVIOUS
    <3> QED BY <2>2, <3>1
  <2>3. CASE from <= Len(t) /\ Tokens(t, c, from) # {}
    <3> DEFINE i == find(t, c, from)
    <3>1. i \in from..Len(t)
      BY <2>3, FindsFirst
    <3> HIDE DEF i
    <3>2. SubSeq(t, from, i - 1) \in Seq(C)
      BY <3>1
    <3>3. i # Len(t) => r[i + 1] \in V
      <4>1. i # Len(t) => i + 1 \in D
        BY <3>1
      <4> HIDE DEF D, V
      <4> QED BY <4>1
    <3>4. Step(from, r) = <<SubSeq(t, from, i - 1)>> \o
                             (IF i = Len(t) THEN << << >> >> ELSE r[i + 1])
      BY <2>3 DEF i
    <3>5. << << >> >> \in V /\ <<SubSeq(t, from, i - 1)>> \in V
      BY <3>2
    <3> HIDE DEF D, Step
    <3> QED BY <3>3, <3>4, <3>5
  <2> QED BY <2>1, <2>2, <2>3
<1>2. ASSUME NEW from \in D, NEW f \in [D -> V], NEW g \in [D -> V],
             \A m \in D : rank[m] < rank[from] => f[m] = g[m]
      PROVE  Step(from, f) = Step(from, g)
  <2> DEFINE i == find(t, c, from)
  <2> SUFFICES ASSUME from <= Len(t), Tokens(t, c, from) # {}, i # Len(t)
               PROVE  f[i + 1] = g[i + 1]
    OBVIOUS
  <2>1. i \in from..Len(t)
    BY FindsFirst
  <2> HIDE DEF i
  <2>2. i + 1 \in D /\ rank[i + 1] < rank[from]
    BY <2>1
  <2> QED BY <1>2, <2>2
<1>3. V # {} /\ rank \in [D -> Nat]
  <2>1. << >> \in V
    OBVIOUS
  <2>2. \A from \in D : Len(t) + 1 - from \in Nat
    OBVIOUS
  <2>3. rank \in [D -> Nat]
    <3> HIDE DEF D
    <3> QED BY <2>2
  <2> HIDE DEF V, rank
  <2> QED BY <2>1, <2>3
<1>4. \E f \in [D -> V] : \A from \in D : f[from] = G[from][f]
  <2>1. G \in [D -> [[D -> V] -> V]]
    <3> HIDE DEF D, V, Step
    <3> QED BY <1>1
  <2>2. \A n \in D : \A f, g \in [D -> V] :
           (\A m \in D : rank[m] < rank[n] => f[m] = g[m]) => G[n][f] = G[n][g]
    <3> HIDE DEF D, V, Step, rank
    <3> QED BY <1>2
  <2> HIDE DEF D, V, G, rank
  <2>3. DependsOnLower(G, D, V, rank)
    BY <1>3, <2>1, <2>2 DEF DependsOnLower
  <2> QED BY <1>3, <2>3, Recursion
<1>5. PICK f \in [D -> V] : \A from \in D : f[from] = G[from][f]
  BY <1>4
<1>6. \A from \in D : f[from] = Step(from, f)
  <2> HIDE DEF D, V, Step
  <2> QED BY <1>5
<1>7. IsSplit(f, t, c)
  <2> HIDE DEF Step
  <2>1. f = [from \in D |-> Step(from, f)]
    BY <1>6
  <2> QED BY <2>1 DEF IsSplit, Step
<1> DEFINE r == CHOOSE g : IsSplit(g, t, c)
<1>8. splitString(t, c) = r[1]
  BY DEF splitString, splitWith, IsSplit
<1>9. IsSplit(r, t, c)
  BY <1>7
<1> HIDE DEF r
<1> QED BY <1>8, <1>9

(* A text cut at a token.                                                  *)
LEMMA CutAt ==
    ASSUME NEW C, NEW c \in C, NEW t \in Seq(C), NEW from \in 1..Len(t),
           NEW i \in from..Len(t), t[i] = c
    PROVE  Behind(SubSeq(t, from, i - 1), c, SubSeq(t, i + 1, Len(t))) = SubSeq(t, from, Len(t))
<1> DEFINE x == SubSeq(t, from, i - 1)
           y == SubSeq(t, i + 1, Len(t))
           whole == SubSeq(t, from, Len(t))
<1>1. /\ x \in Seq(C) /\ Len(x) = i - from
      /\ \A j \in 1 .. i - from : x[j] = t[from + j - 1]
  OBVIOUS
<1>2. /\ y \in Seq(C) /\ Len(y) = Len(t) - i
      /\ \A j \in 1 .. Len(t) - i : y[j] = t[i + j]
  OBVIOUS
<1>3. /\ whole \in Seq(C) /\ Len(whole) = Len(t) - from + 1
      /\ \A j \in 1 .. Len(t) - from + 1 : whole[j] = t[from + j - 1]
  OBVIOUS
<1> HIDE DEF x, y, whole
<1>4. HasPlaces(Behind(x, c, y), x, c, y) /\ Behind(x, c, y) \in Seq(C)
  BY <1>1, <1>2, BehindPlaces, BehindType
<1>5. Len(Behind(x, c, y)) = Len(whole)
  BY <1>1, <1>2, <1>3, <1>4 DEF HasPlaces
<1>6. ASSUME NEW j \in 1..Len(whole) PROVE Behind(x, c, y)[j] = whole[j]
  <2>1. CASE j <= i - from
    BY <1>1, <1>3, <1>4, <2>1 DEF HasPlaces
  <2>2. CASE j = i - from + 1
    <3>1. j = Len(x) + 1 /\ from + j - 1 = i /\ j \in 1 .. Len(t) - from + 1
      BY <1>1, <1>3, <2>2
    <3> QED BY <1>3, <1>4, <3>1 DEF HasPlaces
  <2>3. CASE j > i - from + 1
    <3> DEFINE k == j - (i - from + 1)
    <3>1. k \in 1..Len(y) /\ Len(x) + 1 + k = j /\ i + k = from + j - 1
      BY <1>1, <1>2, <1>3, <2>3
    <3> HIDE DEF k
    <3>2. Behind(x, c, y)[j] = y[k]
      BY <1>4, <3>1 DEF HasPlaces
    <3> QED BY <1>2, <1>3, <3>1, <3>2
  <2> QED BY <1>1, <1>3, <2>1, <2>2, <2>3
<1>7. Behind(x, c, y) = whole
  BY <1>3, <1>4, <1>5, <1>6, SeqEqual
<1> QED BY <1>7 DEF x, y, whole

(* An element in front of a list of elements.                              *)
LEMMA ListFromFront ==
    ASSUME NEW C, NEW c \in C, NEW h \in Seq(C), IsFree(h, c), NEW ls \in Lists(C, c)
    PROVE  /\ <<h>> \o ls \in Lists(C, c)
           /\ joinStrings(<<h>> \o ls, c) = Behind(h, c, joinStrings(ls, c))
<1>1. ls \in Seq(Seq(C)) /\ ls # << >> /\ \A i \in 1..Len(ls) : IsFree(ls[i], c)
  BY DEF Lists
<1>2. <<h>> \in Seq(Seq(C)) /\ <<h>> # << >> /\ Len(<<h>>) = 1 /\ <<h>>[1] = h
  OBVIOUS
<1>3. \A i \in 1 .. 1 + Len(ls) : (<<h>> \o ls)[i] = IF i <= 1 THEN h ELSE ls[i - 1]
  BY <1>1, <1>2, ConcatProperties
<1>4. <<h>> \o ls \in Seq(Seq(C)) /\ Len(<<h>> \o ls) = 1 + Len(ls) /\ <<h>> \o ls # << >>
  BY <1>1, <1>2
<1>5. ASSUME NEW i \in 1 .. 1 + Len(ls) PROVE IsFree((<<h>> \o ls)[i], c)
  BY <1>1, <1>3
<1>6. joinStrings(<<h>> \o ls, c) = Behind(joinStrings(<<h>>, c), c, joinStrings(ls, c))
  BY <1>1, <1>2, JoinConcat
<1> QED BY <1>4, <1>5, <1>6, JoinOne DEF Lists

(* Splitting makes elements that are free of the token, and joining them   *)
(* undoes it.                                                              *)
LEMMA SplitIsList ==
    ASSUME NEW C, NEW c \in C, NEW t \in Seq(C), t # << >>
    PROVE  splitString(t, c) \in Lists(C, c) /\ joinStrings(splitString(t, c), c) = t
<1>1. PICK r : IsSplit(r, t, c) /\ splitString(t, c) = r[1]
  BY SplitUnfolds
<1> DEFINE Good(from) ==
              r[from] \in Lists(C, c) /\ joinStrings(r[from], c) = SubSeq(t, from, Len(t))
           P == {n \in Nat : \A from \in 1..Len(t) : Len(t) - from = n => Good(from)}
<1>2. ASSUME NEW n \in Nat, \A m \in 0 .. n - 1 : m \in P,
             NEW from \in 1..Len(t), Len(t) - from = n
      PROVE  Good(from)
  <2> DEFINE rest == SubSeq(t, from, Len(t))
  <2>0. rest \in Seq(C) /\ \A j \in 1 .. Len(t) - from + 1 : rest[j] = t[from + j - 1]
                        /\ Len(rest) = Len(t) - from + 1
    OBVIOUS
  <2>1. CASE Tokens(t, c, from) = {}
    <3>1. r[from] = <<rest>>
      BY <1>1, <2>1 DEF IsSplit
    <3>2. IsFree(rest, c)
      <4>1. \A j \in from..Len(t) : t[j] # c
        BY <2>1 DEF Tokens
      <4> HIDE DEF rest
      <4> QED BY <2>0, <4>1 DEF IsFree
    <3> HIDE DEF rest
    <3>3. <<rest>> \in Lists(C, c)
      BY <2>0, <3>2 DEF Lists
    <3> QED BY <2>0, <3>1, <3>3, JoinOne DEF rest
  <2>2. CASE Tokens(t, c, from) # {}
    <3> PICK i : i = find(t, c, from)
      OBVIOUS
    <3> DEFINE h == SubSeq(t, from, i - 1)
    <3>1. i \in from..Len(t) /\ t[i] = c /\ \A j \in from .. i - 1 : t[j] # c
      <4>1. from \in Nat /\ Len(t) \in Nat
        OBVIOUS
      <4> QED BY <2>2, <4>1, FindsFirst
    <3>2. /\ i = Len(t) => r[from] = <<h>> \o << << >> >>
          /\ i # Len(t) => r[from] = <<h>> \o r[i + 1]
      <4>1. Len(t) \in Nat
        OBVIOUS
      <4>2. IsSplit(r, t, c)
        BY <1>1
      <4>3. from \in 1..Len(t)
        OBVIOUS
      <4>4. StartsWith(r, t, from, i)
        <5> HIDE DEF Good, P, rest, h
        <5> QED BY <2>2, <4>1, <4>2, <4>3, SplitStep
      <4> QED BY <4>4 DEF StartsWith
    <3>3. h \in Seq(C) /\ IsFree(h, c)
      BY <3>1 DEF IsFree
    <3>4. Behind(h, c, SubSeq(t, i + 1, Len(t))) = rest
      BY <3>1, CutAt
    <3> HIDE DEF h, rest
    <3>5. CASE i = Len(t)
      <4>1. SubSeq(t, i + 1, Len(t)) = << >>
        BY <3>1, <3>5
      <4>2. << << >> >> \in Lists(C, c) /\ joinStrings(<< << >> >>, c) = << >>
        <5>1. << >> \in Seq(C) /\ IsFree(<< >>, c)
          BY DEF IsFree
        <5>2. << << >> >> \in Lists(C, c)
          BY <5>1 DEF Lists
        <5> QED BY <5>1, <5>2, JoinOne
      <4>3. r[from] = <<h>> \o << << >> >>
        BY <3>2, <3>5
      <4> QED BY <3>3, <3>4, <4>1, <4>2, <4>3, ListFromFront DEF rest
    <3>6. CASE i # Len(t)
      <4>1. i + 1 \in 1..Len(t) /\ Len(t) - (i + 1) \in 0 .. n - 1
        BY <1>2, <3>1, <3>6
      <4>2. Good(i + 1)
        <5> HIDE DEF Good
        <5> QED BY <1>2, <4>1
      <4>3. r[from] = <<h>> \o r[i + 1]
        BY <3>2, <3>6
      <4>4. /\ <<h>> \o r[i + 1] \in Lists(C, c)
            /\ joinStrings(<<h>> \o r[i + 1], c) = Behind(h, c, joinStrings(r[i + 1], c))
        BY <3>3, <4>2, ListFromFront
      <4> QED BY <3>4, <4>2, <4>3, <4>4 DEF rest
    <3> QED BY <3>5, <3>6
  <2> QED BY <2>1, <2>2
<1>3. Nat \subseteq P
  <2>1. ASSUME NEW n \in Nat, \A m \in 0 .. n - 1 : m \in P PROVE n \in P
    <3>1. \A from \in 1..Len(t) : Len(t) - from = n => Good(from)
      <4> HIDE DEF P, Good
      <4> QED BY <1>2, <2>1
    <3> HIDE DEF Good
    <3> QED BY <3>1
  <2> HIDE DEF P
  <2> QED BY <2>1, StrongInduction
<1>4. Good(1)
  <2>1. 1 \in 1..Len(t) /\ Len(t) - 1 \in Nat
    OBVIOUS
  <2> HIDE DEF Good
  <2> QED BY <1>3, <2>1
<1>5. SubSeq(t, 1, Len(t)) = t
  OBVIOUS
<1> QED BY <1>1, <1>4, <1>5
-----------------------------------------------------------------------------
(* Where the tokens of a text are.                                         *)
Places(t, c) == {i \in DOMAIN t : t[i] = c}

(* A text has a token more when one follows, and what is free of it.       *)
LEMMA PlacesBehind ==
    ASSUME NEW C, NEW c \in C, NEW x \in Seq(C), NEW y \in Seq(C), IsFree(y, c)
    PROVE  /\ Places(Behind(x, c, y), c) = Places(x, c) \cup {Len(x) + 1}
           /\ Len(x) + 1 \notin Places(x, c)
<1> DEFINE t == Behind(x, c, y)
<1>1. HasPlaces(t, x, c, y) /\ t \in Seq(C)
  BY BehindPlaces, BehindType
<1> HIDE DEF t
<1>2. DOMAIN t = 1..Len(t) /\ DOMAIN x = 1..Len(x) /\ Len(x) \in Nat /\ Len(y) \in Nat
  BY <1>1
<1>3. ASSUME NEW i \in 1..Len(t), t[i] = c PROVE i \in Places(x, c) \cup {Len(x) + 1}
  <2>1. CASE i <= Len(x)
    BY <1>1, <1>2, <1>3, <2>1 DEF HasPlaces, Places
  <2>2. CASE i = Len(x) + 1
    BY <2>2
  <2>3. CASE i > Len(x) + 1
    <3> DEFINE k == i - (Len(x) + 1)
    <3>1. k \in 1..Len(y) /\ Len(x) + 1 + k = i
      BY <1>1, <1>2, <2>3 DEF HasPlaces
    <3> HIDE DEF k
    <3>2. t[i] = y[k]
      BY <1>1, <3>1 DEF HasPlaces
    <3> QED BY <1>3, <3>1, <3>2 DEF IsFree
  <2> QED BY <1>2, <2>1, <2>2, <2>3
<1>4. \A i \in Places(x, c) : i \in 1..Len(t) /\ t[i] = c
  BY <1>1, <1>2 DEF HasPlaces, Places
<1>5. Len(x) + 1 \in 1..Len(t) /\ t[Len(x) + 1] = c
  BY <1>1, <1>2 DEF HasPlaces
<1>6. Places(t, c) = Places(x, c) \cup {Len(x) + 1}
  <2>1. \A i : i \in Places(t, c) <=> i \in 1..Len(t) /\ t[i] = c
    BY <1>2 DEF Places
  <2> QED BY <1>3, <1>4, <1>5, <2>1
<1>7. Len(x) + 1 \notin Places(x, c)
  BY <1>2 DEF Places
<1> QED BY <1>6, <1>7 DEF t

(* There is one element more than there are tokens.                        *)
LEMMA JoinCounts ==
    ASSUME NEW C, NEW c \in C
    PROVE  \A a \in Lists(C, c) :
              /\ IsFiniteSet(Places(joinStrings(a, c), c))
              /\ Len(a) = Cardinality(Places(joinStrings(a, c), c)) + 1
<1> DEFINE Counts(a, S) == IsFiniteSet(S) /\ Len(a) = Cardinality(S) + 1
           Good(a) == Counts(a, Places(joinStrings(a, c), c))
           P == {n \in Nat : \A a \in Lists(C, c) : Len(a) = n => Good(a)}
<1>1. ASSUME NEW n \in Nat, \A m \in 0 .. n - 1 : m \in P,
             NEW a \in Lists(C, c), Len(a) = n
      PROVE  Good(a)
  <2>1. PICK f \in Seq(Seq(C)), u \in Seq(C) :
              /\ a = Append(f, u) /\ IsFree(u, c) /\ Len(f) = Len(a) - 1
              /\ f = << >> \/ f \in Lists(C, c)
    BY ListFromBack
  <2>2. CASE f = << >>
    <3>1. Append(<< >>, u) = <<u>> /\ Len(a) = 1
      BY <1>1, <2>1, <2>2
    <3>2. joinStrings(a, c) = u
      BY <2>1, <2>2, <3>1, JoinOne
    <3>3. Places(u, c) = {}
      BY <2>1 DEF Places, IsFree
    <3> QED BY <3>1, <3>2, <3>3, FS_EmptySet
  <2>3. CASE f # << >>
    <3> PICK x : x = joinStrings(f, c)
      OBVIOUS
    <3>1. joinStrings(a, c) = Behind(x, c, u) /\ x \in Seq(C)
      BY <2>1, <2>3, JoinAppend, JoinType
    <3>2. /\ Places(Behind(x, c, u), c) = Places(x, c) \cup {Len(x) + 1}
          /\ Len(x) + 1 \notin Places(x, c)
      BY <2>1, <3>1, PlacesBehind
    <3>3. Len(f) \in 0 .. n - 1
      BY <1>1, <2>1
    <3>4. Counts(f, Places(x, c))
      <4>1. Good(f)
        <5> HIDE DEF Good
        <5> QED BY <1>1, <2>1, <2>3, <3>3
      <4> QED BY <4>1
    <3>5. /\ IsFiniteSet(Places(x, c) \cup {Len(x) + 1})
          /\ Cardinality(Places(x, c) \cup {Len(x) + 1}) = Cardinality(Places(x, c)) + 1
      BY <3>2, <3>4, FS_AddElement
    <3>6. Counts(a, Places(x, c) \cup {Len(x) + 1})
      <4>1. Len(f) = Cardinality(Places(x, c)) + 1 /\ Len(a) = Len(f) + 1
        BY <1>1, <2>1, <3>4
      <4> QED BY <3>5, <4>1
    <3> HIDE DEF Counts
    <3> QED BY <3>1, <3>2, <3>6
  <2> QED BY <2>2, <2>3
<1>2. Nat \subseteq P
  <2>1. ASSUME NEW n \in Nat, \A m \in 0 .. n - 1 : m \in P PROVE n \in P
    <3>1. \A a \in Lists(C, c) : Len(a) = n => Good(a)
      <4> HIDE DEF P, Good
      <4> QED BY <1>1, <2>1
    <3> HIDE DEF Good
    <3> QED BY <3>1
  <2> HIDE DEF P
  <2> QED BY <2>1, StrongInduction
<1>3. \A a \in Lists(C, c) : Good(a)
  <2>1. \A a \in Lists(C, c) : Len(a) \in Nat
    BY DEF Lists
  <2> HIDE DEF Good
  <2> QED BY <1>2, <2>1
<1> QED BY <1>3

(* An empty text is a list without elements when it is split.              *)
LEMMA SplitEmpty ==
    ASSUME NEW C, NEW c \in C
    PROVE  splitString(<< >>, c) = << >>
<1>1. << >> \in Seq(C)
  OBVIOUS
<1>2. PICK r : IsSplit(r, << >>, c) /\ splitString(<< >>, c) = r[1]
  BY <1>1, SplitUnfolds
<1>3. 1 \in 1 .. Len(<< >>) + 1 /\ 1 > Len(<< >>)
  OBVIOUS
<1> QED BY <1>2, <1>3 DEF IsSplit

(* Whether the first and the last character are tokens is whether the      *)
(* first and the last element are empty.                                   *)
Ends(t, a, c) ==
    /\ t[1] = c <=> a[1] = << >>
    /\ t[Len(t)] = c <=> a[Len(a)] = << >>

(* That is how a text and its elements end, for any list that is joined to *)
(* the text.                                                               *)
LEMMA SplitEnds ==
    ASSUME NEW C, NEW c \in C, NEW t \in Seq(C), t # << >>, NEW a \in Lists(C, c),
           joinStrings(a, c) = t
    PROVE  Ends(t, a, c)
<1>0. a \in Seq(Seq(C)) /\ Len(a) \in Nat \ {0} /\ Len(t) \in Nat \ {0}
  BY DEF Lists
<1>1. t[Len(t)] = c <=> a[Len(a)] = << >>
  <2>1. PICK f \in Seq(Seq(C)), u \in Seq(C) :
              /\ a = Append(f, u) /\ IsFree(u, c) /\ Len(f) = Len(a) - 1
              /\ f = << >> \/ f \in Lists(C, c)
    BY ListFromBack
  <2>2. a[Len(a)] = u
    BY <2>1
  <2>3. CASE f = << >>
    <3>1. Append(<< >>, u) = <<u>>
      OBVIOUS
    <3>2. t = u
      BY <2>1, <2>3, <3>1, JoinOne
    <3> QED BY <1>0, <2>1, <2>2, <3>2 DEF IsFree
  <2>4. CASE f # << >>
    <3> PICK x : x = joinStrings(f, c)
      OBVIOUS
    <3>1. t = Behind(x, c, u) /\ x \in Seq(C)
      BY <2>1, <2>4, JoinAppend, JoinType
    <3>2. HasPlaces(t, x, c, u)
      BY <3>1, BehindPlaces
    <3>3. CASE u = << >>
      BY <2>2, <3>2, <3>3 DEF HasPlaces
    <3>4. CASE u # << >>
      <4>1. Len(u) \in 1..Len(u) /\ Len(x) + 1 + Len(u) = Len(t)
        BY <3>2, <3>4 DEF HasPlaces
      <4>2. t[Len(t)] = u[Len(u)]
        BY <3>2, <4>1 DEF HasPlaces
      <4> QED BY <2>1, <2>2, <3>4, <4>1, <4>2 DEF IsFree
    <3> QED BY <3>3, <3>4
  <2> QED BY <2>3, <2>4
<1>2. t[1] = c <=> a[1] = << >>
  <2> DEFINE h == a[1]
  <2>1. h \in Seq(C) /\ IsFree(h, c)
    <3>1. 1 \in 1..Len(a)
      BY <1>0
    <3> QED BY <1>0, <3>1, ElementOfSeq DEF Lists
  <2>2. CASE Len(a) = 1
    <3>1. a = <<h>>
      BY <1>0, <2>2
    <3> HIDE DEF h
    <3>2. t = h
      BY <2>1, <3>1, JoinOne
    <3>3. t[1] # c
      BY <1>0, <2>1, <3>2 DEF IsFree
    <3> QED BY <3>2, <3>3 DEF h
  <2>3. CASE Len(a) # 1
    <3>1. /\ a = <<h>> \o Tail(a) /\ Tail(a) \in Seq(Seq(C)) /\ Tail(a) # << >>
          /\ <<h>> \in Seq(Seq(C)) /\ <<h>> # << >>
      <4>1. Tail(a) \in Seq(Seq(C)) /\ Tail(a) # << >>
        <5>1. a \in Seq(Seq(C)) /\ a # << >>
          BY DEF Lists
        <5>2. Tail(a) \in Seq(Seq(C)) /\ Len(Tail(a)) = Len(a) - 1
          BY <5>1, HeadTailProperties
        <5>3. Len(Tail(a)) # 0
          BY <1>0, <2>3, <5>2
        <5>4. Tail(a) # << >>
          <6> PICK tail : tail = Tail(a)
            OBVIOUS
          <6>1. tail \in Seq(Seq(C)) /\ Len(tail) # 0
            BY <5>2, <5>3
          <6> QED BY <6>1
        <5> QED BY <5>2, <5>4
      <4>2. <<h>> \in Seq(Seq(C)) /\ <<h>> # << >>
        BY <2>1
      <4>3. a = <<h>> \o Tail(a)
        BY <1>0, <2>3
      <4> QED BY <4>1, <4>2, <4>3
    <3> PICK x : x = joinStrings(Tail(a), c)
      OBVIOUS
    <3> HIDE DEF h
    <3>2. t = Behind(h, c, x) /\ x \in Seq(C)
      <4>1. x \in Seq(C)
        BY <3>1, JoinType
      <4>2. joinStrings(<<h>> \o Tail(a), c) = Behind(joinStrings(<<h>>, c), c, x)
        BY <3>1, JoinConcat
      <4>3. joinStrings(<<h>>, c) = h
        BY <2>1, JoinOne
      <4> QED BY <3>1, <4>1, <4>2, <4>3, Zenon
    <3>3. HasPlaces(t, h, c, x)
      BY <2>1, <3>2, BehindPlaces
    <3>4. CASE h = << >>
      BY <3>3, <3>4 DEF HasPlaces, h
    <3>5. CASE h # << >>
      <4>1. 1 \in 1..Len(h)
        BY <2>1, <3>5
      <4> QED BY <2>1, <3>3, <3>5, <4>1 DEF HasPlaces, IsFree, h
    <3> QED BY <3>4, <3>5
  <2> QED BY <2>2, <2>3
<1> QED BY <1>1, <1>2 DEF Ends

(* The two empty levels are those of "/" alone.                            *)
LEMMA SplitToken ==
    ASSUME NEW C, NEW c \in C, NEW t \in Seq(C), t # << >>, NEW a \in Lists(C, c),
           joinStrings(a, c) = t
    PROVE  t = <<c>> <=> a = << << >>, << >> >>
<1> DEFINE e == << << >> >>
           b == << << >>, << >> >>
<1>1. b \in Lists(C, c) /\ joinStrings(b, c) = <<c>>
  <2>1. << >> \in Seq(C) /\ IsFree(<< >>, c) /\ e \in Seq(Seq(C)) /\ e # << >>
    BY DEF IsFree
  <2>2. b = Append(e, << >>) /\ b \in Seq(Seq(C)) /\ b # << >> /\ Len(b) = 2
    BY <2>1
  <2>3. \A i \in 1..Len(b) : b[i] = << >>
    BY <2>2
  <2>4. joinStrings(e, c) = << >>
    BY <2>1, JoinOne
  <2>5. joinStrings(b, c) = Behind(<< >>, c, << >>)
    <3> HIDE DEF b, e
    <3>1. joinStrings(Append(e, << >>), c) = Behind(joinStrings(e, c), c, << >>)
      BY <2>1, JoinAppend
    <3> QED BY <2>2, <2>4, <3>1, Zenon
  <2>6. Behind(<< >>, c, << >>) = <<c>>
    BY DEF Behind
  <2>7. b \in Lists(C, c)
    <3> HIDE DEF b
    <3> QED BY <2>1, <2>2, <2>3 DEF Lists
  <2> QED BY <2>5, <2>6, <2>7
<1> HIDE DEF b
<1>2. t = <<c>> <=> a = b
  BY <1>1, JoinInjective
<1> QED BY <1>2 DEF b

(* Splitting loses nothing, for every text: joining undoes it, there is an *)
(* element more than there are tokens, none of them has a token, and a     *)
(* topic is valid by its outer levels.                                     *)
THEOREM SplittingIsExact ==
    ASSUME NEW Char, text \in Seq(Char)
    PROVE  SplitIsExact
<1> PICK C : C = Char \cup {"/"}
  OBVIOUS
<1> PICK t : t = text
  OBVIOUS
<1> PICK a : a = splitString(t, "/")
  OBVIOUS
<1>1. t \in Seq(C) /\ "/" \in C
  OBVIOUS
<1>2. CASE t = << >>
  <2>1. a = << >>
    BY <1>2, <1>1, SplitEmpty
  <2>2. joinStrings(a, "/") = t
    BY <1>1, <1>2, <2>1, JoinEmpty
  <2>3. DOMAIN a = {}
    BY <2>1
  <2> QED BY <1>2, <2>1, <2>2, <2>3 DEF SplitIsExact, isValidTopic
<1>3. CASE t # << >>
  <2>1. a \in Lists(C, "/") /\ joinStrings(a, "/") = t
    BY <1>1, <1>3, SplitIsList
  <2>2. a \in Seq(Seq(C)) /\ a # << >> /\ Len(a) \in Nat \ {0} /\ DOMAIN a = 1..Len(a)
    BY <2>1 DEF Lists
  <2>3. Len(a) = Cardinality({i \in DOMAIN t : t[i] = "/"}) + 1
    <3>1. Len(a) = Cardinality(Places(t, "/")) + 1
      BY <1>1, <2>1, JoinCounts
    <3> QED BY <3>1 DEF Places
  <2>4. ASSUME NEW i \in DOMAIN a PROVE "/" \notin Range(a[i])
    <3>1. IsFree(a[i], "/") /\ a[i] \in Seq(C)
      BY <2>1, <2>2, ElementOfSeq DEF Lists
    <3> QED BY <3>1 DEF IsFree, Range
  <2>5. isValidTopic(t) <=> (a = << << >>, << >> >> \/ (a[1] # << >> /\ a[Len(a)] # << >>))
    <3>1. Ends(t, a, "/")
      BY <1>1, <1>3, <2>1, SplitEnds
    <3>2. t = <<"/">> <=> a = << << >>, << >> >>
      BY <1>1, <1>3, <2>1, SplitToken
    <3> QED BY <1>3, <3>1, <3>2 DEF isValidTopic, Ends, Last
  <2> QED BY <1>3, <2>1, <2>2, <2>3, <2>4, <2>5 DEF SplitIsExact, Last
<1> QED BY <1>2, <1>3
-----------------------------------------------------------------------------
(* Lists one after the other are a list; so are the parts of one.          *)
LEMMA ListsConcat ==
    ASSUME NEW C, NEW c \in C, NEW a \in Lists(C, c), NEW b \in Lists(C, c)
    PROVE  a \o b \in Lists(C, c)
<1>1. /\ a \in Seq(Seq(C)) /\ a # << >> /\ \A i \in 1..Len(a) : IsFree(a[i], c)
      /\ b \in Seq(Seq(C)) /\ b # << >> /\ \A i \in 1..Len(b) : IsFree(b[i], c)
  BY DEF Lists
<1>2. \A i \in 1 .. Len(a) + Len(b) :
         (a \o b)[i] = IF i <= Len(a) THEN a[i] ELSE b[i - Len(a)]
  BY <1>1, ConcatProperties
<1>3. a \o b \in Seq(Seq(C)) /\ Len(a \o b) = Len(a) + Len(b) /\ a \o b # << >>
  BY <1>1
<1>4. ASSUME NEW i \in 1 .. Len(a) + Len(b) PROVE IsFree((a \o b)[i], c)
  <2>1. Len(a) \in Nat /\ Len(b) \in Nat
    BY <1>1
  <2>2. CASE i <= Len(a)
    BY <1>1, <1>2, <2>1, <2>2
  <2>3. CASE i > Len(a)
    <3>1. i - Len(a) \in 1..Len(b)
      BY <2>1, <2>3
    <3> QED BY <1>1, <1>2, <2>1, <2>3, <3>1
  <2> QED BY <2>1, <2>2, <2>3
<1> QED BY <1>3, <1>4 DEF Lists

(* The parts of a list: what follows an element, and what precedes it, if  *)
(* anything does.                                                          *)
LEMMA ListsParts ==
    ASSUME NEW C, NEW c \in C, NEW a \in Lists(C, c), NEW n \in 0 .. Len(a) - 1
    PROVE  /\ SubSeq(a, n + 1, Len(a)) \in Lists(C, c)
           /\ SubSeq(a, 1, n) = << >> \/ SubSeq(a, 1, n) \in Lists(C, c)
<1>1. a \in Seq(Seq(C)) /\ Len(a) \in Nat /\ \A i \in 1..Len(a) : IsFree(a[i], c)
  BY DEF Lists
<1>2. SubSeq(a, n + 1, Len(a)) \in Lists(C, c)
  <2> PICK b : b = SubSeq(a, n + 1, Len(a))
    OBVIOUS
  <2>1. /\ b \in Seq(Seq(C)) /\ Len(b) = Len(a) - n
        /\ \A i \in 1 .. Len(a) - n : b[i] = a[n + i]
    BY <1>1
  <2>2. b # << >>
    <3>1. n \in Int /\ n < Len(a)
      BY <1>1
    <3>2. Len(b) # 0
      BY <1>1, <2>1, <3>1
    <3> QED BY <2>1, <3>2
  <2>3. ASSUME NEW i \in 1..Len(b) PROVE IsFree(b[i], c)
    <3>1. n + i \in 1..Len(a)
      BY <1>1, <2>1
    <3> QED BY <1>1, <2>1, <3>1
  <2> QED BY <2>1, <2>2, <2>3 DEF Lists
<1>3. SubSeq(a, 1, n) = << >> \/ SubSeq(a, 1, n) \in Lists(C, c)
  <2> PICK b : b = SubSeq(a, 1, n)
    OBVIOUS
  <2>1. /\ b \in Seq(Seq(C)) /\ Len(b) = n
        /\ \A i \in 1..n : b[i] = a[i]
    BY <1>1
  <2>2. ASSUME NEW i \in 1..Len(b) PROVE IsFree(b[i], c)
    <3>1. i \in 1..Len(a)
      BY <1>1, <2>1
    <3> QED BY <1>1, <2>1, <3>1
  <2> QED BY <2>1, <2>2 DEF Lists
<1> QED BY <1>2, <1>3

(* A part of a list between two others; what is joined depends on it by    *)
(* what it is joined to itself.                                            *)
JoinAround(a, m, b, c) == joinStrings(a \o m \o b, c)

LEMMA JoinMiddle ==
    ASSUME NEW C, NEW c \in C
    PROVE  \A a, b, l, m \in Seq(Seq(C)) :
              /\ b # << >> /\ l # << >> /\ m # << >>
              /\ joinStrings(l, c) = joinStrings(m, c)
              => JoinAround(a, l, b, c) = JoinAround(a, m, b, c)
<1> SUFFICES ASSUME NEW a \in Seq(Seq(C)), NEW b \in Seq(Seq(C)), b # << >>,
                    NEW l \in Seq(Seq(C)), l # << >>, NEW m \in Seq(Seq(C)), m # << >>,
                    joinStrings(l, c) = joinStrings(m, c)
             PROVE  JoinAround(a, l, b, c) = JoinAround(a, m, b, c)
  OBVIOUS
<1> DEFINE Concat(x, y) == x \o y
<1>1. \A x, y \in Seq(Seq(C)) :
         /\ Concat(x, y) \in Seq(Seq(C))
         /\ y # << >> => Concat(x, y) # << >>
         /\ Concat(<< >>, y) = y
  OBVIOUS
<1>2. \A x, y \in Seq(Seq(C)) : x # << >> /\ y # << >> =>
         joinStrings(Concat(x, y), c) = Behind(joinStrings(x, c), c, joinStrings(y, c))
  BY JoinConcat
<1>3. joinStrings(Concat(a, l), c) = joinStrings(Concat(a, m), c)
  <2> HIDE DEF Concat
  <2>1. CASE a = << >>
    BY <1>1, <2>1
  <2>2. CASE a # << >>
    BY <1>2, <2>2
  <2> QED BY <2>1, <2>2
<1>4. joinStrings(Concat(Concat(a, l), b), c) = joinStrings(Concat(Concat(a, m), b), c)
  <2> HIDE DEF Concat
  <2> QED BY <1>1, <1>2, <1>3
<1> QED BY <1>4 DEF JoinAround

(* What has a token is not empty.                                          *)
LEMMA JoinNotEmpty ==
    ASSUME NEW C, NEW c \in C, NEW a \in Seq(Seq(C)), a # << >>,
           NEW b \in Seq(Seq(C)), b # << >>
    PROVE  joinStrings(a \o b, c) \in Seq(C) \ {<< >>}
<1>1. joinStrings(a \o b, c) = Behind(joinStrings(a, c), c, joinStrings(b, c))
  BY JoinConcat
<1>2. joinStrings(a, c) \in Seq(C) /\ joinStrings(b, c) \in Seq(C)
  BY JoinType
<1>3. \A x, y \in Seq(C) : Behind(x, c, y) \in Seq(C) /\ Behind(x, c, y) # << >>
  BY DEF Behind
<1> QED BY <1>1, <1>2, <1>3

(* The levels of a text that is put into a topic.                          *)
LEMMA LevelsAreList ==
    ASSUME NEW C, "/" \in C, NEW new \in Seq(C)
    PROVE  LevelsOf(new) \in Lists(C, "/") /\ joinStrings(LevelsOf(new), "/") = new
<1>1. CASE new = << >>
  <2>1. LevelsOf(new) = << << >> >>
    BY <1>1 DEF LevelsOf
  <2>2. << >> \in Seq(C) /\ IsFree(<< >>, "/")
    BY DEF IsFree
  <2>3. << << >> >> \in Lists(C, "/")
    BY <2>2 DEF Lists
  <2> QED BY <1>1, <2>1, <2>2, <2>3, JoinOne
<1>2. CASE new # << >>
  BY <1>2, SplitIsList DEF LevelsOf
<1> QED BY <1>1, <1>2

(* For every topic, index and text: the levels of the text come between    *)
(* those of the topic.                                                     *)
LEMMA PutsLevels ==
    ASSUME NEW C, "/" \in C, NEW t \in Seq(C), t # << >>, NEW index \in Nat, NEW new \in Seq(C)
    PROVE  splitString(withLevel(t, index, new), "/") =
              Execute!Insert(splitString(t, "/"), index, LevelsOf(new))
<1> PICK c : c = "/"
  OBVIOUS
<1> PICK levels : levels = splitString(t, c)
  OBVIOUS
<1> PICK inserted : inserted = LevelsOf(new)
  OBVIOUS
<1> PICK w : w = withLevel(t, index, new)
  OBVIOUS
<1>1. levels \in Lists(C, c) /\ joinStrings(levels, c) = t
  BY SplitIsList
<1>2. inserted \in Lists(C, c) /\ joinStrings(inserted, c) = new
  BY LevelsAreList
<1>3. /\ levels \in Seq(Seq(C)) /\ levels # << >> /\ Len(levels) \in Nat
      /\ inserted \in Seq(Seq(C)) /\ inserted # << >>
  BY <1>1, <1>2 DEF Lists
<1>4. ASSUME NEW a \in Lists(C, c), joinStrings(a, c) = w, w \in Seq(C) \ {<< >>}
      PROVE  splitString(w, c) = a
  <2>1. splitString(w, c) \in Lists(C, c) /\ joinStrings(splitString(w, c), c) = w
    BY <1>4, SplitIsList
  <2> QED BY <1>4, <2>1, JoinInjective
<1>5. CASE Len(levels) <= index
  <2>1. w = Behind(t, c, new)
    BY <1>5 DEF withLevel, Behind
  <2>2. joinStrings(levels \o inserted, c) = w
    BY <1>1, <1>2, <1>3, <2>1, JoinConcat
  <2>3. levels \o inserted \in Lists(C, c)
    BY <1>1, <1>2, ListsConcat
  <2>4. w \in Seq(C) \ {<< >>}
    BY <1>3, <2>2, JoinNotEmpty
  <2>5. splitString(w, c) = levels \o inserted
    BY <1>4, <2>2, <2>3, <2>4
  <2> QED BY <1>5, <2>5 DEF Execute!Insert
<1>6. CASE ~(Len(levels) <= index)
  <2>1. PICK a : a = SubSeq(levels, 1, index)
    OBVIOUS
  <2>2. PICK b : b = SubSeq(levels, index + 1, Len(levels))
    OBVIOUS
  <2>3. PICK m : m = <<new>>
    OBVIOUS
  <2>4. b \in Lists(C, c) /\ (a = << >> \/ a \in Lists(C, c))
    <3>1. index \in 0 .. Len(levels) - 1
      BY <1>3, <1>6
    <3> QED BY <1>1, <2>1, <2>2, <3>1, ListsParts
  <2>5. b \in Seq(Seq(C)) /\ b # << >> /\ a \in Seq(Seq(C))
    <3>1. << >> \in Seq(Seq(C))
      OBVIOUS
    <3> QED BY <2>4, <3>1 DEF Lists
  <2>6. m \in Seq(Seq(C)) /\ m # << >> /\ joinStrings(m, c) = new
    BY <2>3, JoinOne
  <2>7. w = JoinAround(a, m, b, c)
    <3>1. (index + 1) - 1 = index
      OBVIOUS
    <3> QED BY <1>6, <2>1, <2>2, <2>3, <3>1 DEF withLevel, InsertAt, JoinAround
  <2>8. w = JoinAround(a, inserted, b, c)
    BY <1>2, <1>3, <2>5, <2>6, <2>7, JoinMiddle
  <2>9. PICK x : x = a \o inserted
    OBVIOUS
  <2>10. x \in Seq(Seq(C)) /\ x # << >> /\ (a = << >> => x = inserted)
    <3>1. /\ a \o inserted \in Seq(Seq(C)) /\ a \o inserted # << >>
          /\ << >> \o inserted = inserted
      BY <1>3, <2>5
    <3> QED BY <2>9, <3>1, Zenon
  <2>11. w = joinStrings(x \o b, c)
    BY <2>8, <2>9 DEF JoinAround
  <2>12. w \in Seq(C) \ {<< >>}
    <3>1. joinStrings(x \o b, c) \in Seq(C) \ {<< >>}
      BY <2>5, <2>10, JoinNotEmpty
    <3> QED BY <2>11, <3>1
  <2>13. x \in Lists(C, c)
    BY <1>2, <2>4, <2>9, <2>10, ListsConcat
  <2>14. x \o b \in Lists(C, c)
    BY <2>4, <2>13, ListsConcat
  <2>15. splitString(w, c) = x \o b
    BY <1>4, <2>11, <2>12, <2>14
  <2> QED BY <1>6, <2>1, <2>2, <2>9, <2>15 DEF Execute!Insert
<1> QED BY <1>5, <1>6

(* Putting a text into a topic puts its levels between those of the topic, *)
(* for every topic: what the transformers do with levels is what the code  *)
(* does with characters.                                                   *)
THEOREM PuttingInsertsLevels ==
    ASSUME NEW Char, text \in Seq(Char)
    PROVE  InsertsLevels
<1> PICK C : C = Char \cup {"/", "a", "x"}
  OBVIOUS
<1>1. text \in Seq(C) /\ "/" \in C /\ "a" \in C /\ "x" \in C
  OBVIOUS
<1>2. \A new \in {<< >>, <<"a">>, <<"/">>, <<"a", "/", "x">>} : new \in Seq(C)
  <2>1. << >> \in Seq(C)
    OBVIOUS
  <2>2. <<"a">> \in Seq(C)
    BY <1>1
  <2>3. <<"/">> \in Seq(C)
    BY <1>1
  <2>4. <<"a", "/", "x">> \in Seq(C)
    BY <1>1
  <2> QED BY <2>1, <2>2, <2>3, <2>4
<1>3. ASSUME text # << >>, NEW index \in 0..4,
             NEW new \in {<< >>, <<"a">>, <<"/">>, <<"a", "/", "x">>}
      PROVE  splitString(withLevel(text, index, new), "/") =
                Execute!Insert(splitString(text, "/"), index, LevelsOf(new))
  <2>1. new \in Seq(C)
    BY <1>2
  <2>2. index \in Nat
    OBVIOUS
  <2> QED BY <1>1, <1>3, <2>1, <2>2, PutsLevels
<1> QED BY <1>3 DEF InsertsLevels
-----------------------------------------------------------------------------
(* The digits.                                                             *)
LEMMA DigitFacts ==
    \A n \in 0..9 : /\ Digits[n + 1] \in DigitsFrom(0, 9)
                    /\ Digits[n + 1] \notin {"+", "-"}
                    /\ Digits[n + 1] = "0" => n = 0
<1>1. \A n \in 0..9 : Digits[n + 1] \in DigitsFrom(0, 9)
  BY DEF DigitsFrom
<1>2. ASSUME NEW n \in 0..9
      PROVE  Digits[n + 1] \notin {"+", "-"} /\ (Digits[n + 1] = "0" => n = 0)
  <2>1. \/ n = 0 \/ n = 1 \/ n = 2 \/ n = 3 \/ n = 4
        \/ n = 5 \/ n = 6 \/ n = 7 \/ n = 8 \/ n = 9
    OBVIOUS
  <2> QED BY <2>1 DEF Digits
<1> QED BY <1>1, <1>2

(* The value of a digit.                                                   *)
LEMMA DigitValues ==
    /\ DigitValue("0") = 0
    /\ \A c \in DigitsFrom(0, 9) : DigitValue(c) \in 0..9
<1>1. ASSUME NEW c \in DigitsFrom(0, 9)
      PROVE  DigitValue(c) \in 0..9 /\ Digits[DigitValue(c) + 1] = c
  <2>1. \E n \in 0..9 : Digits[n + 1] = c
    BY DEF DigitsFrom
  <2> QED BY <2>1 DEF DigitValue
<1>2. "0" \in DigitsFrom(0, 9)
  <2>1. Digits[0 + 1] = "0" /\ 0 \in 0..9
    BY DEF Digits
  <2> QED BY <2>1 DEF DigitsFrom
<1> QED BY <1>1, <1>2, DigitFacts

(* A number in digits: its last digit, and those of its tenth before it.   *)
IsNumeral(r) ==
    r = [n \in Nat |->
            IF n < 10 THEN <<Digits[n + 1]>> ELSE Append(r[n \div 10], Digits[(n % 10) + 1])]

(* The equation of Numeral has a solution, so that Numeral obeys it.       *)
LEMMA NumeralUnfolds == IsNumeral(Numeral)
<1> DEFINE D == Nat
           V == Seq(DigitsFrom(0, 9))
           rank == [n \in D |-> n]
           Step(n, r) ==
               IF n < 10 THEN <<Digits[n + 1]>> ELSE Append(r[n \div 10], Digits[(n % 10) + 1])
           G == [n \in D |-> [r \in [D -> V] |-> Step(n, r)]]
<1>1. ASSUME NEW n \in D, NEW r \in [D -> V] PROVE Step(n, r) \in V
  <2>1. n \div 10 \in D /\ n % 10 \in 0..9
    OBVIOUS
  <2>2. n < 10 => n \in 0..9
    OBVIOUS
  <2>3. r[n \div 10] \in V
    <3> HIDE DEF D, V
    <3> QED BY <2>1
  <2>4. n < 10 => Digits[n + 1] \in DigitsFrom(0, 9)
    BY <2>2, DigitFacts
  <2>5. Digits[(n % 10) + 1] \in DigitsFrom(0, 9)
    BY <2>1, DigitFacts
  <2> QED BY <2>3, <2>4, <2>5
<1>2. ASSUME NEW n \in D, NEW f \in [D -> V], NEW g \in [D -> V],
             \A m \in D : rank[m] < rank[n] => f[m] = g[m]
      PROVE  Step(n, f) = Step(n, g)
  <2>1. ~(n < 10) => n \div 10 \in D /\ n \div 10 < n
    OBVIOUS
  <2>2. ~(n < 10) => f[n \div 10] = g[n \div 10]
    BY <1>2, <2>1
  <2> QED BY <2>2
<1>3. V # {} /\ rank \in [D -> Nat]
  <2>1. << >> \in V
    OBVIOUS
  <2> QED BY <2>1
<1>4. \E f \in [D -> V] : \A n \in D : f[n] = G[n][f]
  <2>1. G \in [D -> [[D -> V] -> V]]
    <3> HIDE DEF D, V, Step
    <3> QED BY <1>1
  <2>2. \A n \in D : \A f, g \in [D -> V] :
           (\A m \in D : rank[m] < rank[n] => f[m] = g[m]) => G[n][f] = G[n][g]
    <3> HIDE DEF D, V, Step, rank
    <3> QED BY <1>2
  <2> HIDE DEF D, V, G, rank
  <2>3. DependsOnLower(G, D, V, rank)
    BY <1>3, <2>1, <2>2 DEF DependsOnLower
  <2> QED BY <1>3, <2>3, Recursion
<1>5. PICK f \in [D -> V] : \A n \in D : f[n] = G[n][f]
  BY <1>4
<1>6. \A n \in D : f[n] = Step(n, f)
  <2> HIDE DEF D, V, Step
  <2> QED BY <1>5
<1>7. IsNumeral(f)
  <2> HIDE DEF Step
  <2>1. f = [n \in D |-> Step(n, f)]
    BY <1>6
  <2> QED BY <2>1 DEF IsNumeral, Step
<1> DEFINE r == CHOOSE g : IsNumeral(g)
<1>8. Numeral = r
  BY DEF Numeral, IsNumeral
<1>9. IsNumeral(r)
  BY <1>7
<1> HIDE DEF r
<1> QED BY <1>8, <1>9

(* A numeral is made of digits, and begins with a zero for zero alone.     *)
IsProper(n) ==
    /\ Numeral[n] \in Seq(DigitsFrom(0, 9)) /\ Numeral[n] # << >>
    /\ Numeral[n][1] \notin {"+", "-"}
    /\ Numeral[n][1] = "0" => n = 0

(* One step of it.                                                         *)
LEMMA NumeralStep ==
    /\ \A n \in 0..9 : Numeral[n] = <<Digits[n + 1]>>
    /\ \A n \in Nat : ~(n < 10) =>
          Numeral[n] = Append(Numeral[n \div 10], Digits[(n % 10) + 1])
<1> DEFINE Step(n) ==
               IF n < 10 THEN <<Digits[n + 1]>>
               ELSE Append(Numeral[n \div 10], Digits[(n % 10) + 1])
<1>1. Numeral = [n \in Nat |-> Step(n)]
  BY NumeralUnfolds DEF IsNumeral
<1>2. \A n \in Nat : Numeral[n] = Step(n)
  <2> HIDE DEF Step
  <2> QED BY <1>1
<1>3. ASSUME NEW n \in 0..9 PROVE Numeral[n] = <<Digits[n + 1]>>
  <2>1. n \in Nat /\ n < 10
    OBVIOUS
  <2>2. Numeral[n] = Step(n)
    <3> HIDE DEF Step
    <3> QED BY <1>2, <2>1
  <2> QED BY <2>1, <2>2, Zenon
<1>4. ASSUME NEW n \in Nat, ~(n < 10)
      PROVE  Numeral[n] = Append(Numeral[n \div 10], Digits[(n % 10) + 1])
  <2>1. Numeral[n] = Step(n)
    <3> HIDE DEF Step
    <3> QED BY <1>2
  <2> QED BY <1>4, <2>1, Zenon
<1> QED BY <1>3, <1>4

(* Every numeral is like that, by induction over the tenths of a number.   *)
LEMMA NumeralIsProper == \A n \in Nat : IsProper(n)
<1> DEFINE P == {n \in Nat : IsProper(n)}
<1>1. ASSUME NEW n \in Nat, \A m \in 0 .. n - 1 : m \in P PROVE n \in P
  <2>1. CASE n < 10
    <3>1. n \in 0..9
      BY <2>1
    <3>2. Numeral[n] = <<Digits[n + 1]>>
      BY <3>1, NumeralStep
    <3>3. n \in Nat /\ IsProper(n)
      <4> PICK d : d = Digits[n + 1]
        OBVIOUS
      <4>1. d \in DigitsFrom(0, 9) /\ d \notin {"+", "-"} /\ (d = "0" => n = 0)
        BY <3>1, DigitFacts
      <4>2. Numeral[n] = <<d>>
        BY <3>2
      <4> QED BY <4>1, <4>2 DEF IsProper
    <3> QED BY <3>3
  <2>2. CASE ~(n < 10)
    <3>1. n \div 10 \in 0 .. n - 1 /\ n \div 10 # 0 /\ n % 10 \in 0..9
      BY <2>2
    <3>2. IsProper(n \div 10)
      BY <1>1, <3>1
    <3> PICK s : s = Numeral[n \div 10]
      OBVIOUS
    <3> PICK d : d = Digits[(n % 10) + 1]
      OBVIOUS
    <3>3. Numeral[n] = Append(s, d)
      BY <2>2, NumeralStep
    <3>4. d \in DigitsFrom(0, 9)
      BY <3>1, DigitFacts
    <3>5. /\ s \in Seq(DigitsFrom(0, 9)) /\ s # << >>
          /\ s[1] \notin {"+", "-"} /\ s[1] # "0"
      BY <3>1, <3>2 DEF IsProper
    <3>6. /\ Append(s, d) \in Seq(DigitsFrom(0, 9)) /\ Append(s, d) # << >>
          /\ Append(s, d)[1] = s[1]
      BY <3>4, <3>5
    <3>7. IsProper(n)
      BY <3>3, <3>5, <3>6 DEF IsProper
    <3> QED BY <3>7
  <2> QED BY <2>1, <2>2
<1>2. Nat \subseteq P
  <2> HIDE DEF P
  <2> QED BY <1>1, StrongInduction
<1> QED BY <1>2
(* The number that digits read as, one digit after the other.              *)
IsReading(r, u, base) ==
    r = [n \in 0..Len(u) |-> IF n = 0 THEN 0 ELSE base * r[n - 1] + DigitValue(u[n])]

(* That function exists, and Natural returns its last value.               *)
LEMMA NaturalUnfolds ==
    ASSUME NEW u \in Seq(DigitsFrom(0, 9)), NEW base \in {8, 10}
    PROVE  \E r \in [0..Len(u) -> Nat] : IsReading(r, u, base) /\ Natural(u, base) = r[Len(u)]
<1> DEFINE D == 0..Len(u)
           V == Nat
           rank == [n \in D |-> n]
           Step(n, r) == IF n = 0 THEN 0 ELSE base * r[n - 1] + DigitValue(u[n])
           G == [n \in D |-> [r \in [D -> V] |-> Step(n, r)]]
<1>1. ASSUME NEW n \in 1..Len(u), NEW m \in Nat PROVE base * m + DigitValue(u[n]) \in Nat
  <2>1. u[n] \in DigitsFrom(0, 9)
    OBVIOUS
  <2>2. DigitValue(u[n]) \in Nat
    BY <2>1, DigitValues
  <2>3. base * m \in Nat
    <3>1. base = 8 \/ base = 10
      OBVIOUS
    <3>2. 8 * m \in Nat /\ 10 * m \in Nat
      OBVIOUS
    <3> QED BY <3>1, <3>2
  <2> QED BY <2>2, <2>3
<1>2. ASSUME NEW n \in D, NEW r \in [D -> V] PROVE Step(n, r) \in V
  <2>1. CASE n = 0
    BY <2>1
  <2>2. CASE n # 0
    <3>1. n - 1 \in D /\ n \in 1..Len(u)
      BY <2>2
    <3>2. r[n - 1] \in Nat
      <4> HIDE DEF D
      <4> QED BY <3>1
    <3>3. base * r[n - 1] + DigitValue(u[n]) \in Nat
      BY <1>1, <3>1, <3>2
    <3> QED BY <2>2, <3>3
  <2> QED BY <2>1, <2>2
<1>3. ASSUME NEW n \in D, NEW f \in [D -> V], NEW g \in [D -> V],
             \A m \in D : rank[m] < rank[n] => f[m] = g[m]
      PROVE  Step(n, f) = Step(n, g)
  <2>1. n # 0 => f[n - 1] = g[n - 1]
    BY <1>3
  <2> QED BY <2>1
<1>4. \E f \in [D -> V] : \A n \in D : f[n] = G[n][f]
  <2>1. G \in [D -> [[D -> V] -> V]]
    <3> HIDE DEF D, V, Step
    <3> QED BY <1>2
  <2>2. \A n \in D : \A f, g \in [D -> V] :
           (\A m \in D : rank[m] < rank[n] => f[m] = g[m]) => G[n][f] = G[n][g]
    <3> HIDE DEF D, V, Step, rank
    <3> QED BY <1>3
  <2>3. V # {} /\ rank \in [D -> Nat]
    OBVIOUS
  <2> HIDE DEF D, V, G, rank
  <2>4. DependsOnLower(G, D, V, rank)
    BY <2>1, <2>2, <2>3 DEF DependsOnLower
  <2> QED BY <2>3, <2>4, Recursion
<1>5. PICK f \in [D -> V] : \A n \in D : f[n] = G[n][f]
  BY <1>4
<1>6. \A n \in D : f[n] = Step(n, f)
  <2> HIDE DEF D, V, Step
  <2> QED BY <1>5
<1>7. IsReading(f, u, base)
  <2> HIDE DEF Step
  <2>1. f = [n \in D |-> Step(n, f)]
    BY <1>6
  <2> QED BY <2>1 DEF IsReading, Step
<1> DEFINE r == CHOOSE g : IsReading(g, u, base)
<1>8. Natural(u, base) = r[Len(u)]
  BY DEF Natural, IsReading
<1>9. IsReading(r, u, base)
  BY <1>7
<1> HIDE DEF r
<1>10. r = [n \in D |-> Step(n, r)]
  BY <1>9 DEF IsReading
<1>11. r \in [D -> Nat]
  <2> DEFINE P == {n \in Nat : n \in D => r[n] \in Nat}
  <2>1. 0 \in P
    BY <1>10
  <2>2. ASSUME NEW n \in Nat, n \in P PROVE n + 1 \in P
    <3> SUFFICES ASSUME n + 1 \in D PROVE r[n + 1] \in Nat
      OBVIOUS
    <3>1. n \in D /\ n + 1 \in 1..Len(u) /\ (n + 1) - 1 = n
      OBVIOUS
    <3>2. r[n + 1] = Step(n + 1, r)
      <4> HIDE DEF Step
      <4> QED BY <1>10
    <3>3. r[n] \in Nat
      BY <2>2, <3>1
    <3>4. base * r[n] + DigitValue(u[n + 1]) \in Nat
      BY <1>1, <3>1, <3>3
    <3>5. r[n + 1] = base * r[n] + DigitValue(u[n + 1])
      <4>1. n + 1 # 0
        OBVIOUS
      <4> QED BY <3>1, <3>2, <4>1
    <3> QED BY <3>4, <3>5
  <2>3. Nat \subseteq P
    <3> HIDE DEF P
    <3> QED BY <2>1, <2>2, NatSetInduction
  <2>4. \A n \in D : r[n] \in Nat
    BY <2>3
  <2> HIDE DEF D, Step
  <2> QED BY <1>10, <2>4
<1> QED BY <1>8, <1>9, <1>11

(* Digits read as a natural number, a zero as zero.                        *)
LEMMA NaturalOfDigits ==
    ASSUME NEW base \in {8, 10}
    PROVE  /\ \A u \in Seq(DigitsFrom(0, 9)) : Natural(u, base) \in Nat
           /\ Natural(<<"0">>, base) = 0
<1>1. ASSUME NEW u \in Seq(DigitsFrom(0, 9)) PROVE Natural(u, base) \in Nat
  <2>1. PICK r \in [0..Len(u) -> Nat] : IsReading(r, u, base) /\ Natural(u, base) = r[Len(u)]
    BY NaturalUnfolds
  <2> QED BY <2>1
<1>2. Natural(<<"0">>, base) = 0
  <2> PICK u : u = <<"0">>
    OBVIOUS
  <2>1. u \in Seq(DigitsFrom(0, 9)) /\ Len(u) = 1 /\ u[1] = "0"
    <3>1. Digits[0 + 1] = "0" /\ 0 \in 0..9
      BY DEF Digits
    <3>2. "0" \in DigitsFrom(0, 9)
      BY <3>1 DEF DigitsFrom
    <3> QED BY <3>2
  <2>2. PICK r \in [0..Len(u) -> Nat] : IsReading(r, u, base) /\ Natural(u, base) = r[Len(u)]
    BY <2>1, NaturalUnfolds
  <2>3. r[0] = 0 /\ r[1] = base * r[0] + DigitValue("0")
    BY <2>1, <2>2 DEF IsReading
  <2>4. base * 0 = 0
    <3>1. base = 8 \/ base = 10
      OBVIOUS
    <3> QED BY <3>1
  <2> QED BY <2>1, <2>2, <2>3, <2>4, DigitValues
<1> QED BY <1>1, <1>2

(* An integer without a plus and leading zeros is written as it reads.     *)
LEMMA CanonicalIsKept ==
    ASSUME NEW C, NEW t \in Seq(C), IsCanonical(t)
    PROVE  lexical_cast_long(t) = t
<1> PICK u : u = Unsigned(t)
  OBVIOUS
<1> PICK n : n = Signed(t, Natural(u, 10))
  OBVIOUS
<1>1. u # << >> /\ Range(u) \subseteq DigitsFrom(0, 9) /\ t = DumpedInteger(n)
  BY DEF IsCanonical, IsInteger
<1>2. u \in Seq(DigitsFrom(0, 9))
  <2>1. u \in Seq(C)
    BY DEF Unsigned
  <2> QED BY <1>1, <2>1 DEF Range
<1>3. CASE u[1] # "0"
  BY <1>1, <1>3 DEF lexical_cast_long, LongOf
<1>4. CASE u[1] = "0"
  <2>1. n \in Int
    <3>1. Natural(u, 10) \in Nat
      BY <1>2, NaturalOfDigits
    <3> QED BY <3>1 DEF Signed
  <2>2. Size(n) \in Nat /\ (Size(n) = 0 <=> n = 0)
    BY <2>1 DEF Size
  <2> PICK numeral : numeral = Numeral[Size(n)]
    OBVIOUS
  <2>3. /\ numeral \in Seq(DigitsFrom(0, 9)) /\ numeral # << >>
        /\ numeral[1] \notin {"+", "-"} /\ (numeral[1] = "0" => n = 0)
    BY <2>2, NumeralIsProper DEF IsProper
  <2>4. u = numeral
    <3>1. CASE n < 0
      <4>1. t = <<"-">> \o numeral
        BY <1>1, <3>1 DEF DumpedInteger, Sign
      <4>2. t # << >> /\ t[1] = "-" /\ Tail(t) = numeral
        BY <2>3, <4>1
      <4> QED BY <4>2 DEF Unsigned
    <3>2. CASE ~(n < 0)
      <4>1. t = << >> \o numeral
        BY <1>1, <3>2 DEF DumpedInteger, Sign
      <4>2. t = numeral
        BY <2>3, <4>1
      <4> QED BY <2>3, <4>2 DEF Unsigned
    <3> QED BY <3>1, <3>2
  <2>5. n = 0
    BY <1>4, <2>3, <2>4
  <2>6. u = <<"0">>
    <3>1. Numeral[0] = <<Digits[0 + 1]>> /\ Digits[0 + 1] = "0"
      <4>1. 0 \in 0..9
        OBVIOUS
      <4>2. Numeral[0] = <<Digits[0 + 1]>>
        BY <4>1, NumeralStep
      <4> QED BY <4>2 DEF Digits
    <3>2. Size(n) = 0
      BY <2>5 DEF Size
    <3> QED BY <2>4, <3>1, <3>2
  <2>7. OctalPart(u) = u
    <3>1. Digits[0 + 1] = "0" /\ 0 \in 0..7
      BY DEF Digits
    <3>2. "0" \in DigitsFrom(0, 7)
      BY <3>1 DEF DigitsFrom
    <3>3. {i \in DOMAIN u : u[i] \notin DigitsFrom(0, 7)} = {}
      BY <2>6, <3>2
    <3> QED BY <3>3 DEF OctalPart
  <2>8. LongOf(t) = 0
    <3>1. LongOf(t) = Signed(t, Natural(OctalPart(u), 8))
      BY <1>4 DEF LongOf
    <3>2. Natural(OctalPart(u), 8) = 0
      BY <2>6, <2>7, NaturalOfDigits
    <3> QED BY <3>1, <3>2 DEF Signed
  <2> QED BY <1>1, <2>5, <2>8 DEF lexical_cast_long
<1> QED BY <1>3, <1>4

(* An integer that an int holds is the same text after a conversion "as    *)
(* number", for every text and every width.                                *)
THEOREM IntegersAreKept ==
    ASSUME NEW Char, text \in Seq(Char)
    PROVE  IntegersKept
<1> SUFFICES ASSUME IsCanonical(text), isInt(text) PROVE Number(text) = text
  BY DEF IntegersKept
<1>1. Number(text) = lexical_cast_long(text)
  BY DEF Number, Execute!AsNumber
<1> QED BY <1>1, CanonicalIsKept
-----------------------------------------------------------------------------
(* Numerals of two and of three digits: a digit is written behind others.  *)
LEMMA AppendDigit ==
    ASSUME NEW C, NEW a \in C, NEW b \in C, NEW c \in C
    PROVE  Append(<<a>>, b) = <<a, b>> /\ Append(<<a, b>>, c) = <<a, b, c>>
<1>1. Append(<<a>>, b) = <<a, b>>
  <2>1. <<a, b>> \in Seq(C) /\ Len(<<a, b>>) = 2
    OBVIOUS
  <2>2. /\ Append(<<a>>, b) \in Seq(C) /\ Len(Append(<<a>>, b)) = 2
        /\ Append(<<a>>, b)[1] = a /\ Append(<<a>>, b)[2] = b
    OBVIOUS
  <2>3. \A i \in 1..2 : Append(<<a>>, b)[i] = <<a, b>>[i]
    BY <2>2
  <2> QED BY <2>1, <2>2, <2>3, SeqEqual
<1>2. Append(<<a, b>>, c) = <<a, b, c>>
  <2>1. <<a, b, c>> \in Seq(C) /\ Len(<<a, b, c>>) = 3
    OBVIOUS
  <2>2. /\ Append(<<a, b>>, c) \in Seq(C) /\ Len(Append(<<a, b>>, c)) = 3
        /\ Append(<<a, b>>, c)[1] = a /\ Append(<<a, b>>, c)[2] = b
        /\ Append(<<a, b>>, c)[3] = c
    OBVIOUS
  <2>3. \A i \in 1..3 : Append(<<a, b>>, c)[i] = <<a, b, c>>[i]
    BY <2>2
  <2> QED BY <2>1, <2>2, <2>3, SeqEqual
<1> QED BY <1>1, <1>2

(* Ten and more.                                                           *)
LEMMA TwoDigits ==
    \A n \in Nat, i \in 1..9, j \in 0..9 :
       n = 10 * i + j => Numeral[n] = <<Digits[i + 1], Digits[j + 1]>>
<1> SUFFICES ASSUME NEW n \in Nat, NEW i \in 1..9, NEW j \in 0..9, n = 10 * i + j
             PROVE  Numeral[n] = <<Digits[i + 1], Digits[j + 1]>>
  OBVIOUS
<1>1. ~(n < 10) /\ n \div 10 = i /\ n % 10 = j /\ i \in 0..9
  OBVIOUS
<1>2. Numeral[n] = Append(Numeral[i], Digits[j + 1]) /\ Numeral[i] = <<Digits[i + 1]>>
  BY <1>1, NumeralStep
<1>3. Append(<<Digits[i + 1]>>, Digits[j + 1]) = <<Digits[i + 1], Digits[j + 1]>>
  BY <1>1, DigitFacts, AppendDigit
<1> QED BY <1>2, <1>3, Zenon

(* A hundred and more.                                                     *)
LEMMA ThreeDigits ==
    \A n \in Nat, h \in 1..9, i, j \in 0..9 :
       n = 100 * h + 10 * i + j =>
          Numeral[n] = <<Digits[h + 1], Digits[i + 1], Digits[j + 1]>>
<1> SUFFICES ASSUME NEW n \in Nat, NEW h \in 1..9, NEW i \in 0..9, NEW j \in 0..9,
                    n = 100 * h + 10 * i + j
             PROVE  Numeral[n] = <<Digits[h + 1], Digits[i + 1], Digits[j + 1]>>
  OBVIOUS
<1>1. PICK m \in Nat : m = 10 * h + i
  OBVIOUS
<1>2. ~(n < 10) /\ n \div 10 = m /\ n % 10 = j
  BY <1>1
<1>3. Numeral[n] = Append(Numeral[m], Digits[j + 1])
  BY <1>2, NumeralStep
<1>4. Numeral[m] = <<Digits[h + 1], Digits[i + 1]>>
  BY <1>1, TwoDigits
<1>5. Append(<<Digits[h + 1], Digits[i + 1]>>, Digits[j + 1]) =
         <<Digits[h + 1], Digits[i + 1], Digits[j + 1]>>
  <2>1. h \in 0..9
    OBVIOUS
  <2> QED BY <2>1, DigitFacts, AppendDigit
<1> QED BY <1>3, <1>4, <1>5, Zenon

(* The alternatives of the expression for a byte are the numerals up to    *)
(* 255.                                                                    *)
LEMMA OctetsAreBytes ==
    \A s : s \in Octet <=> \E n \in 0..255 : s = Numeral[n]
<1>0. Digits[1 + 1] = "1" /\ Digits[2 + 1] = "2" /\ Digits[5 + 1] = "5"
  BY DEF Digits
<1>1. \A low, high \in 0..9 : \A a :
         a \in DigitsFrom(low, high) <=> \E i \in low..high : a = Digits[i + 1]
  BY DEF DigitsFrom
<1>2. ASSUME NEW s, s \in Octet PROVE \E n \in 0..255 : s = Numeral[n]
  <2>1. CASE s \in {<<a>> : a \in DigitsFrom(0, 9)}
    <3>1. PICK i \in 0..9 : s = <<Digits[i + 1]>>
      BY <1>1, <2>1
    <3>2. s = Numeral[i]
      BY <3>1, NumeralStep
    <3> QED BY <3>2
  <2>2. CASE s \in {<<a, b>> : a \in DigitsFrom(1, 9), b \in DigitsFrom(0, 9)}
    <3>1. PICK i \in 1..9, j \in 0..9 : s = <<Digits[i + 1], Digits[j + 1]>>
      BY <1>1, <2>2
    <3>2. PICK n \in 0..255 : n = 10 * i + j
      OBVIOUS
    <3>3. s = Numeral[n]
      BY <3>1, <3>2, TwoDigits
    <3> QED BY <3>3
  <2>3. CASE s \in {<<"1", a, b>> : a, b \in DigitsFrom(0, 9)}
    <3>1. PICK i \in 0..9, j \in 0..9 : s = <<Digits[1 + 1], Digits[i + 1], Digits[j + 1]>>
      BY <1>0, <1>1, <2>3
    <3>2. PICK n \in 0..255 : n = 100 * 1 + 10 * i + j
      OBVIOUS
    <3>3. s = Numeral[n]
      <4>1. PICK h \in 1..9 : h = 1
        OBVIOUS
      <4>2. n \in Nat /\ n = 100 * h + 10 * i + j
        BY <3>2, <4>1
      <4>3. Numeral[n] = <<Digits[h + 1], Digits[i + 1], Digits[j + 1]>>
        BY <4>2, ThreeDigits
      <4> QED BY <3>1, <4>1, <4>3, Zenon
    <3> QED BY <3>3
  <2>4. CASE s \in {<<"2", a, b>> : a \in DigitsFrom(0, 4), b \in DigitsFrom(0, 9)}
    <3>1. PICK i \in 0..4, j \in 0..9 : s = <<Digits[2 + 1], Digits[i + 1], Digits[j + 1]>>
      BY <1>0, <1>1, <2>4
    <3>2. PICK n \in 0..255 : n = 100 * 2 + 10 * i + j
      OBVIOUS
    <3>3. s = Numeral[n]
      <4>1. PICK h \in 1..9 : h = 2
        OBVIOUS
      <4>2. n \in Nat /\ i \in 0..9 /\ n = 100 * h + 10 * i + j
        BY <3>2, <4>1
      <4>3. Numeral[n] = <<Digits[h + 1], Digits[i + 1], Digits[j + 1]>>
        BY <4>2, ThreeDigits
      <4> QED BY <3>1, <4>1, <4>3, Zenon
    <3> QED BY <3>3
  <2>5. CASE s \in {<<"2", "5", b>> : b \in DigitsFrom(0, 5)}
    <3>1. PICK j \in 0..5 : s = <<Digits[2 + 1], Digits[5 + 1], Digits[j + 1]>>
      BY <1>0, <1>1, <2>5
    <3>2. PICK n \in 0..255 : n = 100 * 2 + 10 * 5 + j
      OBVIOUS
    <3>3. s = Numeral[n]
      <4>1. PICK h \in 1..9 : h = 2
        OBVIOUS
      <4>2. PICK i \in 0..9 : i = 5
        OBVIOUS
      <4>3. n \in Nat /\ j \in 0..9 /\ n = 100 * h + 10 * i + j
        BY <3>2, <4>1, <4>2
      <4>4. Numeral[n] = <<Digits[h + 1], Digits[i + 1], Digits[j + 1]>>
        BY <4>3, ThreeDigits
      <4> QED BY <3>1, <4>1, <4>2, <4>4, Zenon
    <3> QED BY <3>3
  <2> QED BY <1>2, <2>1, <2>2, <2>3, <2>4, <2>5 DEF Octet
<1>3. ASSUME NEW n \in 0..255 PROVE Numeral[n] \in Octet
  <2>1. CASE n < 10
    <3>1. n \in 0..9
      BY <2>1
    <3>2. Numeral[n] = <<Digits[n + 1]>> /\ Digits[n + 1] \in DigitsFrom(0, 9)
      BY <3>1, NumeralStep, DigitFacts
    <3> QED BY <3>2 DEF Octet
  <2>2. CASE ~(n < 10) /\ n < 100
    <3>1. PICK i \in 1..9, j \in 0..9 : n = 10 * i + j
      <4>1. n \div 10 \in 1..9 /\ n % 10 \in 0..9 /\ n = 10 * (n \div 10) + (n % 10)
        BY <2>2
      <4> QED BY <4>1
    <3>2. Numeral[n] = <<Digits[i + 1], Digits[j + 1]>>
      BY <3>1, TwoDigits
    <3>3. Digits[i + 1] \in DigitsFrom(1, 9) /\ Digits[j + 1] \in DigitsFrom(0, 9)
      BY <1>1
    <3> QED BY <3>2, <3>3 DEF Octet
  <2>3. CASE ~(n < 100)
    <3>1. PICK h \in 1..2, i \in 0..9, j \in 0..9 :
              /\ n = 100 * h + 10 * i + j
              /\ h = 1 \/ (h = 2 /\ i \in 0..4) \/ (h = 2 /\ i = 5 /\ j \in 0..5)
      <4> PICK h : h = n \div 100
        OBVIOUS
      <4> PICK r : r = n - 100 * h
        OBVIOUS
      <4>1. h \in 1..2 /\ r \in 0..99 /\ n = 100 * h + r
        BY <2>3
      <4> PICK i : i = r \div 10
        OBVIOUS
      <4> PICK j : j = r % 10
        OBVIOUS
      <4>2. i \in 0..9 /\ j \in 0..9 /\ r = 10 * i + j
        BY <4>1
      <4>3. n = 100 * h + 10 * i + j
        BY <4>1, <4>2
      <4>4. h = 1 \/ (h = 2 /\ i \in 0..4) \/ (h = 2 /\ i = 5 /\ j \in 0..5)
        BY <4>1, <4>2, <4>3
      <4> QED BY <4>1, <4>2, <4>3, <4>4
    <3>2. Numeral[n] = <<Digits[h + 1], Digits[i + 1], Digits[j + 1]>>
      <4>1. h \in 1..9 /\ n \in Nat
        OBVIOUS
      <4> QED BY <3>1, <4>1, ThreeDigits
    <3>3. Digits[i + 1] \in DigitsFrom(0, 9) /\ Digits[j + 1] \in DigitsFrom(0, 9)
      BY DigitFacts
    <3>4. CASE h = 1
      BY <1>0, <3>2, <3>3, <3>4 DEF Octet
    <3>5. CASE h = 2 /\ i \in 0..4
      <4>1. Digits[i + 1] \in DigitsFrom(0, 4)
        BY <1>1, <3>5
      <4> QED BY <1>0, <3>2, <3>3, <3>5, <4>1 DEF Octet
    <3>6. CASE h = 2 /\ i = 5 /\ j \in 0..5
      <4>1. Digits[j + 1] \in DigitsFrom(0, 5)
        BY <1>1, <3>6
      <4> QED BY <1>0, <3>2, <3>6, <4>1 DEF Octet
    <3> QED BY <3>1, <3>4, <3>5, <3>6
  <2> QED BY <2>1, <2>2, <2>3
<1> QED BY <1>2, <1>3
-----------------------------------------------------------------------------
(* What the places of the tokens say of the groups between them: none is   *)
(* empty, none is longer than four, and their characters are hexadecimal.  *)
Apart(K, n) == \A i \in (K \cup {0, n + 1}) \ {n + 1} : i + 1 \notin K \cup {0, n + 1}
Near(K, n) == \A i \in 1 .. n - 4 : (i .. i + 4) \cap K # {}
IsHex(t, K) == \A i \in DOMAIN t \ K : t[i] \in HexDigits
InGroups(t, c) ==
    Apart(Places(t, c), Len(t)) /\ Near(Places(t, c), Len(t)) /\ IsHex(t, Places(t, c))

(* A text without tokens is a group.                                       *)
LEMMA GroupAlone ==
    ASSUME NEW C, NEW c \in C, NEW u \in Seq(C), IsFree(u, c)
    PROVE  InGroups(u, c) <=> IsGroup(u)
<1>1. Places(u, c) = {} /\ Len(u) \in Nat /\ DOMAIN u = 1..Len(u)
  BY DEF Places, IsFree
<1>2. Apart({}, Len(u)) <=> Len(u) # 0
  BY <1>1 DEF Apart
<1>3. Near({}, Len(u)) <=> Len(u) <= 4
  <2>1. ASSUME Len(u) <= 4 PROVE Near({}, Len(u))
    BY <1>1, <2>1 DEF Near
  <2>2. ASSUME ~(Len(u) <= 4) PROVE ~Near({}, Len(u))
    <3>1. 1 \in 1 .. Len(u) - 4
      BY <1>1, <2>2
    <3> QED BY <3>1 DEF Near
  <2> QED BY <2>1, <2>2
<1>4. IsHex(u, {}) <=> Range(u) \subseteq HexDigits
  BY <1>1 DEF IsHex, Range
<1> QED BY <1>1, <1>2, <1>3, <1>4 DEF InGroups, IsGroup

(* What follows the last token is a group, independent of what precedes    *)
(* it.                                                                     *)
LEMMA GroupBehind ==
    ASSUME NEW C, NEW c \in C, NEW x \in Seq(C), NEW u \in Seq(C), IsFree(u, c)
    PROVE  InGroups(Behind(x, c, u), c) <=> InGroups(x, c) /\ IsGroup(u)
<1> DEFINE t == Behind(x, c, u)
<1>1. HasPlaces(t, x, c, u) /\ t \in Seq(C)
  BY BehindPlaces, BehindType
<1> PICK K : K = Places(x, c)
  OBVIOUS
<1> PICK L \in Nat : L = Len(x)
  OBVIOUS
<1> PICK M \in Nat : M = Len(u)
  OBVIOUS
<1> PICK N \in Nat : N = L + 1 + M
  OBVIOUS
<1>2. Places(t, c) = K \cup {L + 1}
  BY PlacesBehind
<1> HIDE DEF t
<1>3. Len(t) = N /\ DOMAIN t = 1..N /\ DOMAIN x = 1..L /\ DOMAIN u = 1..M
  BY <1>1 DEF HasPlaces
<1>4. K \subseteq 1..L
  BY <1>3 DEF Places
<1>5. Apart(K \cup {L + 1}, N) <=> Apart(K, L) /\ M # 0
  <2> PICK B : B = K \cup {0, L + 1}
    OBVIOUS
  <2>1. B \subseteq 0 .. L + 1 /\ L + 1 \in B
    BY <1>4
  <2>2. Apart(K, L) <=> \A i \in B \ {L + 1} : i + 1 \notin B
    BY DEF Apart
  <2>3. Apart(K \cup {L + 1}, N) <=> \A i \in B : i + 1 \notin B /\ i + 1 # N + 1
    <3>1. (K \cup {L + 1}) \cup {0, N + 1} = B \cup {N + 1}
      OBVIOUS
    <3>2. N + 1 \notin B /\ N + 2 \notin B
      BY <2>1
    <3>3. (B \cup {N + 1}) \ {N + 1} = B
      BY <3>2
    <3> QED BY <3>1, <3>3 DEF Apart
  <2>4. (L + 1) + 1 \notin B
    BY <2>1
  <2>5. \A i \in B : i + 1 = N + 1 <=> (i = L + 1 /\ M = 0)
    BY <2>1
  <2> QED BY <2>1, <2>2, <2>3, <2>4, <2>5
<1>6. Near(K \cup {L + 1}, N) <=> Near(K, L) /\ M <= 4
  <2>1. ASSUME Near(K, L), M <= 4, NEW i \in 1 .. N - 4
        PROVE  (i .. i + 4) \cap (K \cup {L + 1}) # {}
    <3>1. CASE i <= L - 4
      <4>1. i \in 1 .. L - 4
        BY <3>1
      <4>2. (i .. i + 4) \cap K # {}
        BY <2>1, <4>1 DEF Near
      <4> QED BY <4>2
    <3>2. CASE ~(i <= L - 4)
      <4>1. L + 1 \in i .. i + 4
        BY <2>1, <3>2
      <4> QED BY <4>1
    <3> QED BY <3>1, <3>2
  <2>2. ASSUME Near(K \cup {L + 1}, N) PROVE M <= 4
    <3> SUFFICES ASSUME ~(M <= 4) PROVE FALSE
      OBVIOUS
    <3>1. L + 2 \in 1 .. N - 4
      OBVIOUS
    <3>2. ((L + 2) .. (L + 2) + 4) \cap (K \cup {L + 1}) # {}
      BY <2>2, <3>1 DEF Near
    <3> QED BY <1>4, <3>2
  <2>3. ASSUME Near(K \cup {L + 1}, N), NEW i \in 1 .. L - 4
        PROVE  (i .. i + 4) \cap K # {}
    <3>1. i \in 1 .. N - 4 /\ L + 1 \notin i .. i + 4
      OBVIOUS
    <3>2. (i .. i + 4) \cap (K \cup {L + 1}) # {}
      BY <2>3, <3>1 DEF Near
    <3> QED BY <3>1, <3>2
  <2>4. Near(K, L) /\ M <= 4 => Near(K \cup {L + 1}, N)
    BY <2>1 DEF Near
  <2>5. Near(K \cup {L + 1}, N) => Near(K, L)
    BY <2>3 DEF Near
  <2> QED BY <2>2, <2>4, <2>5
<1>7. IsHex(t, K \cup {L + 1}) <=> IsHex(x, K) /\ Range(u) \subseteq HexDigits
  <2>1. ASSUME IsHex(t, K \cup {L + 1}) PROVE IsHex(x, K)
    <3>1. ASSUME NEW i \in 1..L, i \notin K PROVE x[i] \in HexDigits
      <4>1. i \in 1..N /\ i # L + 1 /\ t[i] = x[i]
        BY <1>1 DEF HasPlaces
      <4> QED BY <1>3, <2>1, <3>1, <4>1 DEF IsHex
    <3> QED BY <1>3, <3>1 DEF IsHex
  <2>2. ASSUME IsHex(t, K \cup {L + 1}), NEW i \in 1..M PROVE u[i] \in HexDigits
    <3>1. L + 1 + i \in 1..N /\ L + 1 + i \notin K \cup {L + 1}
      BY <1>4
    <3>2. t[L + 1 + i] = u[i]
      BY <1>1 DEF HasPlaces
    <3>3. t[L + 1 + i] \in HexDigits
      BY <1>3, <2>2, <3>1 DEF IsHex
    <3> QED BY <3>2, <3>3
  <2>3. ASSUME IsHex(x, K), \A i \in 1..M : u[i] \in HexDigits,
               NEW i \in 1..N, i \notin K \cup {L + 1}
        PROVE  t[i] \in HexDigits
    <3>1. CASE i <= L
      <4>1. i \in 1..L /\ t[i] = x[i]
        BY <1>1, <3>1 DEF HasPlaces
      <4> QED BY <1>3, <2>3, <4>1 DEF IsHex
    <3>2. CASE ~(i <= L)
      <4>1. PICK k \in 1..M : i = L + 1 + k
        <5>1. i - (L + 1) \in 1..M /\ i = L + 1 + (i - (L + 1))
          BY <2>3, <3>2
        <5> QED BY <5>1
      <4>2. t[i] = u[k]
        BY <1>1, <4>1 DEF HasPlaces
      <4> QED BY <2>3, <4>2
    <3> QED BY <3>1, <3>2
  <2>4. Range(u) \subseteq HexDigits <=> \A i \in 1..M : u[i] \in HexDigits
    BY <1>3 DEF Range
  <2>5. IsHex(x, K) /\ (\A i \in 1..M : u[i] \in HexDigits) => IsHex(t, K \cup {L + 1})
    BY <1>3, <2>3 DEF IsHex
  <2> QED BY <2>1, <2>2, <2>4, <2>5
<1>8. IsGroup(u) <=> M # 0 /\ M <= 4 /\ Range(u) \subseteq HexDigits
  <2>0. \A m \in Nat : m \in 1..4 <=> m # 0 /\ m <= 4
    OBVIOUS
  <2>1. M \in 1..4 <=> M # 0 /\ M <= 4
    BY <2>0, Zenon
  <2>2. IsGroup(u) <=> M \in 1..4 /\ Range(u) \subseteq HexDigits
    BY Zenon DEF IsGroup
  <2> QED BY <2>1, <2>2, Zenon
<1>9. InGroups(t, c) <=> InGroups(x, c) /\ IsGroup(u)
  BY <1>2, <1>3, <1>5, <1>6, <1>7, <1>8 DEF InGroups
<1> QED BY <1>9 DEF t

(* The groups of a text are those of its list.                             *)
LEMMA JoinGroups ==
    ASSUME NEW C, NEW c \in C
    PROVE  \A a \in Lists(C, c) :
              InGroups(joinStrings(a, c), c) <=> \A i \in 1..Len(a) : IsGroup(a[i])
<1> DEFINE AllGroups(a) == \A i \in 1..Len(a) : IsGroup(a[i])
           Good(a) == InGroups(joinStrings(a, c), c) <=> AllGroups(a)
           P == {n \in Nat : \A a \in Lists(C, c) : Len(a) = n => Good(a)}
<1>1. ASSUME NEW n \in Nat, \A m \in 0 .. n - 1 : m \in P,
             NEW a \in Lists(C, c), Len(a) = n
      PROVE  Good(a)
  <2>1. PICK f \in Seq(Seq(C)), u \in Seq(C) :
              /\ a = Append(f, u) /\ IsFree(u, c) /\ Len(f) = Len(a) - 1
              /\ f = << >> \/ f \in Lists(C, c)
    BY ListFromBack
  <2>2. AllGroups(a) <=> AllGroups(f) /\ IsGroup(u)
    <3>1. /\ Len(a) = Len(f) + 1 /\ Len(f) \in Nat /\ a[Len(f) + 1] = u
          /\ \A i \in 1..Len(f) : a[i] = f[i]
      BY <2>1, AppendProperties
    <3>2. \A i \in 1..Len(a) : i \in 1..Len(f) \/ i = Len(f) + 1
      BY <3>1
    <3>3. Len(f) + 1 \in 1..Len(a) /\ \A i \in 1..Len(f) : i \in 1..Len(a)
      BY <3>1
    <3> QED BY <3>1, <3>2, <3>3
  <2>3. CASE f = << >>
    <3>1. Append(<< >>, u) = <<u>>
      OBVIOUS
    <3>2. joinStrings(a, c) = u
      BY <2>1, <2>3, <3>1, JoinOne
    <3>3. AllGroups(f)
      BY <2>3
    <3> QED BY <2>1, <2>2, <3>2, <3>3, GroupAlone
  <2>4. CASE f # << >>
    <3>1. PICK x : x = joinStrings(f, c)
      OBVIOUS
    <3>2. joinStrings(a, c) = Behind(x, c, u) /\ x \in Seq(C)
      BY <2>1, <2>4, <3>1, JoinAppend, JoinType
    <3>3. InGroups(Behind(x, c, u), c) <=> InGroups(x, c) /\ IsGroup(u)
      BY <2>1, <3>2, GroupBehind
    <3>4. Len(f) \in 0 .. n - 1
      BY <1>1, <2>1
    <3>5. Good(f)
      <4> HIDE DEF Good
      <4> QED BY <1>1, <2>1, <2>4, <3>4
    <3> HIDE DEF AllGroups
    <3> QED BY <2>2, <3>1, <3>2, <3>3, <3>5
  <2> QED BY <2>3, <2>4
<1>2. Nat \subseteq P
  <2>1. ASSUME NEW n \in Nat, \A m \in 0 .. n - 1 : m \in P PROVE n \in P
    <3>1. \A a \in Lists(C, c) : Len(a) = n => Good(a)
      <4> HIDE DEF P, Good
      <4> QED BY <1>1, <2>1
    <3> HIDE DEF Good
    <3> QED BY <3>1
  <2> HIDE DEF P
  <2> QED BY <2>1, StrongInduction
<1>3. \A a \in Lists(C, c) : Good(a)
  <2>1. \A a \in Lists(C, c) : Len(a) \in Nat
    BY DEF Lists
  <2> HIDE DEF Good
  <2> QED BY <1>2, <2>1
<1> QED BY <1>3

(* An address is four bytes or eight groups, for every text.               *)
THEOREM AddressesAreComplete ==
    ASSUME NEW Char, text \in Seq(Char)
    PROVE  AddressIsComplete
<1> PICK C : C = Char \cup {".", ":"}
  OBVIOUS
<1> PICK t : t = text
  OBVIOUS
<1>1. t \in Seq(C) /\ "." \in C /\ ":" \in C
  OBVIOUS
<1>2. ASSUME NEW c \in C PROVE splitString(t, c) \in Seq(Seq(C))
  <2>1. CASE t = << >>
    <3>1. << >> \in Seq(Seq(C))
      OBVIOUS
    <3> QED BY <2>1, <3>1, SplitEmpty
  <2>2. CASE t # << >>
    BY <1>1, <2>2, SplitIsList DEF Lists
  <2> QED BY <2>1, <2>2
<1>3. (Len(splitString(t, ".")) = 4 /\ Range(splitString(t, ".")) \subseteq Octet)
         <=> FourBytes(t)
  <2> PICK parts : parts = splitString(t, ".")
    OBVIOUS
  <2>1. DOMAIN parts = 1..Len(parts)
    BY <1>1, <1>2
  <2>2. Range(parts) \subseteq Octet <=> \A i \in 1..Len(parts) : parts[i] \in Octet
    BY <2>1 DEF Range
  <2> QED BY <2>2, OctetsAreBytes DEF FourBytes
<1>4. (Len(splitString(t, ":")) = 8 /\ \A i \in 1..8 : IsGroup(splitString(t, ":")[i]))
         <=> EightGroups(t)
  <2> PICK parts : parts = splitString(t, ":")
    OBVIOUS
  <2>1. EightGroups(t) <=> Cardinality(Places(t, ":")) = 7 /\ InGroups(t, ":")
    BY DEF EightGroups, InGroups, Places, Apart, Near, IsHex
  <2>2. CASE t = << >>
    <3>1. Len(parts) = 0
      BY <1>1, <2>2, SplitEmpty
    <3>2. Places(t, ":") = {}
      BY <2>2 DEF Places
    <3>3. Cardinality(Places(t, ":")) = 0
      BY <3>2, FS_EmptySet, Zenon
    <3>4. ~EightGroups(t)
      BY <2>1, <3>3
    <3>5. Len(parts) # 8
      BY <3>1
    <3> QED BY <3>4, <3>5
  <2>3. CASE t # << >>
    <3>1. parts \in Lists(C, ":") /\ joinStrings(parts, ":") = t
      BY <1>1, <2>3, SplitIsList
    <3>2. IsFiniteSet(Places(t, ":")) /\ Len(parts) = Cardinality(Places(t, ":")) + 1
      BY <1>1, <3>1, JoinCounts
    <3>3. Cardinality(Places(t, ":")) \in Nat
      BY <3>2, FS_CardinalityType
    <3>4. InGroups(t, ":") <=> \A i \in 1..Len(parts) : IsGroup(parts[i])
      BY <1>1, <3>1, JoinGroups
    <3>5. Len(parts) = 8 <=> Cardinality(Places(t, ":")) = 7
      <4>1. PICK k \in Nat : k = Cardinality(Places(t, ":"))
        BY <3>3
      <4>2. PICK l : l = Len(parts)
        OBVIOUS
      <4>3. l = k + 1
        BY <3>2, <4>1, <4>2, Zenon
      <4>4. l = 8 <=> k = 7
        BY <4>3
      <4> QED BY <4>1, <4>2, <4>4, Zenon
    <3> QED BY <2>1, <3>4, <3>5
  <2> QED BY <2>2, <2>3
<1> QED BY <1>3, <1>4 DEF AddressIsComplete, isValidIp
=============================================================================
