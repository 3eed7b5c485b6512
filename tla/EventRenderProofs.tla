------------------------- MODULE EventRenderProofs --------------------------
(***************************************************************************)
(* What the renderers of EventRender return, for texts of any length and   *)
(* characters: the facts the proofs about EventPublish rest on.            *)
(*                                                                         *)
(* The loops of the renderers are recursive functions (Only, FlattenSeq).  *)
(* Each is shown to have the value its recursion describes, by induction   *)
(* over its length; what it returns then follows by induction again.       *)
(***************************************************************************)
EXTENDS EventRender, SequenceTheorems, WellFoundedInduction, NaturalsInduction, TLAPS

-----------------------------------------------------------------------------
(***************************************************************************)
(* Induction over the natural numbers, as a fact about a set: what the     *)
(* definitions by recursion below are reasoned about with.                 *)
(***************************************************************************)
LEMMA SetInduction ==
    ASSUME NEW S, 0 \in S, \A n \in Nat : n \in S => n + 1 \in S
    PROVE  Nat \subseteq S
PROOF
  <1> DEFINE Out == Nat \ S
  <1>1. SUFFICES ASSUME Out # {} PROVE FALSE
    OBVIOUS
  <1>2. PICK m \in Out : \A k \in Out : ~(<<k, m>> \in OpToRel(<, Nat))
    <2>1. Out \subseteq Nat
      OBVIOUS
    <2> HIDE DEF Out
    <2> QED
      BY <1>1, <2>1, NatLessThanWellFounded, WFMin, Zenon
  <1>3. m - 1 \in Out
    OBVIOUS
  <1>4. <<m - 1, m>> \in OpToRel(<, Nat)
    <2>1. m \in Nat /\ m - 1 \in Nat /\ m - 1 < m
      OBVIOUS
    <2> QED
      BY <2>1, Zenon DEF OpToRel
  <1> QED
    BY <1>2, <1>3, <1>4

\* The same over the sequences of a set.
LEMMA SeqInduction ==
    ASSUME NEW U, NEW S, <<>> \in S,
           \A s \in Seq(U) : s \in S => \A x \in U : Append(s, x) \in S
    PROVE  Seq(U) \subseteq S
PROOF
  <1> DEFINE Good == {n \in Nat : \A s \in Seq(U) : Len(s) = n => s \in S}
  <1>1. 0 \in Good
    BY EmptySeq
  <1>2. ASSUME NEW n \in Nat, n \in Good
        PROVE  n + 1 \in Good
    <2> SUFFICES ASSUME NEW s \in Seq(U), Len(s) = n + 1
                 PROVE  s \in S
      OBVIOUS
    <2>1. s # <<>>
      BY EmptySeq
    <2>2. PICK t \in Seq(U), x \in U : s = Append(t, x)
      BY <2>1, SequenceEmptyOrAppend
    <2>3. Len(t) = n
      <3>1. Len(t) + 1 = n + 1 /\ Len(t) \in Nat
        BY <2>2, AppendProperties
      <3> QED
        BY <3>1
    <2>4. t \in S
      BY <1>2, <2>3
    <2> QED
      BY <2>2, <2>4
  <1>3. Nat \subseteq Good
    <2> HIDE DEF Good
    <2> QED
      BY <1>1, <1>2, SetInduction
  <1> QED
    <2> SUFFICES ASSUME NEW s \in Seq(U)
                 PROVE  s \in S
      OBVIOUS
    <2>1. Len(s) \in Good
      BY <1>3
    <2> QED
      BY <2>1

-----------------------------------------------------------------------------
(***************************************************************************)
(* Only(s, S): the recursion it is defined by has a solution, ...          *)
(***************************************************************************)
LEMMA OnlyRecursion ==
    ASSUME NEW U, NEW s \in Seq(U), NEW S
    PROVE  \E taken :
               /\ taken[0] = <<>>
               /\ \A n \in 1..Len(s) :
                      taken[n] = IF s[n] \in S THEN Append(taken[n - 1], s[n])
                                 ELSE taken[n - 1]
               /\ Only(s, S) = taken[Len(s)]
PROOF
  <1> DEFINE Solves(f, n) ==
                 f = [m \in 0..n |->
                         IF m = 0 THEN <<>>
                         ELSE IF s[m] \in S THEN Append(f[m - 1], s[m]) ELSE f[m - 1]]
             Solvable == {n \in Nat : \E f : Solves(f, n)}
  <1>1. 0 \in Solvable
    <2>1. Solves([m \in 0..0 |-> <<>>], 0)
      OBVIOUS
    <2> QED
      BY <2>1
  <1>2. ASSUME NEW n \in Nat, n \in Solvable
        PROVE  n + 1 \in Solvable
    <2>1. PICK f : Solves(f, n)
      BY <1>2
    <2> DEFINE g == [m \in 0..(n + 1) |->
                        IF m = n + 1
                        THEN IF s[m] \in S THEN Append(f[n], s[m]) ELSE f[n]
                        ELSE f[m]]
    <2>2. ASSUME NEW m \in 0..(n + 1)
          PROVE  g[m] = IF m = 0 THEN <<>>
                        ELSE IF s[m] \in S THEN Append(g[m - 1], s[m]) ELSE g[m - 1]
      <3>1. CASE m = n + 1
        BY <3>1
      <3>2. CASE m \in 0..n
        <4>1. g[m] = f[m]
          BY <3>2
        <4>2. f[m] = IF m = 0 THEN <<>>
                     ELSE IF s[m] \in S THEN Append(f[m - 1], s[m]) ELSE f[m - 1]
          BY <2>1, <3>2
        <4>3. m # 0 => g[m - 1] = f[m - 1]
          BY <3>2
        <4> HIDE DEF g
        <4> QED
          BY <4>1, <4>2, <4>3
      <3> QED
        BY <3>1, <3>2
    <2>3. Solves(g, n + 1)
      BY <2>2
    <2> HIDE DEF g
    <2> QED
      BY <2>3
  <1>3. Len(s) \in Nat
    OBVIOUS
  <1>4. Nat \subseteq Solvable
    <2> HIDE DEF Solvable
    <2> QED
      BY <1>1, <1>2, SetInduction
  <1>5. \E f : Solves(f, Len(s))
    BY <1>3, <1>4
  <1> DEFINE taken == CHOOSE f : Solves(f, Len(s))
  <1>6. Solves(taken, Len(s))
    <2> HIDE DEF Solves
    <2> QED
      BY <1>5
  <1>7. Only(s, S) = taken[Len(s)]
    BY DEF Only
  <1> HIDE DEF taken
  <1>8. \A m \in 0..Len(s) :
            taken[m] = IF m = 0 THEN <<>>
                       ELSE IF s[m] \in S THEN Append(taken[m - 1], s[m]) ELSE taken[m - 1]
    BY <1>6, Zenon
  <1> HIDE DEF Solves
  <1> QED
    BY <1>3, <1>7, <1>8

(***************************************************************************)
(* ... and it takes just the elements of s that are in S, each once if s   *)
(* holds each once.                                                        *)
(***************************************************************************)
Injective(s) == \A i, j \in DOMAIN s : s[i] = s[j] => i = j

LEMMA OnlyProperties ==
    ASSUME NEW U, NEW s \in Seq(U), NEW S
    PROVE  /\ Only(s, S) \in Seq(U)
           /\ \A k \in DOMAIN Only(s, S) : \E i \in DOMAIN s : Only(s, S)[k] = s[i] /\ s[i] \in S
           /\ \A i \in DOMAIN s : s[i] \in S => \E k \in DOMAIN Only(s, S) : Only(s, S)[k] = s[i]
           /\ Injective(s) => Injective(Only(s, S))
PROOF
  <1>1. PICK taken : /\ taken[0] = <<>>
                     /\ \A n \in 1..Len(s) :
                            taken[n] = IF s[n] \in S THEN Append(taken[n - 1], s[n])
                                       ELSE taken[n - 1]
                     /\ Only(s, S) = taken[Len(s)]
    BY OnlyRecursion
  <1> DEFINE Exact(t, n) ==
                 /\ t \in Seq(U)
                 /\ \A k \in DOMAIN t : \E i \in 1..n : t[k] = s[i] /\ s[i] \in S
                 /\ \A i \in 1..n : s[i] \in S => \E k \in DOMAIN t : t[k] = s[i]
                 /\ Injective(s) => Injective(t)
             Good == {n \in Nat : n <= Len(s) => Exact(taken[n], n)}
  <1>2. Len(s) \in Nat /\ DOMAIN s = 1..Len(s)
    OBVIOUS
  <1>3. 0 \in Good
    <2>1. DOMAIN <<>> = {} /\ <<>> \in Seq(U) /\ 1..0 = {}
      OBVIOUS
    <2>2. Exact(<<>>, 0)
      BY <2>1, Zenon DEF Injective
    <2> HIDE DEF Exact
    <2> QED
      BY <1>1, <2>2
  <1>4. ASSUME NEW n \in Nat, n \in Good
        PROVE  n + 1 \in Good
    <2>1. SUFFICES ASSUME n + 1 <= Len(s)
                   PROVE  Exact(taken[n + 1], n + 1)
      OBVIOUS
    <2>2. Exact(taken[n], n)
      BY <1>2, <1>4, <2>1
    <2>3. n + 1 \in 1..Len(s) /\ (n + 1) - 1 = n
      BY <1>2, <2>1
    <2>4. CASE s[n + 1] \notin S
      <3>1. taken[n + 1] = taken[n]
        BY <1>1, <2>3, <2>4
      <3> QED
        BY <2>2, <2>4, <3>1
    <2>5. CASE s[n + 1] \in S
      <3> DEFINE t == taken[n]
                 u == taken[n + 1]
      <3>1. u = Append(t, s[n + 1])
        <4>1. taken[n + 1] = IF s[n + 1] \in S THEN Append(taken[(n + 1) - 1], s[n + 1])
                             ELSE taken[(n + 1) - 1]
          BY <1>1, <2>3, Zenon
        <4> QED
          BY <2>3, <2>5, <4>1, Zenon
      <3>2. t \in Seq(U) /\ s[n + 1] \in U
        BY <1>2, <2>2, <2>3
      <3> HIDE DEF t, u
      <3>3. /\ u \in Seq(U) /\ Len(u) = Len(t) + 1 /\ Len(t) \in Nat
            /\ DOMAIN u = 1..(Len(t) + 1) /\ DOMAIN t = 1..Len(t)
            /\ \A k \in 1..Len(t) : u[k] = t[k]
            /\ u[Len(t) + 1] = s[n + 1]
        BY <3>1, <3>2, AppendProperties
      <3>4. Exact(t, n)
        BY <2>2 DEF t
      <3>5. \A k \in DOMAIN u : \E i \in 1..(n + 1) : u[k] = s[i] /\ s[i] \in S
        <4> SUFFICES ASSUME NEW k \in DOMAIN u
                     PROVE  \E i \in 1..(n + 1) : u[k] = s[i] /\ s[i] \in S
          OBVIOUS
        <4>1. CASE k \in 1..Len(t)
          <5>1. \E i \in 1..n : t[k] = s[i] /\ s[i] \in S
            BY <3>3, <3>4, <4>1
          <5> QED
            BY <3>3, <4>1, <5>1
        <4>2. CASE k = Len(t) + 1
          BY <2>3, <2>5, <3>3, <4>2
        <4> QED
          BY <3>3, <4>1, <4>2
      <3>6. \A i \in 1..(n + 1) : s[i] \in S => \E k \in DOMAIN u : u[k] = s[i]
        <4> SUFFICES ASSUME NEW i \in 1..(n + 1), s[i] \in S
                     PROVE  \E k \in DOMAIN u : u[k] = s[i]
          OBVIOUS
        <4>1. CASE i \in 1..n
          <5>1. \E k \in DOMAIN t : t[k] = s[i]
            BY <3>4, <4>1
          <5> QED
            BY <3>3, <5>1
        <4>2. CASE i = n + 1
          BY <3>3, <4>2
        <4> QED
          BY <4>1, <4>2
      <3>7. Injective(s) => Injective(u)
        <4>1. SUFFICES ASSUME Injective(s), NEW i \in DOMAIN u, NEW j \in DOMAIN u, u[i] = u[j]
                       PROVE  i = j
          BY DEF Injective
        <4>2. \A k \in 1..Len(t) : t[k] # s[n + 1]
          <5> SUFFICES ASSUME NEW k \in DOMAIN t, t[k] = s[n + 1]
                       PROVE  FALSE
            BY <3>3
          <5>1. PICK m \in 1..n : t[k] = s[m]
            BY <3>4
          <5>2. m \in DOMAIN s /\ n + 1 \in DOMAIN s /\ m # n + 1
            BY <1>2, <2>3, <5>1
          <5> QED
            BY <4>1, <5>1, <5>2 DEF Injective
        <4>3. \A k, m \in 1..Len(t) : t[k] = t[m] => k = m
          BY <3>3, <3>4, <4>1 DEF Injective
        <4>4. /\ i \in 1..Len(t) \/ i = Len(t) + 1
              /\ j \in 1..Len(t) \/ j = Len(t) + 1
          BY <3>3
        <4> QED
          BY <3>3, <4>1, <4>2, <4>3, <4>4
      <3>8. Exact(u, n + 1)
        BY <3>3, <3>5, <3>6, <3>7
      <3> QED
        BY <3>8 DEF u
    <2> QED
      BY <2>4, <2>5
  <1>5. Nat \subseteq Good
    <2> HIDE DEF Good
    <2> QED
      BY <1>3, <1>4, SetInduction
  <1>6. Exact(taken[Len(s)], Len(s))
    BY <1>2, <1>5
  <1> DEFINE only == Only(s, S)
  <1>7. Exact(only, Len(s))
    <2> HIDE DEF Exact
    <2> QED
      BY <1>1, <1>6
  <1> HIDE DEF only
  <1>8. /\ only \in Seq(U)
        /\ \A k \in DOMAIN only : \E i \in DOMAIN s : only[k] = s[i] /\ s[i] \in S
        /\ \A i \in DOMAIN s : s[i] \in S => \E k \in DOMAIN only : only[k] = s[i]
        /\ Injective(s) => Injective(only)
    BY <1>2, <1>7
  <1> QED
    BY <1>8 DEF only

LEMMA ConcatAppend ==
    ASSUME NEW U, NEW s \in Seq(U), NEW t \in Seq(U), NEW x \in U
    PROVE  s \o Append(t, x) = Append(s \o t, x)
PROOF
  <1>1. Append(t, x) = t \o <<x>> /\ <<x>> \in Seq(U) /\ s \o t \in Seq(U)
    BY AppendIsConcat, ConcatProperties
  <1>2. Append(s \o t, x) = (s \o t) \o <<x>>
    BY <1>1, AppendIsConcat
  <1> QED
    BY <1>1, <1>2, ConcatAssociative

LEMMA OnlyEmpty == \A S : Only(<<>>, S) = <<>>
PROOF
  <1>1. ASSUME NEW S, NEW s \in Seq(Nat), Len(s) = 0
        PROVE  Only(s, S) = <<>>
    <2>1. PICK taken : /\ taken[0] = <<>>
                       /\ \A n \in 1..Len(s) :
                              taken[n] = IF s[n] \in S THEN Append(taken[n - 1], s[n])
                                         ELSE taken[n - 1]
                       /\ Only(s, S) = taken[Len(s)]
      BY OnlyRecursion
    <2> QED
      BY <1>1, <2>1
  <1>2. <<>> \in Seq(Nat) /\ Len(<<>>) = 0
    BY EmptySeq
  <1> QED
    BY <1>1, <1>2, Zenon

LEMMA OnlyAppend ==
    ASSUME NEW U, NEW s \in Seq(U), NEW x \in U, NEW S
    PROVE  Only(Append(s, x), S) = IF x \in S THEN Append(Only(s, S), x) ELSE Only(s, S)
PROOF
  <1> DEFINE more == Append(s, x)
             n    == Len(s)
  <1>1. /\ n \in Nat /\ more \in Seq(U) /\ Len(more) = n + 1
        /\ \A i \in 1..n : more[i] = s[i]
        /\ more[n + 1] = x
    BY AppendProperties
  <1> HIDE DEF more, n
  <1>2. PICK f : /\ f[0] = <<>>
                 /\ \A k \in 1..Len(more) :
                        f[k] = IF more[k] \in S THEN Append(f[k - 1], more[k]) ELSE f[k - 1]
                 /\ Only(more, S) = f[Len(more)]
    BY <1>1, OnlyRecursion
  <1>3. PICK g : /\ g[0] = <<>>
                 /\ \A k \in 1..n :
                        g[k] = IF s[k] \in S THEN Append(g[k - 1], s[k]) ELSE g[k - 1]
                 /\ Only(s, S) = g[n]
    BY OnlyRecursion DEF n
  <1> DEFINE Good == {k \in Nat : k <= n => f[k] = g[k]}
  <1>4. 0 \in Good
    BY <1>2, <1>3
  <1>5. ASSUME NEW k \in Nat, k \in Good
        PROVE  k + 1 \in Good
    <2>1. SUFFICES ASSUME k + 1 <= n
                   PROVE  f[k + 1] = g[k + 1]
      OBVIOUS
    <2>2. f[k] = g[k]
      BY <1>1, <1>5, <2>1
    <2>3. k + 1 \in 1..n /\ k + 1 \in 1..Len(more) /\ (k + 1) - 1 = k
      BY <1>1, <2>1
    <2>4. /\ f[k + 1] = IF more[k + 1] \in S THEN Append(f[(k + 1) - 1], more[k + 1])
                        ELSE f[(k + 1) - 1]
          /\ g[k + 1] = IF s[k + 1] \in S THEN Append(g[(k + 1) - 1], s[k + 1])
                        ELSE g[(k + 1) - 1]
      BY <1>2, <1>3, <2>3, Zenon
    <2>5. more[k + 1] = s[k + 1]
      BY <1>1, <2>3
    <2> QED
      BY <2>2, <2>3, <2>4, <2>5
  <1>6. Nat \subseteq Good
    <2> HIDE DEF Good
    <2> QED
      BY <1>4, <1>5, SetInduction
  <1>7. f[n] = g[n]
    BY <1>1, <1>6
  <1>8. n + 1 \in 1..Len(more) /\ (n + 1) - 1 = n
    BY <1>1
  <1>9. f[n + 1] = IF more[n + 1] \in S THEN Append(f[(n + 1) - 1], more[n + 1])
                   ELSE f[(n + 1) - 1]
    BY <1>2, <1>8, Zenon
  <1> QED
    BY <1>1, <1>2, <1>3, <1>7, <1>8, <1>9, Zenon DEF more

LEMMA OnlyConcat ==
    ASSUME NEW U, NEW s \in Seq(U), NEW t \in Seq(U), NEW S
    PROVE  Only(s \o t, S) = Only(s, S) \o Only(t, S)
PROOF
  <1> DEFINE Good == {u \in Seq(U) : Only(s \o u, S) = Only(s, S) \o Only(u, S)}
  <1>0. \A u \in Seq(U) : Only(u, S) \in Seq(U)
    BY OnlyProperties, Zenon
  <1>1. <<>> \in Good
    <2>1. s \o <<>> = s /\ Only(s, S) \o <<>> = Only(s, S) /\ <<>> \in Seq(U)
      BY <1>0, ConcatEmptySeq
    <2> QED
      BY <2>1, OnlyEmpty
  <1>2. ASSUME NEW u \in Seq(U), u \in Good, NEW x \in U
        PROVE  Append(u, x) \in Good
    <2>1. s \o Append(u, x) = Append(s \o u, x) /\ s \o u \in Seq(U)
      BY ConcatAppend, ConcatProperties
    <2>2. Only(Append(s \o u, x), S) = IF x \in S THEN Append(Only(s \o u, S), x)
                                       ELSE Only(s \o u, S)
      BY <2>1, OnlyAppend
    <2>3. Only(Append(u, x), S) = IF x \in S THEN Append(Only(u, S), x) ELSE Only(u, S)
      BY OnlyAppend
    <2>4. Only(s, S) \o Append(Only(u, S), x) = Append(Only(s, S) \o Only(u, S), x)
      BY <1>0, ConcatAppend
    <2>5. Only(s \o u, S) = Only(s, S) \o Only(u, S)
      BY <1>2
    <2>6. Only(s \o Append(u, x), S) = Only(s, S) \o Only(Append(u, x), S)
      BY <2>1, <2>2, <2>3, <2>4, <2>5, Zenon
    <2> QED
      BY <2>6, AppendProperties
  <1>3. Seq(U) \subseteq Good
    <2> HIDE DEF Good
    <2> QED
      BY <1>1, <1>2, SeqInduction
  <1> QED
    BY <1>3

\* A sequence without an index is empty.
LEMMA EmptyByDomain ==
    ASSUME NEW U, NEW s \in Seq(U)
    PROVE  s = <<>> <=> \A i \in DOMAIN s : FALSE
PROOF
  <1>1. Len(s) \in Nat /\ DOMAIN s = 1..Len(s)
    OBVIOUS
  <1>2. s # <<>> => 1 \in DOMAIN s
    BY <1>1, EmptySeq
  <1>3. s = <<>> => DOMAIN s = {}
    OBVIOUS
  <1> QED
    BY <1>2, <1>3

-----------------------------------------------------------------------------
(***************************************************************************)
(* FlattenSeq concatenates the sequences it is given.                      *)
(***************************************************************************)
LEMMA FlattenRecursion ==
    ASSUME NEW U, NEW seqs \in Seq(U), Len(seqs) > 0
    PROVE  \E flat : /\ flat[1] = seqs[1]
                     /\ \A n \in 2..Len(seqs) : flat[n] = flat[n - 1] \o seqs[n]
                     /\ FlattenSeq(seqs) = flat[Len(seqs)]
PROOF
  <1> DEFINE Solves(f, n) ==
                 f = [i \in 1..n |-> IF i = 1 THEN seqs[i] ELSE f[i - 1] \o seqs[i]]
             Solvable == {n \in Nat : \E f : Solves(f, n)}
  <1>1. 0 \in Solvable
    <2> DEFINE f == [i \in 1..0 |-> <<>>]
    <2>1. ASSUME NEW i \in 1..0
          PROVE  f[i] = IF i = 1 THEN seqs[i] ELSE f[i - 1] \o seqs[i]
      OBVIOUS
    <2>2. Solves(f, 0)
      BY <2>1
    <2> HIDE DEF f
    <2> QED
      BY <2>2
  <1>2. ASSUME NEW n \in Nat, n \in Solvable
        PROVE  n + 1 \in Solvable
    <2>1. PICK f : Solves(f, n)
      BY <1>2
    <2> DEFINE g == [i \in 1..(n + 1) |->
                        IF i = n + 1
                        THEN IF i = 1 THEN seqs[i] ELSE f[n] \o seqs[i]
                        ELSE f[i]]
    <2>2. ASSUME NEW i \in 1..(n + 1)
          PROVE  g[i] = IF i = 1 THEN seqs[i] ELSE g[i - 1] \o seqs[i]
      <3>1. CASE i = n + 1
        <4>1. i # 1 => g[i - 1] = f[n]
          BY <3>1
        <4>2. g[i] = IF i = 1 THEN seqs[i] ELSE f[n] \o seqs[i]
          BY <3>1
        <4> HIDE DEF g
        <4> QED
          BY <4>1, <4>2
      <3>2. CASE i \in 1..n
        <4>1. g[i] = f[i]
          BY <3>2
        <4>2. f[i] = IF i = 1 THEN seqs[i] ELSE f[i - 1] \o seqs[i]
          BY <2>1, <3>2, Zenon
        <4>3. i # 1 => g[i - 1] = f[i - 1]
          BY <3>2
        <4> HIDE DEF g
        <4> QED
          BY <4>1, <4>2, <4>3
      <3> QED
        BY <3>1, <3>2
    <2>3. Solves(g, n + 1)
      BY <2>2
    <2> HIDE DEF g, Solves
    <2> QED
      BY <2>3
  <1>3. Len(seqs) \in Nat
    OBVIOUS
  <1>4. Nat \subseteq Solvable
    <2> HIDE DEF Solvable
    <2> QED
      BY <1>1, <1>2, SetInduction
  <1>5. \E f : Solves(f, Len(seqs))
    BY <1>3, <1>4
  <1> DEFINE flat == CHOOSE f : Solves(f, Len(seqs))
  <1>6. Solves(flat, Len(seqs))
    <2> HIDE DEF Solves
    <2> QED
      BY <1>5
  <1>7. FlattenSeq(seqs) = flat[Len(seqs)]
    <2>1. Len(seqs) # 0
      BY <1>3
    <2> QED
      BY <2>1 DEF FlattenSeq
  <1> HIDE DEF flat
  <1>8. \A i \in 1..Len(seqs) :
            flat[i] = IF i = 1 THEN seqs[i] ELSE flat[i - 1] \o seqs[i]
    BY <1>6, Zenon
  <1>9. flat[1] = seqs[1]
    <2>1. 1 \in 1..Len(seqs)
      BY <1>3
    <2> QED
      BY <1>8, <2>1, Zenon
  <1>10. ASSUME NEW n \in 2..Len(seqs)
         PROVE  flat[n] = flat[n - 1] \o seqs[n]
    <2>1. n \in 1..Len(seqs) /\ n # 1
      BY <1>3
    <2> QED
      BY <1>8, <2>1, Zenon
  <1> QED
    BY <1>7, <1>9, <1>10, Zenon

LEMMA FlattenEmpty == FlattenSeq(<<>>) = <<>>
BY EmptySeq DEF FlattenSeq

LEMMA FlattenAppend ==
    ASSUME NEW U, NEW seqs \in Seq(Seq(U)), NEW s \in Seq(U)
    PROVE  FlattenSeq(Append(seqs, s)) = FlattenSeq(seqs) \o s
PROOF
  <1> DEFINE more == Append(seqs, s)
             n    == Len(seqs)
  <1>1. /\ n \in Nat /\ more \in Seq(Seq(U)) /\ Len(more) = n + 1
        /\ \A i \in 1..n : more[i] = seqs[i]
        /\ more[n + 1] = s
    BY AppendProperties
  <1> HIDE DEF more
  <1>2. PICK f : /\ f[1] = more[1]
                 /\ \A k \in 2..Len(more) : f[k] = f[k - 1] \o more[k]
                 /\ FlattenSeq(more) = f[Len(more)]
    <2>1. more \in Seq(Seq(U)) /\ Len(more) > 0
      BY <1>1
    <2> QED
      BY <2>1, FlattenRecursion
  <1>3. CASE n = 0
    <2>1. seqs = <<>>
      BY <1>3, EmptySeq
    <2>2. FlattenSeq(more) = s
      BY <1>1, <1>2, <1>3
    <2> QED
      BY <2>1, <2>2, FlattenEmpty, ConcatEmptySeq DEF more
  <1>4. CASE n > 0
    <2>1. PICK g : /\ g[1] = seqs[1]
                   /\ \A k \in 2..n : g[k] = g[k - 1] \o seqs[k]
                   /\ FlattenSeq(seqs) = g[n]
      BY <1>4, FlattenRecursion
    <2> DEFINE Good == {k \in Nat : k + 1 <= n => f[k + 1] = g[k + 1]}
    <2> HIDE DEF n
    <2>2. 0 \in Good
      BY <1>1, <1>2, <1>4, <2>1
    <2>3. ASSUME NEW k \in Nat, k \in Good
          PROVE  k + 1 \in Good
      <3>1. SUFFICES ASSUME (k + 1) + 1 <= n
                     PROVE  f[(k + 1) + 1] = g[(k + 1) + 1]
        OBVIOUS
      <3>2. f[k + 1] = g[k + 1]
        BY <1>1, <2>3, <3>1
      <3>3. /\ k + 2 \in 2..n /\ k + 2 \in 2..(n + 1) /\ k + 2 \in 1..n
            /\ (k + 2) - 1 = k + 1 /\ (k + 1) + 1 = k + 2
        BY <1>1, <3>1
      <3>4. f[k + 2] = f[(k + 2) - 1] \o more[k + 2] /\ g[k + 2] = g[(k + 2) - 1] \o seqs[k + 2]
        BY <1>1, <1>2, <2>1, <3>3, Zenon
      <3>5. more[k + 2] = seqs[k + 2]
        BY <1>1, <3>3
      <3> QED
        BY <3>2, <3>3, <3>4, <3>5, Zenon
    <2>4. Nat \subseteq Good
      <3> HIDE DEF Good
      <3> QED
        BY <2>2, <2>3, SetInduction
    <2>5. f[(n - 1) + 1] = g[(n - 1) + 1]
      <3>1. n - 1 \in Nat /\ (n - 1) + 1 <= n
        BY <1>1, <1>4
      <3> QED
        BY <2>4, <3>1
    <2>6. (n - 1) + 1 = n /\ n + 1 \in 2..Len(more) /\ (n + 1) - 1 = n
      BY <1>1, <1>4
    <2>7. f[n + 1] = f[(n + 1) - 1] \o more[n + 1]
      BY <1>2, <2>6, Zenon
    <2> QED
      BY <1>1, <1>2, <2>1, <2>5, <2>6, <2>7, Zenon DEF more
  <1> QED
    BY <1>1, <1>3, <1>4

LEMMA FlattenType ==
    ASSUME NEW U, NEW seqs \in Seq(Seq(U))
    PROVE  FlattenSeq(seqs) \in Seq(U)
PROOF
  <1> DEFINE Good == {t \in Seq(Seq(U)) : FlattenSeq(t) \in Seq(U)}
  <1>1. <<>> \in Good
    BY FlattenEmpty, EmptySeq
  <1>2. ASSUME NEW t \in Seq(Seq(U)), t \in Good, NEW x \in Seq(U)
        PROVE  Append(t, x) \in Good
    <2>1. FlattenSeq(Append(t, x)) = FlattenSeq(t) \o x
      BY FlattenAppend
    <2> QED
      BY <1>2, <2>1, ConcatProperties, AppendProperties
  <1>3. Seq(Seq(U)) \subseteq Good
    <2> HIDE DEF Good
    <2> QED
      BY <1>1, <1>2, SeqInduction
  <1> QED
    BY <1>3

-----------------------------------------------------------------------------
(***************************************************************************)
(* What the renderers write is a text.                                     *)
(***************************************************************************)
LEMMA ConcatType ==
    ASSUME NEW s \in Texts, NEW t \in Texts
    PROVE  s \o t \in Texts
BY ConcatProperties DEF Texts

LEMMA ShortTexts ==
    ASSUME NEW a \in Tokens, NEW b \in Tokens, NEW c \in Tokens, NEW d \in Tokens, NEW e \in Tokens
    PROVE  /\ <<>> \in Texts /\ <<a>> \in Texts /\ <<a, b>> \in Texts
           /\ <<a, b, c>> \in Texts /\ <<a, b, c, d>> \in Texts /\ <<a, b, c, d, e>> \in Texts
BY DEF Texts

LEMMA PunctuationTokens ==
    /\ Quote \in Tokens /\ Backslash \in Tokens /\ "," \in Tokens /\ ":" \in Tokens
    /\ "{" \in Tokens /\ "}" \in Tokens /\ "[" \in Tokens /\ "]" \in Tokens
BY TextAssumption, Zenon DEF Punctuation

LEMMA AppendEscapedType ==
    ASSUME NEW text \in Texts
    PROVE  json_append_escaped(text) \in Texts
PROOF
  <1> DEFINE parts == [i \in DOMAIN text |->
                          IF text[i] \in {Quote, Backslash} THEN <<Backslash, text[i]>>
                          ELSE <<text[i]>>]
  <1>1. \A i \in 1..Len(text) : /\ text[i] \in Tokens
                                /\ <<Backslash, text[i]>> \in Texts
                                /\ <<text[i]>> \in Texts
    <2> SUFFICES ASSUME NEW i \in 1..Len(text)
                 PROVE  /\ text[i] \in Tokens
                        /\ <<Backslash, text[i]>> \in Texts
                        /\ <<text[i]>> \in Texts
      OBVIOUS
    <2>1. text[i] \in Tokens
      BY DEF Texts
    <2> QED
      BY <2>1, PunctuationTokens, ShortTexts, Zenon
  <1>2. parts \in Seq(Texts)
    <2>1. DOMAIN text = 1..Len(text) /\ Len(text) \in Nat
      BY DEF Texts
    <2>2. \A i \in 1..Len(text) : parts[i] \in Texts
      BY <1>1, <2>1
    <2> QED
      BY <2>1, <2>2
  <1> HIDE DEF parts
  <1>3. FlattenSeq(parts) \in Texts
    BY <1>2, FlattenType DEF Texts
  <1> QED
    BY <1>3 DEF json_append_escaped, parts

LEMMA EscapedType ==
    ASSUME NEW text \in Texts
    PROVE  EscapedString(text) \in Texts
PROOF
  <1>1. json_append_escaped(text) \in Texts
    BY AppendEscapedType
  <1>2. <<Quote>> \in Texts
    BY PunctuationTokens, ShortTexts
  <1> QED
    BY <1>1, <1>2, ConcatType DEF EscapedString

LEMMA MemberType ==
    ASSUME NEW key \in Tokens, NEW value \in Texts
    PROVE  Member(key, value) \in Texts
PROOF
  <1>1. <<Quote, key, Quote, ":">> \in Texts
    BY PunctuationTokens, ShortTexts, Zenon
  <1> QED
    BY <1>1, ConcatType, Zenon DEF Member

LEMMA SeparatedType ==
    ASSUME NEW items \in Seq(Texts)
    PROVE  Separated(items) \in Texts
PROOF
  <1> DEFINE parts == [i \in DOMAIN items |->
                          IF i = 1 THEN items[i] ELSE <<",">> \o items[i]]
  <1>1. <<",">> \in Texts
    BY PunctuationTokens, ShortTexts, Zenon
  <1>2. DOMAIN items = 1..Len(items) /\ Len(items) \in Nat
        /\ \A i \in 1..Len(items) : items[i] \in Texts
    OBVIOUS
  <1>3. \A i \in 1..Len(items) : parts[i] \in Texts
    BY <1>1, <1>2, ConcatType, Zenon
  <1>4. parts \in Seq(Texts)
    <2>1. parts = [i \in 1..Len(items) |-> parts[i]]
      BY <1>2, Zenon
    <2> HIDE DEF parts
    <2> QED
      BY <1>2, <1>3, <2>1
  <1>5. FlattenSeq(parts) \in Texts
    <2> HIDE DEF parts
    <2> QED
      BY <1>4, FlattenType DEF Texts
  <1> QED
    BY <1>5, Zenon DEF Separated

\* A sequence of texts written between signs.
LEMMA EnclosedType ==
    ASSUME NEW text \in Texts
    PROVE  /\ <<"[">> \o text \o <<"]">> \in Texts
           /\ <<",">> \o text \in Texts /\ text \o <<",">> \in Texts
           /\ text \o <<"}">> \in Texts /\ text \o <<"}", ",">> \in Texts
PROOF
  <1>1. /\ <<"[">> \in Texts /\ <<"]">> \in Texts /\ <<",">> \in Texts
        /\ <<"}">> \in Texts /\ <<"}", ",">> \in Texts
    BY PunctuationTokens, ShortTexts, Zenon
  <1>2. <<"[">> \o text \in Texts
    BY <1>1, ConcatType, Zenon
  <1> QED
    BY <1>1, <1>2, ConcatType, Zenon

LEMMA KeyTokens ==
    /\ "user" \in Tokens /\ "userdb" \in Tokens /\ "mailbox" \in Tokens /\ "event" \in Tokens
    /\ "uidvalidity" \in Tokens /\ "uid" \in Tokens
    /\ "flags" \in Tokens /\ "oldFlags" \in Tokens
    /\ "keywords" \in Tokens /\ "oldKeywords" \in Tokens
    /\ "date" \in Tokens /\ "from" \in Tokens /\ "snippet" \in Tokens
    /\ "subject" \in Tokens /\ "to" \in Tokens /\ "oldMailbox" \in Tokens
BY TextAssumption, Zenon DEF Keys

\* A sequence of texts that a loop makes of the elements of another sequence.
LEMMA MappedType ==
    ASSUME NEW U, NEW s \in Seq(U), NEW f, DOMAIN f = DOMAIN s, f = [i \in DOMAIN s |-> f[i]],
           \A i \in DOMAIN s : f[i] \in Texts
    PROVE  f \in Seq(Texts)
PROOF
  <1>1. DOMAIN s = 1..Len(s) /\ Len(s) \in Nat
    OBVIOUS
  <1>2. f = [i \in 1..Len(s) |-> f[i]]
    BY <1>1
  <1>3. \A i \in 1..Len(s) : f[i] \in Texts
    BY <1>1
  <1> QED
    BY <1>1, <1>2, <1>3

LEMMA UserdbType ==
    ASSUME NEW keys \in Seq(Texts), NEW env, \A k \in DOMAIN env : env[k] \in Optional(Texts)
    PROVE  userdb_json(keys, env) \in Optional(Texts)
PROOF
  <1> DEFINE known   == {k \in DOMAIN env : env[k] # NULL}
             present == Only(keys, known)
             entry(i) == EscapedString(present[i]) \o <<":">> \o EscapedString(env[present[i]])
             entries == [i \in DOMAIN present |-> entry(i)]
             opening == <<Quote, "userdb", Quote, ":", "{">>
  <1>1. /\ present \in Seq(Texts)
        /\ \A i \in DOMAIN present : present[i] \in Texts /\ present[i] \in known
    <2>1. present \in Seq(Texts)
          /\ \A i \in DOMAIN present : \E j \in DOMAIN keys : present[i] = keys[j] /\ keys[j] \in known
      <3> HIDE DEF known
      <3> QED
        BY OnlyProperties
    <2>2. \A j \in DOMAIN keys : keys[j] \in Texts
      OBVIOUS
    <2> HIDE DEF present, known
    <2> QED
      BY <2>1, <2>2, Zenon
  <1>2. \A i \in DOMAIN present : entry(i) \in Texts
    <2> SUFFICES ASSUME NEW i \in DOMAIN present
                 PROVE  entry(i) \in Texts
      OBVIOUS
    <2>1. present[i] \in Texts /\ env[present[i]] \in Texts
      <3>1. present[i] \in Texts /\ present[i] \in known
        BY <1>1
      <3> HIDE DEF present
      <3> QED
        BY <3>1 DEF Optional
    <2> HIDE DEF present
    <2>2. <<":">> \in Texts
      BY PunctuationTokens, ShortTexts, Zenon
    <2>3. EscapedString(present[i]) \o <<":">> \in Texts
      BY <2>1, <2>2, EscapedType, ConcatType, Zenon
    <2> QED
      BY <2>1, <2>3, EscapedType, ConcatType, Zenon
  <1>3. entries \in Seq(Texts)
    <2> HIDE DEF present, entry
    <2>1. DOMAIN entries = DOMAIN present /\ entries = [i \in DOMAIN present |-> entries[i]]
          /\ \A i \in DOMAIN present : entries[i] \in Texts
      BY <1>2, Zenon
    <2> HIDE DEF entries
    <2> QED
      BY <1>1, <2>1, MappedType
  <1>4. opening \o Separated(entries) \o <<"}", ",">> \in Texts
    <2> HIDE DEF entries
    <2>1. opening \in Texts
      BY PunctuationTokens, KeyTokens, ShortTexts, Zenon
    <2> HIDE DEF opening
    <2> QED
      BY <1>3, <2>1, SeparatedType, ConcatType, EnclosedType
  <1> QED
    BY <1>4, Zenon DEF userdb_json, Optional

\* What the renderer of a message event is given: the context, user and message.
Given(ctx, user, msg) ==
    /\ ctx.userdb_json \in Optional(Texts) /\ ctx.send_flags \in BOOLEAN
    /\ user \in Texts
    /\ msg.mailbox \in Texts /\ msg.uid_validity \in Tokens /\ msg.uid \in Tokens

LEMMA PrefixType ==
    ASSUME NEW ctx, NEW user, NEW msg, Given(ctx, user, msg), NEW event_name \in Tokens
    PROVE  write_msg_prefix(ctx, user, event_name, msg) \in Texts
PROOF
  <1> DEFINE u == Member("user", EscapedString(user))
             b == IF ctx.userdb_json = NULL THEN <<>> ELSE ctx.userdb_json
             m == Member("mailbox", EscapedString(msg.mailbox))
             e == Member("event", <<Quote, event_name, Quote>>)
             v == Member("uidvalidity", <<msg.uid_validity>>)
             i == Member("uid", <<msg.uid>>)
  <1>1. <<"{">> \in Texts /\ <<",">> \in Texts
    BY PunctuationTokens, ShortTexts, Zenon
  <1>2. u \in Texts /\ m \in Texts
    BY KeyTokens, EscapedType, MemberType, Zenon DEF Given
  <1>3. b \in Texts
    BY PunctuationTokens, ShortTexts, Zenon DEF Given, Optional
  <1>4. e \in Texts /\ v \in Texts /\ i \in Texts
    <2>1. <<Quote, event_name, Quote>> \in Texts /\ <<msg.uid_validity>> \in Texts
          /\ <<msg.uid>> \in Texts
      BY PunctuationTokens, ShortTexts, Zenon DEF Given
    <2> QED
      BY <2>1, KeyTokens, MemberType, Zenon
  <1>5. write_msg_prefix(ctx, user, event_name, msg) =
            <<"{">> \o u \o <<",">> \o b \o m \o <<",">> \o e \o <<",">> \o v \o <<",">> \o i
    BY Zenon DEF write_msg_prefix
  <1> HIDE DEF u, b, m, e, v, i
  <1>6. <<"{">> \o u \o <<",">> \o b \o m \in Texts
    BY <1>1, <1>2, <1>3, ConcatType
  <1> DEFINE start == <<"{">> \o u \o <<",">> \o b \o m
  <1>7. start \o <<",">> \o e \o <<",">> \o v \o <<",">> \o i \in Texts
    <2> HIDE DEF start
    <2> QED
      BY <1>1, <1>4, <1>6, ConcatType DEF start
  <1> QED
    BY <1>5, <1>7

LEMMA FlagsMemberType ==
    ASSUME NEW key \in Tokens, NEW flags
    PROVE  FlagsMember(key, flags) \in Texts
PROOF
  <1> DEFINE set   == Only(FlagOrder, flags)
             items == [i \in DOMAIN set |-> <<Quote, Backslash, Backslash, set[i], Quote>>]
  <1>1. set \in Seq(Tokens)
    <2>1. FlagOrder \in Seq(Range(FlagOrder))
      BY DEF FlagOrder, Range
    <2>2. FlagOrder \in Seq(Tokens)
      BY <2>1, TextAssumption, SeqMonotonic
    <2> QED
      BY <2>2, OnlyProperties
  <1> HIDE DEF set
  <1>2. items \in Seq(Texts)
    <2>1. \A i \in DOMAIN set : set[i] \in Tokens
      BY <1>1
    <2>2. DOMAIN items = DOMAIN set /\ items = [i \in DOMAIN set |-> items[i]]
          /\ \A i \in DOMAIN set : items[i] \in Texts
      BY <2>1, PunctuationTokens, ShortTexts, Zenon
    <2> HIDE DEF items
    <2> QED
      BY <1>1, <2>2, MappedType
  <1>3. write_flags(flags) = Separated(items)
    BY Zenon DEF write_flags, set
  <1> HIDE DEF items
  <1>4. <<"[">> \o write_flags(flags) \o <<"]">> \in Texts
    BY <1>2, <1>3, SeparatedType, EnclosedType, Zenon
  <1>5. <<>> \in Texts
    BY PunctuationTokens, ShortTexts, Zenon
  <1> QED
    BY <1>4, <1>5, MemberType, EnclosedType, Zenon DEF FlagsMember

LEMMA VisibleType ==
    ASSUME NEW ctx, NEW keywords \in Seq(Texts)
    PROVE  Visible(ctx, keywords) \in Seq(Texts)
PROOF
  <1> DEFINE S == {k \in Range(keywords) : str_starts_with(k, ctx.keyword_prefix)}
  <1> HIDE DEF S
  <1>1. Only(keywords, S) \in Seq(Texts)
    BY OnlyProperties
  <1> QED
    BY <1>1, Zenon DEF Visible, S

LEMMA KeywordsMemberType ==
    ASSUME NEW ctx, NEW key \in Tokens, NEW keywords \in Seq(Texts)
    PROVE  KeywordsMember(ctx, key, keywords) \in Texts
PROOF
  <1> DEFINE visible == Visible(ctx, keywords)
             items   == [i \in DOMAIN visible |-> EscapedString(visible[i])]
  <1>1. visible \in Seq(Texts)
    BY VisibleType
  <1> HIDE DEF visible
  <1>2. items \in Seq(Texts)
    <2>1. \A i \in DOMAIN visible : visible[i] \in Texts
      BY <1>1
    <2>2. DOMAIN items = DOMAIN visible /\ items = [i \in DOMAIN visible |-> items[i]]
          /\ \A i \in DOMAIN visible : items[i] \in Texts
      BY <2>1, EscapedType, Zenon
    <2> HIDE DEF items
    <2> QED
      BY <1>1, <2>2, MappedType
  <1>3. <<"[">> \o Separated(items) \o <<"]">> \in Texts
    <2> HIDE DEF items
    <2> QED
      BY <1>2, SeparatedType, EnclosedType, Zenon
  <1>4. <<>> \in Texts
    BY PunctuationTokens, ShortTexts, Zenon
  <1> QED
    BY <1>3, <1>4, MemberType, EnclosedType, Zenon DEF KeywordsMember, visible

LEMMA NothingSelected == Only(FlagOrder, {}) = <<>>
PROOF
  <1> DEFINE none == Only(FlagOrder, {})
             all  == Range(FlagOrder)
  <1>1. FlagOrder \in Seq(all)
    BY DEF FlagOrder, Range
  <1> HIDE DEF all
  <1>2. none \in Seq(all) /\ \A i \in DOMAIN none : FALSE
    BY <1>1, OnlyProperties
  <1> HIDE DEF none
  <1>3. none = <<>>
    BY <1>2, EmptyByDomain
  <1> QED
    BY <1>3 DEF none

\* There is a flag or a keyword that the configuration lets a consumer see.
SomethingToTell(ctx, flags, keywords, flags_old, keywords_old) ==
    \/ ctx.send_flags /\ writes_flags(flags)
    \/ ctx.send_flags /\ writes_flags(flags_old)
    \/ Visible(ctx, keywords) # <<>>
    \/ Visible(ctx, keywords_old) # <<>>

\* write_flags_event gives a text if, and only if, something is to be told that
\* send_flags and the keyword prefix let through; otherwise it gives NULL, whatever
\* flags and keywords the event has.
THEOREM FlagsEventType ==
    ASSUME NEW ctx, NEW user, NEW msg, Given(ctx, user, msg), NEW event_name \in Tokens,
           NEW flags, NEW flags_old,
           NEW keywords \in Seq(Texts), NEW keywords_old \in Seq(Texts), NEW text,
           text = write_flags_event(ctx, user, event_name, msg,
                                    flags, keywords, flags_old, keywords_old)
    PROVE  /\ text \in Optional(Texts)
           /\ text # NULL <=> SomethingToTell(ctx, flags, keywords, flags_old, keywords_old)
PROOF
  <1> DEFINE shown(fs) == IF ctx.send_flags THEN fs ELSE {}
             written   == write_msg_prefix(ctx, user, event_name, msg)
                          \o FlagsMember("flags", shown(flags))
                          \o FlagsMember("oldFlags", shown(flags_old))
                          \o KeywordsMember(ctx, "keywords", keywords)
                          \o KeywordsMember(ctx, "oldKeywords", keywords_old) \o <<"}">>
             tells     == \/ writes_flags(shown(flags)) \/ writes_flags(shown(flags_old))
                          \/ Visible(ctx, keywords) \o Visible(ctx, keywords_old) # <<>>
  <1>1. written \in Texts
    <2> DEFINE f == FlagsMember("flags", shown(flags))
               g == FlagsMember("oldFlags", shown(flags_old))
               k == KeywordsMember(ctx, "keywords", keywords)
               l == KeywordsMember(ctx, "oldKeywords", keywords_old)
               p == write_msg_prefix(ctx, user, event_name, msg)
    <2>1. p \in Texts /\ f \in Texts /\ g \in Texts /\ k \in Texts /\ l \in Texts
      BY KeyTokens, PrefixType, FlagsMemberType, KeywordsMemberType
    <2> HIDE DEF p, f, g, k, l
    <2>2. p \o f \o g \o k \o l \in Texts
      BY <2>1, ConcatType
    <2>3. p \o f \o g \o k \o l \o <<"}">> \in Texts
      BY <2>2, EnclosedType, Zenon
    <2> QED
      BY <2>3 DEF p, f, g, k, l
  <1>2. written # NULL
    BY <1>1, TextAssumption
  <1>3. Only(FlagOrder, {}) = <<>>
    BY NothingSelected
  <1>4. \A fs : writes_flags(shown(fs)) <=> ctx.send_flags /\ writes_flags(fs)
    BY <1>3, Zenon DEF writes_flags, Given
  <1>5. Visible(ctx, keywords) \o Visible(ctx, keywords_old) # <<>>
            <=> Visible(ctx, keywords) # <<>> \/ Visible(ctx, keywords_old) # <<>>
    BY VisibleType, ConcatEqualIffEmpty
  <1>6. write_flags_event(ctx, user, event_name, msg, flags, keywords, flags_old, keywords_old)
            = IF tells THEN written ELSE NULL
    BY Zenon DEF write_flags_event
  <1> HIDE DEF written
  <1>7. tells <=> SomethingToTell(ctx, flags, keywords, flags_old, keywords_old)
    BY <1>4, <1>5, Zenon DEF SomethingToTell
  <1>8. text \in Optional(Texts) /\ (text # NULL <=> tells)
    <2> HIDE DEF tells
    <2>1. text = IF tells THEN written ELSE NULL
      BY <1>6, Zenon
    <2> QED
      BY <1>1, <1>2, <2>1 DEF Optional
  <1> HIDE DEF tells
  <1> QED
    BY <1>7, <1>8, Zenon

LEMMA OptionalMemberType ==
    ASSUME NEW key \in Tokens, NEW text \in Optional(Texts)
    PROVE  OptionalMember(key, text) \in Texts
PROOF
  <1>1. <<>> \in Texts
    BY PunctuationTokens, ShortTexts, Zenon
  <1>2. CASE text \in Texts
    BY <1>1, <1>2, EscapedType, MemberType, EnclosedType, Zenon DEF OptionalMember
  <1>3. CASE text = NULL
    BY <1>1, <1>3, Zenon DEF OptionalMember
  <1> QED
    BY <1>2, <1>3 DEF Optional

\* An event's headers.
WithHeaderTexts(e) ==
    /\ e.from \in Optional(Texts) /\ e.snippet \in Optional(Texts)
    /\ e.subject \in Optional(Texts) /\ e.to \in Optional(Texts)

LEMMA HeaderMembersType ==
    ASSUME NEW e, WithHeaderTexts(e)
    PROVE  HeaderMembers(e) \in Texts
PROOF
  <1> DEFINE f == OptionalMember("from", e.from)
             n == OptionalMember("snippet", e.snippet)
             u == OptionalMember("subject", e.subject)
             t == OptionalMember("to", e.to)
  <1>1. f \in Texts /\ n \in Texts /\ u \in Texts /\ t \in Texts
    BY KeyTokens, OptionalMemberType, Zenon DEF WithHeaderTexts
  <1>2. HeaderMembers(e) = f \o n \o u \o t
    BY Zenon DEF HeaderMembers
  <1> HIDE DEF f, n, u, t
  <1> QED
    BY <1>1, <1>2, ConcatType

LEMMA DateMemberType ==
    ASSUME NEW date \in Optional([time : DOMAIN Clock, tz : DOMAIN Zone])
    PROVE  DateMember(date) \in Texts
PROOF
  <1>1. <<>> \in Texts /\ <<Quote>> \in Texts
    BY PunctuationTokens, ShortTexts, Zenon
  <1>2. CASE date = NULL
    BY <1>1, <1>2, Zenon DEF DateMember
  <1>3. CASE date \in [time : DOMAIN Clock, tz : DOMAIN Zone]
    <2> DEFINE tm == BrokenDown(date)
               zoned == iso8601_date_create_tm(tm, date.tz)
    <2>1. date.time \in DOMAIN Clock /\ date.tz \in DOMAIN Zone
      BY <1>3
    <2>2. tm \in Tokens /\ Zone[date.tz] \in Texts
      BY <2>1, TextAssumption DEF BrokenDown, Texts
    <2> HIDE DEF tm
    <2>3. <<tm>> \in Texts
      BY <2>2, ShortTexts
    <2>4. zoned \in Texts
      BY <2>2, <2>3, ConcatType, Zenon DEF iso8601_date_create_tm
    <2>5. DateMember(date) = IF date = NULL THEN <<>>
                             ELSE <<",">> \o Member("date", <<Quote>> \o zoned \o <<Quote>>)
      BY Zenon DEF DateMember, tm
    <2> HIDE DEF zoned
    <2>6. <<Quote>> \o zoned \o <<Quote>> \in Texts
      BY <1>1, <2>4, ConcatType
    <2>7. <<",">> \o Member("date", <<Quote>> \o zoned \o <<Quote>>) \in Texts
      BY <2>6, KeyTokens, MemberType, EnclosedType, Zenon
    <2> QED
      BY <1>1, <2>5, <2>7, Zenon
  <1> QED
    BY <1>2, <1>3 DEF Optional
=============================================================================
