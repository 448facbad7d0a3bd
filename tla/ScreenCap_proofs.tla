-------------------------- MODULE ScreenCap_proofs --------------------------
(***************************************************************************)
(* What qscreencapsrc promises for any number of buffers, sizes, starts and*)
(* faults: every variable keeps its type, buffers stay with their display, *)
(* each buffer is in one place, none leaks but those that error returns    *)
(* forget, and captures leave in their order but for one that falls behind *)
(* where the pool grows.                                                   *)
(***************************************************************************)
EXTENDS ScreenCap, TLAPS, SequenceTheorems, FiniteSetTheorems

-----------------------------------------------------------------------------
(* Lists of buffers.                                                       *)

LEMMA Elements ==
    ASSUME NEW S, NEW s \in Seq(S)
    PROVE  /\ Len(s) \in Nat /\ DOMAIN s = 1 .. Len(s)
           /\ \A i \in 1 .. Len(s) : s[i] \in S
           /\ ToSet(s) = {s[i] : i \in 1 .. Len(s)} /\ ToSet(s) \subseteq S
BY DEF ToSet

LEMMA OneElement ==
    ASSUME NEW S, NEW e \in S
    PROVE  <<e>> \in Seq(S) /\ ToSet(<<e>>) = {e} /\ IsInjective(<<e>>)
BY DEF ToSet, IsInjective

LEMMA NoElement ==
    ToSet(<<>>) = {} /\ IsInjective(<<>>)
BY DEF ToSet, IsInjective

LEMMA ToSetConcat ==
    ASSUME NEW S, NEW s \in Seq(S), NEW t \in Seq(S)
    PROVE  s \o t \in Seq(S) /\ ToSet(s \o t) = ToSet(s) \cup ToSet(t)
<1>1. /\ s \o t \in Seq(S) /\ Len(s \o t) = Len(s) + Len(t)
      /\ \A i \in 1 .. Len(s) + Len(t) :
            (s \o t)[i] = IF i <= Len(s) THEN s[i] ELSE t[i - Len(s)]
  BY ConcatProperties
<1>2. /\ ToSet(s) = {s[i] : i \in 1 .. Len(s)} /\ Len(s) \in Nat
      /\ ToSet(t) = {t[i] : i \in 1 .. Len(t)} /\ Len(t) \in Nat
  BY Elements
<1> DEFINE u == s \o t
<1> HIDE DEF u
<1>3. ToSet(u) = {u[i] : i \in 1 .. Len(u)}
  BY <1>1, Elements DEF u
<1>4. \A i \in 1 .. Len(u) :
        \/ i \in 1 .. Len(s) /\ u[i] = s[i]
        \/ i - Len(s) \in 1 .. Len(t) /\ u[i] = t[i - Len(s)]
  BY <1>1, <1>2 DEF u
<1>5. \A i \in 1 .. Len(s) : i \in 1 .. Len(u) /\ u[i] = s[i]
  BY <1>1, <1>2 DEF u
<1>6. \A i \in 1 .. Len(t) : Len(s) + i \in 1 .. Len(u) /\ u[Len(s) + i] = t[i]
  BY <1>1, <1>2 DEF u
<1>7. ToSet(u) \subseteq ToSet(s) \cup ToSet(t)
  BY <1>2, <1>3, <1>4
<1>8. ToSet(s) \subseteq ToSet(u) /\ ToSet(t) \subseteq ToSet(u)
  BY <1>2, <1>3, <1>5, <1>6
<1> QED BY <1>1, <1>7, <1>8 DEF u

LEMMA InjectiveConcat ==
    ASSUME NEW S, NEW s \in Seq(S), NEW t \in Seq(S)
    PROVE  IsInjective(s \o t) <=>
             IsInjective(s) /\ IsInjective(t) /\ ToSet(s) \cap ToSet(t) = {}
<1> DEFINE m == Len(s)  n == Len(t)  u == s \o t
<1>1. /\ u \in Seq(S) /\ Len(u) = m + n /\ m \in Nat /\ n \in Nat
      /\ \A i \in 1 .. m : u[i] = s[i]
      /\ \A i \in 1 .. n : u[m + i] = t[i]
  BY ConcatProperties
<1>2. DOMAIN s = 1 .. m /\ DOMAIN t = 1 .. n /\ DOMAIN u = 1 .. m + n
  BY <1>1
<1> HIDE DEF m, n, u
<1>3. ASSUME IsInjective(u)
      PROVE  IsInjective(s) /\ IsInjective(t) /\ ToSet(s) \cap ToSet(t) = {}
  <2>1. \A i, j \in 1 .. m + n : u[i] = u[j] => i = j
    BY <1>2, <1>3 DEF IsInjective
  <2>2. \A i, j \in 1 .. m : s[i] = s[j] => i = j
    BY <1>1, <2>1
  <2>3. \A i, j \in 1 .. n : t[i] = t[j] => i = j
    <3> TAKE i, j \in 1 .. n
    <3>1. m + i \in 1 .. m + n /\ m + j \in 1 .. m + n
      BY <1>1
    <3> QED BY <1>1, <2>1, <3>1
  <2>4. \A i \in 1 .. m, j \in 1 .. n : s[i] # t[j]
    <3> TAKE i \in 1 .. m, j \in 1 .. n
    <3>1. i \in 1 .. m + n /\ m + j \in 1 .. m + n /\ i # m + j
      BY <1>1
    <3> QED BY <1>1, <2>1, <3>1
  <2> QED BY <1>2, <2>2, <2>3, <2>4 DEF IsInjective, ToSet
<1>4. ASSUME IsInjective(s), IsInjective(t), ToSet(s) \cap ToSet(t) = {}
      PROVE  IsInjective(u)
  <2>1. \A i \in 1 .. m, j \in 1 .. n : s[i] # t[j]
    BY <1>2, <1>4 DEF ToSet
  <2>2. ASSUME NEW i \in 1 .. m + n, NEW j \in 1 .. m + n, u[i] = u[j]
        PROVE  i = j
    <3>1. i \in 1 .. m \/ (i - m \in 1 .. n /\ i = m + (i - m))
      BY <1>1
    <3>2. j \in 1 .. m \/ (j - m \in 1 .. n /\ j = m + (j - m))
      BY <1>1
    <3>3. CASE i \in 1 .. m /\ j \in 1 .. m
      BY <1>1, <1>2, <1>4, <2>2, <3>3 DEF IsInjective
    <3>4. CASE i \in 1 .. m /\ j - m \in 1 .. n /\ j = m + (j - m)
      <4>1. u[i] = s[i] /\ u[j] = t[j - m]
        BY <1>1, <3>4
      <4> QED BY <2>1, <2>2, <3>4, <4>1
    <3>5. CASE j \in 1 .. m /\ i - m \in 1 .. n /\ i = m + (i - m)
      <4>1. u[j] = s[j] /\ u[i] = t[i - m]
        BY <1>1, <3>5
      <4> QED BY <2>1, <2>2, <3>5, <4>1
    <3>6. CASE i - m \in 1 .. n /\ i = m + (i - m) /\ j - m \in 1 .. n /\ j = m + (j - m)
      <4>1. t[i - m] = t[j - m]
        BY <1>1, <2>2, <3>6
      <4>2. i - m = j - m
        BY <1>2, <1>4, <3>6, <4>1 DEF IsInjective
      <4> QED BY <3>6, <4>2
    <3> QED BY <3>1, <3>2, <3>3, <3>4, <3>5, <3>6
  <2> QED BY <1>2, <2>2 DEF IsInjective
<1> QED BY <1>3, <1>4 DEF u

LEMMA HeadAndTail ==
    ASSUME NEW S, NEW s \in Seq(S), s # <<>>
    PROVE  Head(s) \in S /\ Tail(s) \in Seq(S) /\ s = <<Head(s)>> \o Tail(s)
<1> DEFINE u == <<Head(s)>> \o Tail(s)
<1>1. Head(s) = s[1] /\ Tail(s) \in Seq(S) /\ Len(Tail(s)) = Len(s) - 1
      /\ \A i \in 1 .. Len(s) - 1 : Tail(s)[i] = s[i + 1]
  BY HeadTailProperties
<1>2. Len(s) \in Nat /\ Len(s) # 0 /\ Head(s) \in S
  BY <1>1
<1>3. <<Head(s)>> \in Seq(S) /\ Len(<<Head(s)>>) = 1 /\ <<Head(s)>>[1] = Head(s)
  BY <1>2
<1>4. u \in Seq(S) /\ Len(u) = Len(s)
      /\ \A i \in 1 .. Len(s) : u[i] = IF i <= 1 THEN <<Head(s)>>[i] ELSE Tail(s)[i - 1]
  BY <1>1, <1>2, <1>3, ConcatProperties
<1>5. \A i \in 1 .. Len(s) : u[i] = s[i]
  <2> TAKE i \in 1 .. Len(s)
  <2>1. CASE i = 1
    BY <1>1, <1>3, <1>4, <2>1
  <2>2. CASE i # 1
    <3>1. i - 1 \in 1 .. Len(s) - 1
      BY <1>2, <2>2
    <3> QED BY <1>1, <1>4, <2>2, <3>1
  <2> QED BY <2>1, <2>2
<1>6. u = s
  BY <1>4, <1>5, SeqEqual
<1> QED BY <1>1, <1>2, <1>6

LEMMA Taken ==
    ASSUME NEW S, NEW s \in Seq(S), s # <<>>
    PROVE  /\ Head(s) \in ToSet(s) /\ ToSet(s) = {Head(s)} \cup ToSet(Tail(s))
           /\ IsInjective(s) => IsInjective(Tail(s)) /\ Head(s) \notin ToSet(Tail(s))
<1>1. Head(s) \in S /\ Tail(s) \in Seq(S) /\ s = <<Head(s)>> \o Tail(s)
  BY HeadAndTail
<1>2. <<Head(s)>> \in Seq(S) /\ ToSet(<<Head(s)>>) = {Head(s)}
  BY <1>1, OneElement
<1>3. ToSet(s) = {Head(s)} \cup ToSet(Tail(s))
  <2>1. ToSet(<<Head(s)>> \o Tail(s)) = ToSet(<<Head(s)>>) \cup ToSet(Tail(s))
    <3> DEFINE h == <<Head(s)>>
               t == Tail(s)
    <3>1. h \in Seq(S) /\ t \in Seq(S)
      BY <1>1, <1>2
    <3> HIDE DEF h, t
    <3>2. ToSet(h \o t) = ToSet(h) \cup ToSet(t)
      BY <3>1, ToSetConcat
    <3> QED BY <3>2 DEF h, t
  <2> QED BY <1>1, <1>2, <2>1
<1>4. IsInjective(s) => IsInjective(Tail(s)) /\ ToSet(<<Head(s)>>) \cap ToSet(Tail(s)) = {}
  <2>1. IsInjective(<<Head(s)>> \o Tail(s)) =>
          IsInjective(Tail(s)) /\ ToSet(<<Head(s)>>) \cap ToSet(Tail(s)) = {}
    BY <1>1, <1>2, InjectiveConcat
  <2> QED BY <1>1, <2>1
<1> QED BY <1>2, <1>3, <1>4

LEMMA AppendedOnly ==
    ASSUME NEW S, NEW s \in Seq(S), NEW e \in S
    PROVE  /\ ToSet(Append(s, e)) = ToSet(s) \cup {e}
           /\ IsInjective(s) /\ e \notin ToSet(s) => IsInjective(Append(s, e))
<1>1. Append(s, e) \in Seq(S) /\ Append(s, e) = s \o <<e>>
  BY AppendProperties, AppendIsConcat
<1>2. <<e>> \in Seq(S) /\ ToSet(<<e>>) = {e} /\ IsInjective(<<e>>)
  BY OneElement
<1>3. ToSet(s \o <<e>>) = ToSet(s) \cup ToSet(<<e>>)
  <2> DEFINE t == <<e>>
  <2>1. t \in Seq(S)
    BY <1>2
  <2> HIDE DEF t
  <2>2. ToSet(s \o t) = ToSet(s) \cup ToSet(t)
    BY <2>1, ToSetConcat
  <2> QED BY <2>2 DEF t
<1>4. IsInjective(s) /\ ToSet(s) \cap ToSet(<<e>>) = {} => IsInjective(s \o <<e>>)
  BY <1>2, InjectiveConcat
<1> QED BY <1>1, <1>2, <1>3, <1>4

LEMMA Appended ==
    ASSUME NEW S, NEW s \in Seq(S), NEW e \in S
    PROVE  Append(s, e) \in Seq(S) /\ Append(s, e) = s \o <<e>>
BY AppendProperties, AppendIsConcat

LEMMA Prepended ==
    ASSUME NEW S, NEW s \in Seq(S), NEW e \in S
    PROVE  /\ <<e>> \o s \in Seq(S) /\ Len(<<e>> \o s) = Len(s) + 1
           /\ ToSet(<<e>> \o s) = ToSet(s) \cup {e}
           /\ IsInjective(s) /\ e \notin ToSet(s) => IsInjective(<<e>> \o s)
<1>1. <<e>> \in Seq(S) /\ ToSet(<<e>>) = {e} /\ IsInjective(<<e>>) /\ Len(<<e>>) = 1
  BY OneElement
<1>2. Len(<<e>> \o s) = Len(s) + 1
  BY <1>1, ConcatProperties
<1>3. <<e>> \o s \in Seq(S) /\ ToSet(<<e>> \o s) = ToSet(<<e>>) \cup ToSet(s)
  <2> DEFINE t == <<e>>
  <2>1. t \in Seq(S)
    BY <1>1
  <2> HIDE DEF t
  <2>2. t \o s \in Seq(S) /\ ToSet(t \o s) = ToSet(t) \cup ToSet(s)
    BY <2>1, ToSetConcat
  <2> QED BY <2>2 DEF t
<1>4. IsInjective(s) /\ ToSet(<<e>>) \cap ToSet(s) = {} => IsInjective(<<e>> \o s)
  BY <1>1, InjectiveConcat
<1> QED BY <1>1, <1>2, <1>3, <1>4

LEMMA Popped ==
    ASSUME NEW S, NEW s \in Seq(S), NEW e \in S
    PROVE  <<e>> \o s # <<>> /\ Tail(<<e>> \o s) = s
<1> DEFINE u == <<e>> \o s
<1>1. <<e>> \in Seq(S) /\ Len(<<e>>) = 1
  OBVIOUS
<1>2. /\ u \in Seq(S) /\ Len(u) = 1 + Len(s) /\ Len(s) \in Nat
      /\ \A i \in 1 .. 1 + Len(s) : u[i] = IF i <= 1 THEN <<e>>[i] ELSE s[i - 1]
  BY <1>1, ConcatProperties
<1> HIDE DEF u
<1>3. u # <<>>
  BY <1>2
<1>4. /\ Tail(u) \in Seq(S) /\ Len(Tail(u)) = Len(s)
      /\ \A i \in 1 .. Len(s) : Tail(u)[i] = u[i + 1]
  BY <1>2, <1>3, HeadTailProperties
<1>5. \A i \in 1 .. Len(s) : Tail(u)[i] = s[i]
  BY <1>2, <1>4
<1>6. Tail(u) = s
  BY <1>4, <1>5, SeqEqual
<1> QED BY <1>3, <1>6 DEF u

-----------------------------------------------------------------------------
(* Sift(s, S) is the subsequence of s with the members of S: the only      *)
(* sequence that is enumerated by a rising function onto their positions.  *)

Rising(f, n) == \A i, j \in 1 .. n : i < j => f[i] < f[j]

Enumerates(f, t, s, S) ==
    /\ f \in [1 .. Len(t) -> Positions(s, S)] /\ Rising(f, Len(t))
    /\ \A p \in Positions(s, S) : \E n \in 1 .. Len(t) : f[n] = p
    /\ \A n \in 1 .. Len(t) : t[n] = s[f[n]]

(* Positions are counted: the n-th from the left has n positions up to it. *)
LEMMA Ranks ==
    ASSUME NEW m \in Nat, NEW P \in SUBSET (1 .. m)
    PROVE  /\ IsFiniteSet(P) /\ Cardinality(P) \in Nat
           /\ \A i \in P : Cardinality(UpTo(P, i)) \in 1 .. Cardinality(P)
           /\ \A i, j \in P : i < j => Cardinality(UpTo(P, i)) < Cardinality(UpTo(P, j))
           /\ \A n \in 1 .. Cardinality(P) : \E i \in P : Cardinality(UpTo(P, i)) = n
<1>1. IsFiniteSet(1 .. m)
  BY FS_Interval
<1>2. IsFiniteSet(P) /\ Cardinality(P) \in Nat
  BY <1>1, FS_Subset, FS_CardinalityType
<1>3. \A i \in P : IsFiniteSet(UpTo(P, i)) /\ Cardinality(UpTo(P, i)) \in Nat
                   /\ Cardinality(UpTo(P, i)) <= Cardinality(P)
  <2> TAKE i \in P
  <2>1. UpTo(P, i) \in SUBSET P
    BY DEF UpTo
  <2> QED BY <1>2, <2>1, FS_Subset, FS_CardinalityType
<1>4. \A i \in P : Cardinality(UpTo(P, i)) # 0
  <2> TAKE i \in P
  <2>1. i \in UpTo(P, i)
    BY DEF UpTo
  <2> QED BY <1>3, <2>1, FS_EmptySet
<1>5. \A i, j \in P : i < j => Cardinality(UpTo(P, i)) < Cardinality(UpTo(P, j))
  <2> SUFFICES ASSUME NEW i \in P, NEW j \in P, i < j
               PROVE  Cardinality(UpTo(P, i)) < Cardinality(UpTo(P, j))
    OBVIOUS
  <2>0. i \in Nat /\ j \in Nat /\ \A l \in P : l \in Nat
    OBVIOUS
  <2>1. UpTo(P, i) \in SUBSET UpTo(P, j) /\ j \in UpTo(P, j) /\ j \notin UpTo(P, i)
    <3>1. \A l \in P : l <= i => l <= j
      BY <2>0
    <3>2. j <= j /\ ~(j <= i)
      BY <2>0
    <3> QED BY <3>1, <3>2 DEF UpTo
  <2>2. Cardinality(UpTo(P, i)) <= Cardinality(UpTo(P, j))
        /\ (Cardinality(UpTo(P, i)) = Cardinality(UpTo(P, j)) => UpTo(P, j) = UpTo(P, i))
    BY <1>3, <2>1, FS_Subset
  <2> QED BY <1>3, <2>1, <2>2
<1> DEFINE c == Cardinality(P)
           r == [i \in P |-> Cardinality(UpTo(P, i))]
<1>6. \A i \in P : r[i] = Cardinality(UpTo(P, i)) /\ r[i] \in 1 .. c
  BY <1>2, <1>3, <1>4
<1>7. r \in Injection(P, 1 .. c)
  <2>1. r \in [P -> 1 .. c]
    BY <1>6
  <2>2. \A i, j \in P : r[i] = r[j] => i = j
    <3> TAKE i \in P, j \in P
    <3>1. i \in Nat /\ j \in Nat
      OBVIOUS
    <3> QED BY <1>3, <1>5, <1>6, <3>1
  <2> QED BY <2>1, <2>2 DEF Injection, IsInjective
<1>8. IsFiniteSet(1 .. c) /\ Cardinality(1 .. c) = c
  <2>1. c \in Nat /\ 1 \in Int
    BY <1>2
  <2> HIDE DEF c
  <2>2. IsFiniteSet(1 .. c) /\ Cardinality(1 .. c) = IF 1 > c THEN 0 ELSE c - 1 + 1
    BY <2>1, FS_Interval
  <2> QED BY <2>1, <2>2
<1>9. r \in Surjection(P, 1 .. c)
  BY <1>7, <1>8, FS_Injection DEF c
<1>10. \A n \in 1 .. c : \E i \in P : r[i] = n
  BY <1>9 DEF Surjection
<1> QED BY <1>2, <1>5, <1>6, <1>10

LEMMA SiftEnumerated ==
    ASSUME NEW T, NEW s \in Seq(T), NEW S
    PROVE  /\ Sift(s, S) \in Seq(T)
           /\ \E f : Enumerates(f, Sift(s, S), s, S)
<1> DEFINE P == Positions(s, S)
           c == Cardinality(P)
           f == [n \in 1 .. c |-> CHOOSE i \in P : Cardinality(UpTo(P, i)) = n]
           t == Sift(s, S)
<1>1. Len(s) \in Nat /\ P \subseteq 1 .. Len(s) /\ \A i \in P : s[i] \in T
  BY DEF Positions
<1>2. c \in Nat
      /\ (\A i, j \in P : i < j => Cardinality(UpTo(P, i)) < Cardinality(UpTo(P, j)))
      /\ (\A i \in P : Cardinality(UpTo(P, i)) \in 1 .. c)
      /\ \A n \in 1 .. c : \E i \in P : Cardinality(UpTo(P, i)) = n
  <2> HIDE DEF P
  <2> QED BY <1>1, Ranks
<1>3. t = [n \in 1 .. c |-> s[CHOOSE i \in P : Cardinality(UpTo(P, i)) = n]]
  BY DEF Sift
<1> HIDE DEF P, c, t
<1>4. \A n \in 1 .. c : f[n] \in P /\ Cardinality(UpTo(P, f[n])) = n
  BY <1>2
<1>5. \A n \in 1 .. c : t[n] = s[f[n]] /\ t[n] \in T
  BY <1>1, <1>3, <1>4
<1>6. t \in Seq(T) /\ Len(t) = c
  <2>1. t \in [1 .. c -> T]
    BY <1>3, <1>5
  <2>2. t \in Seq(T) /\ DOMAIN t = 1 .. c
    BY <1>2, <2>1, SeqDef
  <2> QED BY <1>2, <2>2
<1>7. \A i, j \in 1 .. c : i < j => f[i] < f[j]
  <2> SUFFICES ASSUME NEW i \in 1 .. c, NEW j \in 1 .. c, i < j PROVE f[i] < f[j]
    OBVIOUS
  <2>1. f[i] \in P /\ f[j] \in P /\ Cardinality(UpTo(P, f[i])) = i
        /\ Cardinality(UpTo(P, f[j])) = j
    BY <1>4
  <2>2. f[i] \in Nat /\ f[j] \in Nat /\ i \in Nat /\ j \in Nat
    <3>1. \A p \in P : p \in Nat
      BY <1>1
    <3> HIDE DEF f
    <3> QED BY <1>2, <2>1, <3>1
  <2>3. ~(f[j] < f[i]) /\ f[i] # f[j]
    <3> HIDE DEF f
    <3> QED BY <1>2, <2>1, <2>2
  <2> QED BY <2>2, <2>3
<1>8. \A i \in P : \E n \in 1 .. c : f[n] = i
  <2> SUFFICES ASSUME NEW i \in P PROVE f[Cardinality(UpTo(P, i))] = i
    BY <1>2
  <2> DEFINE n == Cardinality(UpTo(P, i))
  <2>1. n \in 1 .. c
    BY <1>2
  <2>2. f[n] \in P /\ Cardinality(UpTo(P, f[n])) = n
    BY <1>4, <2>1
  <2>3. f[n] \in Nat /\ i \in Nat /\ n \in Nat
    <3>1. \A p \in P : p \in Nat
      BY <1>1
    <3> HIDE DEF f, n
    <3> QED BY <1>2, <2>1, <2>2, <3>1
  <2>4. ~(f[n] < i) /\ ~(i < f[n])
    <3> HIDE DEF f
    <3>1. Cardinality(UpTo(P, i)) = n
      OBVIOUS
    <3> QED BY <1>2, <2>2, <2>3, <3>1
  <2> QED BY <2>3, <2>4
<1>9. f \in [1 .. c -> P]
  BY <1>4
<1>10. Enumerates(f, t, s, S)
  <2> HIDE DEF f
  <2> QED BY <1>5, <1>6, <1>7, <1>8, <1>9 DEF Enumerates, Rising, P
<1> QED BY <1>6, <1>10 DEF t

LEMMA SiftUnique ==
    ASSUME NEW T, NEW s \in Seq(T), NEW S, NEW t \in Seq(T),
           NEW f, Enumerates(f, t, s, S)
    PROVE  t = Sift(s, S)
<1> DEFINE P == Positions(s, S)
           m == Len(t)
           u == Sift(s, S)
<1>1. Len(s) \in Nat /\ P \subseteq 1 .. Len(s) /\ m \in Nat
  BY DEF Positions
<1>2. /\ f \in [1 .. m -> P] /\ \A i, j \in 1 .. m : i < j => f[i] < f[j]
      /\ \A p \in P : \E n \in 1 .. m : f[n] = p
      /\ \A n \in 1 .. m : t[n] = s[f[n]]
  BY DEF Enumerates, Rising
<1> HIDE DEF P, m, u
<1>3. \A i \in 1 .. m : f[i] \in P /\ f[i] \in Nat
  <2>1. \A p \in P : p \in Nat
    BY <1>1
  <2> QED BY <1>2, <2>1
<1>4. \A i, j \in 1 .. m : f[i] = f[j] => i = j
  <2> SUFFICES ASSUME NEW i \in 1 .. m, NEW j \in 1 .. m, f[i] = f[j], i # j PROVE FALSE
    OBVIOUS
  <2>1. i < j \/ j < i
    BY <1>1
  <2>2. f[i] < f[j] \/ f[j] < f[i]
    BY <1>2, <2>1
  <2> QED BY <1>3, <2>2
<1>5. ASSUME NEW n \in 0 .. m, NEW Q, Q = {f[i] : i \in 1 .. n}
      PROVE  Cardinality(Q) = n
  <2> DEFINE g == [i \in 1 .. n |-> f[i]]
  <2>1. n \in Nat /\ 1 .. n \subseteq 1 .. m
    BY <1>1
  <2>2. g \in [1 .. n -> Q] /\ \A i \in 1 .. n : g[i] = f[i]
    BY <1>5
  <2>3. g \in Bijection(1 .. n, Q)
    <3>1. IsInjective(g)
      BY <1>4, <2>1, <2>2 DEF IsInjective
    <3>2. \A q \in Q : \E i \in 1 .. n : g[i] = q
      BY <1>5, <2>2
    <3> QED BY <2>2, <3>1, <3>2 DEF Bijection, Injection, Surjection
  <2>4. ExistsBijection(1 .. n, Q)
    BY <2>3 DEF ExistsBijection
  <2> QED BY <2>1, <2>4, FS_CountingElements
<1>6. Cardinality(P) = m
  <2>1. P = {f[i] : i \in 1 .. m}
    BY <1>2, <1>3
  <2>2. m \in 0 .. m
    BY <1>1
  <2> QED BY <1>5, <2>1, <2>2
<1>7. \A n \in 1 .. m : Cardinality(UpTo(P, f[n])) = n
  <2> TAKE n \in 1 .. m
  <2>1. \A i \in 1 .. m : f[i] <= f[n] <=> i <= n
    <3> TAKE i \in 1 .. m
    <3>1. i < n => f[i] < f[n]
      BY <1>2
    <3>2. n < i => f[n] < f[i]
      BY <1>2
    <3> QED BY <1>1, <1>3, <3>1, <3>2
  <2>2. UpTo(P, f[n]) = {f[i] : i \in 1 .. n}
    <3>1. ASSUME NEW p \in UpTo(P, f[n]) PROVE p \in {f[i] : i \in 1 .. n}
      <4>1. PICK i \in 1 .. m : f[i] = p
        BY <1>2, <3>1 DEF UpTo
      <4>2. i <= n
        BY <2>1, <4>1 DEF UpTo
      <4> QED BY <1>1, <4>1, <4>2
    <3>2. ASSUME NEW i \in 1 .. n PROVE f[i] \in UpTo(P, f[n])
      <4>1. i \in 1 .. m /\ i <= n
        BY <1>1
      <4> QED BY <1>3, <2>1, <4>1 DEF UpTo
    <3> QED BY <3>1, <3>2
  <2>3. n \in 0 .. m
    BY <1>1
  <2> QED BY <1>5, <2>2, <2>3
<1>8. \A n \in 1 .. m : (CHOOSE i \in P : Cardinality(UpTo(P, i)) = n) = f[n]
  <2> TAKE n \in 1 .. m
  <2> DEFINE i == CHOOSE i \in P : Cardinality(UpTo(P, i)) = n
  <2>1. i \in P /\ Cardinality(UpTo(P, i)) = n
    BY <1>3, <1>7
  <2> HIDE DEF i
  <2>2. PICK l \in 1 .. m : f[l] = i
    BY <1>2, <2>1
  <2>3. l = n
    BY <1>7, <2>1, <2>2
  <2> QED BY <2>2, <2>3 DEF i
<1> DEFINE at(n) == CHOOSE i \in P : Cardinality(UpTo(P, i)) = n
<1>9. u = [n \in 1 .. m |-> s[at(n)]]
  BY <1>6 DEF Sift, u, P
<1>10. u \in Seq(T)
  BY SiftEnumerated DEF u
<1>11. Len(u) = m /\ \A n \in 1 .. m : u[n] = t[n]
  <2>1. \A n \in 1 .. m : at(n) = f[n]
    BY <1>8
  <2> HIDE DEF at
  <2>2. \A n \in 1 .. m : u[n] = s[at(n)]
    BY <1>9
  <2>3. DOMAIN u = 1 .. m
    BY <1>9
  <2> QED BY <1>1, <1>2, <1>10, <2>1, <2>2, <2>3
<1>12. t = u
  BY <1>10, <1>11, SeqEqual DEF m
<1> QED BY <1>12 DEF u

LEMMA SiftElements ==
    ASSUME NEW T, NEW s \in Seq(T), NEW S
    PROVE  Sift(s, S) \in Seq(T) /\ ToSet(Sift(s, S)) = ToSet(s) \cap S
<1> DEFINE t == Sift(s, S)
<1>1. t \in Seq(T)
  BY SiftEnumerated
<1>2. PICK f : Enumerates(f, t, s, S)
  BY SiftEnumerated
<1> HIDE DEF t
<1>3. DOMAIN s = 1 .. Len(s) /\ ToSet(s) = {s[i] : i \in 1 .. Len(s)}
      /\ ToSet(t) = {t[i] : i \in 1 .. Len(t)}
  BY <1>1, Elements
<1>4. \A n \in 1 .. Len(t) : f[n] \in Positions(s, S) /\ t[n] = s[f[n]]
  BY <1>2 DEF Enumerates
<1>5. ToSet(t) \subseteq ToSet(s) \cap S
  BY <1>3, <1>4 DEF Positions
<1>6. ASSUME NEW i \in 1 .. Len(s), s[i] \in S PROVE s[i] \in ToSet(t)
  <2>1. i \in Positions(s, S)
    BY <1>3, <1>6 DEF Positions
  <2>2. PICK n \in 1 .. Len(t) : f[n] = i
    BY <1>2, <2>1 DEF Enumerates
  <2> QED BY <1>3, <1>4, <2>2
<1> QED BY <1>1, <1>3, <1>5, <1>6 DEF t

LEMMA SiftNone ==
    ASSUME NEW T, NEW s \in Seq(T), NEW S, ToSet(s) \cap S = {}
    PROVE  Sift(s, S) = <<>>
<1> DEFINE t == Sift(s, S)
<1>1. t \in Seq(T) /\ ToSet(t) = {}
  BY SiftElements
<1> HIDE DEF t
<1>2. Len(t) \in Nat /\ ToSet(t) = {t[i] : i \in 1 .. Len(t)}
  BY <1>1, Elements
<1>3. Len(t) = 0
  <2>1. Len(t) # 0 => 1 \in 1 .. Len(t) /\ t[1] \in ToSet(t)
    BY <1>2
  <2> QED BY <1>1, <2>1
<1> QED BY <1>1, <1>3 DEF t

LEMMA SiftOne ==
    ASSUME NEW T, NEW e \in T, NEW S, e \in S
    PROVE  Sift(<<e>>, S) = <<e>>
<1> DEFINE f == [n \in 1 .. 1 |-> 1]
           s == <<e>>
<1>1. s \in Seq(T) /\ Len(s) = 1 /\ s[1] = e /\ DOMAIN s = 1 .. 1
  OBVIOUS
<1> HIDE DEF s
<1>2. Positions(s, S) = {1}
  BY <1>1 DEF Positions
<1>3. \A n \in 1 .. 1 : n = 1 /\ f[n] = 1
  OBVIOUS
<1>4. f \in [1 .. 1 -> {1}]
  OBVIOUS
<1> HIDE DEF f
<1>5. Enumerates(f, s, s, S)
  BY <1>1, <1>2, <1>3, <1>4 DEF Enumerates, Rising
<1>6. s = Sift(s, S)
  BY <1>1, <1>5, SiftUnique
<1> QED BY <1>6 DEF s

LEMMA SiftConcat ==
    ASSUME NEW T, NEW a \in Seq(T), NEW b \in Seq(T), NEW S
    PROVE  Sift(a \o b, S) = Sift(a, S) \o Sift(b, S)
<1> DEFINE c == a \o b
           s == Sift(a, S)
           t == Sift(b, S)
           u == s \o t
           l == Len(a)
           m == Len(s)
           n == Len(t)
<1>1. s \in Seq(T) /\ t \in Seq(T)
  BY SiftEnumerated
<1>2. PICK f : Enumerates(f, s, a, S)
  BY SiftEnumerated
<1>3. PICK g : Enumerates(g, t, b, S)
  BY SiftEnumerated
<1> HIDE DEF s, t
<1>4. /\ c \in Seq(T) /\ Len(c) = l + Len(b) /\ l \in Nat /\ Len(b) \in Nat
      /\ \A i \in 1 .. l : c[i] = a[i]
      /\ \A i \in 1 .. Len(b) : c[l + i] = b[i]
  BY ConcatProperties
<1>5. /\ u \in Seq(T) /\ Len(u) = m + n /\ m \in Nat /\ n \in Nat
      /\ \A i \in 1 .. m : u[i] = s[i]
      /\ \A i \in 1 .. n : u[m + i] = t[i]
  BY <1>1, ConcatProperties
<1>6. DOMAIN a = 1 .. l /\ DOMAIN b = 1 .. Len(b) /\ DOMAIN c = 1 .. l + Len(b)
  BY <1>4
<1> DEFINE h == [i \in 1 .. m + n |-> IF i <= m THEN f[i] ELSE l + g[i - m]]
<1> HIDE DEF c, u, l
<1>7. \A i \in 1 .. m : f[i] \in Positions(a, S) /\ f[i] \in 1 .. l /\ s[i] = a[f[i]]
  BY <1>2, <1>6 DEF Enumerates, Positions
<1>8. \A i \in 1 .. n : g[i] \in Positions(b, S) /\ g[i] \in 1 .. Len(b) /\ t[i] = b[g[i]]
  BY <1>3, <1>6 DEF Enumerates, Positions
<1>9. \A p \in Positions(a, S) : \E i \in 1 .. m : f[i] = p
  BY <1>2 DEF Enumerates
<1>10. \A p \in Positions(b, S) : \E i \in 1 .. n : g[i] = p
  BY <1>3 DEF Enumerates
<1>11. (\A i, j \in 1 .. m : i < j => f[i] < f[j]) /\ (\A i, j \in 1 .. n : i < j => g[i] < g[j])
  BY <1>2, <1>3 DEF Enumerates, Rising
<1> HIDE DEF m, n
<1>12. /\ \A i \in 1 .. m : i \in 1 .. m + n /\ h[i] = f[i]
       /\ \A i \in 1 .. n : m + i \in 1 .. m + n /\ h[m + i] = l + g[i]
  BY <1>5
<1>13. \A i \in 1 .. m + n : i \in 1 .. m \/ (i - m \in 1 .. n /\ i = m + (i - m))
  BY <1>5
<1> HIDE DEF h
<1>14. /\ \A i \in 1 .. l : i \in Positions(c, S) <=> i \in Positions(a, S)
       /\ \A i \in 1 .. Len(b) : l + i \in Positions(c, S) <=> i \in Positions(b, S)
  <2>1. \A i \in 1 .. l : i \in 1 .. l + Len(b)
    BY <1>4
  <2>2. \A i \in 1 .. Len(b) : l + i \in 1 .. l + Len(b)
    BY <1>4
  <2> QED BY <1>4, <1>6, <2>1, <2>2 DEF Positions
<1>15. \A i \in 1 .. m + n : h[i] \in Positions(c, S) /\ u[i] = c[h[i]]
  <2> TAKE i \in 1 .. m + n
  <2>1. CASE i \in 1 .. m
    <3>1. h[i] = f[i] /\ f[i] \in 1 .. l /\ f[i] \in Positions(a, S) /\ s[i] = a[f[i]]
      BY <1>7, <1>12, <2>1
    <3>2. h[i] \in Positions(c, S) /\ c[h[i]] = a[f[i]]
      BY <1>4, <1>14, <3>1
    <3> QED BY <1>5, <2>1, <3>1, <3>2
  <2>2. ASSUME NEW j \in 1 .. n, i = m + j PROVE h[i] \in Positions(c, S) /\ u[i] = c[h[i]]
    <3>1. h[i] = l + g[j] /\ g[j] \in 1 .. Len(b) /\ g[j] \in Positions(b, S) /\ t[j] = b[g[j]]
      BY <1>8, <1>12, <2>2
    <3>2. h[i] \in Positions(c, S) /\ c[h[i]] = b[g[j]]
      BY <1>4, <1>14, <3>1
    <3> QED BY <1>5, <2>2, <3>1, <3>2
  <2> QED BY <1>13, <2>1, <2>2
<1>16. \A i, j \in 1 .. m + n : i < j => h[i] < h[j]
  <2> SUFFICES ASSUME NEW i \in 1 .. m + n, NEW j \in 1 .. m + n, i < j PROVE h[i] < h[j]
    OBVIOUS
  <2>1. CASE i \in 1 .. m /\ j \in 1 .. m
    BY <1>11, <1>12, <2>1
  <2>2. ASSUME NEW x \in 1 .. n, j = m + x, i \in 1 .. m PROVE h[i] < h[j]
    <3>1. f[i] \in 1 .. l /\ g[x] \in 1 .. Len(b) /\ h[i] = f[i] /\ h[j] = l + g[x]
      BY <1>7, <1>8, <1>12, <2>2
    <3> QED BY <1>4, <3>1
  <2>3. ASSUME NEW x \in 1 .. n, i = m + x, NEW y \in 1 .. n, j = m + y PROVE h[i] < h[j]
    <3>1. x < y
      BY <1>5, <2>3
    <3>2. g[x] < g[y] /\ g[x] \in 1 .. Len(b) /\ g[y] \in 1 .. Len(b)
          /\ h[i] = l + g[x] /\ h[j] = l + g[y]
      BY <1>8, <1>11, <1>12, <2>3, <3>1
    <3> QED BY <1>4, <3>2
  <2>4. ASSUME NEW x \in 1 .. n, i = m + x, j \in 1 .. m PROVE FALSE
    BY <1>5, <2>4
  <2> QED BY <1>13, <2>1, <2>2, <2>3, <2>4
<1>17. \A p \in Positions(c, S) : \E i \in 1 .. m + n : h[i] = p
  <2> TAKE p \in Positions(c, S)
  <2>1. p \in 1 .. l + Len(b)
    BY <1>6 DEF Positions
  <2>2. CASE p \in 1 .. l
    BY <1>9, <1>12, <1>14, <2>2
  <2>3. ASSUME NEW q \in 1 .. Len(b), p = l + q PROVE \E i \in 1 .. m + n : h[i] = p
    <3>1. q \in Positions(b, S)
      BY <1>14, <2>3
    <3>2. PICK i \in 1 .. n : g[i] = q
      BY <1>10, <3>1
    <3> QED BY <1>12, <2>3, <3>2
  <2>4. p \in 1 .. l \/ (p - l \in 1 .. Len(b) /\ p = l + (p - l))
    BY <1>4, <2>1
  <2> QED BY <2>2, <2>3, <2>4
<1>18. h \in [1 .. m + n -> Positions(c, S)]
  BY <1>15 DEF h
<1>19. Enumerates(h, u, c, S)
  BY <1>5, <1>15, <1>16, <1>17, <1>18 DEF Enumerates, Rising
<1>20. u = Sift(c, S)
  BY <1>4, <1>5, <1>19, SiftUnique
<1> QED BY <1>20 DEF c, u, s, t

-----------------------------------------------------------------------------
(* Every step, for the proofs that a step preserves an invariant.          *)
LEMMA Steps ==
    ASSUME [Next]_vars
    PROVE  \/ Create \/ NextFrame \/ ClockWaitEnds \/ StillPending \/ TakeFromPool
           \/ (\E b \in Bufs : AskForWlBuffer(b)) \/ Roundtrip \/ HaveWlBuffer
           \/ AllocFails \/ (\E b \in Bufs : AllocForgets(b)) \/ ReadHead
           \/ UnlinkHead \/ UnlinkForgets \/ UnlinkRaces
           \/ Attach \/ NonePending \/ PopPending
           \/ GetCaps \/ Start \/ Unlock
           \/ ClearBufpool \/ ForgetSize \/ DestroyDisplay \/ Finalize
           \/ (\E b \in Bufs : ReturnBuf(b)) \/ (\E b \in Bufs : PushToPool(b))
           \/ AnswerCreate \/ FrameDone \/ Release \/ TakeEvent \/ Dispatch
           \/ UNCHANGED vars
BY DEF Next, Streaming, StateChange, Downstream, Compositor, DisplayThread, Terminated,
       WaitForWlBuffer

-----------------------------------------------------------------------------
(* Releases among events.                                                  *)

Answers == {"frame", "succeeded", "failed"}
Events == Bufs \cup Answers

LEMMA Retyped ==
    ASSUME NEW T, NEW s \in Seq(T), NEW S, ToSet(s) \subseteq S
    PROVE  s \in Seq(S)
<1>1. Len(s) \in Nat /\ s \in [1 .. Len(s) -> T] /\ \A i \in 1 .. Len(s) : s[i] \in S
  BY Elements
<1>2. s \in [1 .. Len(s) -> S]
  BY <1>1
<1> QED BY <1>1, <1>2, SeqDef

LEMMA Releases ==
    ASSUME NEW evs \in Seq(Events)
    PROVE  /\ ReleasesIn(evs) \in Seq(Bufs)
           /\ ToSet(ReleasesIn(evs)) = ToSet(evs) \cap Bufs
<1> DEFINE r == ReleasesIn(evs)
<1>1. r \in Seq(Events) /\ ToSet(r) = ToSet(evs) \cap Bufs
  BY SiftElements DEF ReleasesIn
<1> HIDE DEF r
<1>2. r \in Seq(Bufs)
  BY <1>1, Retyped
<1> QED BY <1>1, <1>2 DEF r

LEMMA ReleasesConcat ==
    ASSUME NEW a \in Seq(Events), NEW b \in Seq(Events)
    PROVE  a \o b \in Seq(Events) /\ ReleasesIn(a \o b) = ReleasesIn(a) \o ReleasesIn(b)
BY SiftConcat DEF ReleasesIn

LEMMA ReleasesOfOne ==
    /\ ReleasesIn(<<>>) = <<>>
    /\ \A b \in Bufs : ReleasesIn(<<b>>) = <<b>>
    /\ \A e \in Answers : ReleasesIn(<<e>>) = <<>>
<1>1. ReleasesIn(<<>>) = <<>>
  <2> DEFINE s == <<>>
  <2>1. s \in Seq(Events) /\ ToSet(s) = {}
    BY NoElement
  <2> HIDE DEF s
  <2>2. Sift(s, Bufs) = <<>>
    BY <2>1, SiftNone
  <2> QED BY <2>2 DEF s, ReleasesIn
<1>2. ASSUME NEW b \in Bufs PROVE ReleasesIn(<<b>>) = <<b>>
  BY SiftOne DEF ReleasesIn
<1>3. ASSUME NEW e \in Answers PROVE ReleasesIn(<<e>>) = <<>>
  <2> DEFINE s == <<e>>
  <2>1. e \in Events /\ e \notin Bufs
    BY ScreenCapAssumption DEF Events, Answers
  <2>2. s \in Seq(Events) /\ ToSet(s) = {e}
    BY <2>1, OneElement
  <2> HIDE DEF s
  <2>3. Sift(s, Bufs) = <<>>
    BY <2>1, <2>2, SiftNone
  <2> QED BY <2>3 DEF s, ReleasesIn
<1> QED BY <1>1, <1>2, <1>3

-----------------------------------------------------------------------------
(* Types.                                                                  *)

(* create() is inside only while the element plays or is unlocked, the     *)
(* display is connected from the start to the stop, and without it nothing *)
(* is in flight.                                                           *)
Running == app \in {"playing", "unlocked"}
Off == app \in {"stopped", "finalized"}

Control ==
    /\ Running \/ pc \in {"idle", "paused"}
    /\ Off \/ (display = starts /\ starts > 0)
    /\ app = "stopped" => display = 0 \/ (display = 1 /\ starts = 0)
    /\ display # 0 /\ app # "unsized" => width \in Sizes
    /\ app = "unsized" => width = -1
    /\ wl = "asked" => pc = "roundtrip"
    /\ hand # <<>> => thread
    /\ Off => /\ ~thread /\ ~frame
              /\ held = <<>> /\ events = <<>> /\ pending = <<>>

(* catch has a buffer where it uses one, and the pool has those of the     *)
(* batch that are allocated.                                               *)
Allocating == pc \in {"alloc", "roundtrip", "wlbuf"}

Batch ==
    /\ pc \in {"roundtrip", "wlbuf"} => k > 0
    /\ pc \in {"roundtrip", "wlbuf", "unlink", "attach"} => cur \in Bufs
    /\ Allocating => Len(pool) >= GSTBUFFERNUMBER - k
    /\ pc = "unlink" => pool # <<>>

ITyped == TypeOK /\ Control /\ Batch

LEMMA InitTyped == Init => ITyped
<1> SUFFICES ASSUME Init PROVE ITyped
  OBVIOUS
<1> USE ScreenCapAssumption DEF Init
<1>1. info \in [Bufs -> [width : Sizes \cup {0}, display : 0 .. MaxStarts]]
  <2>1. [width |-> 0, display |-> 0] \in [width : Sizes \cup {0}, display : 0 .. MaxStarts]
    OBVIOUS
  <2> QED BY <2>1
<1>2. <<>> \in Seq(Bufs) /\ <<>> \in Seq(Bufs \cup {"frame", "succeeded", "failed"})
      /\ Len(<<>>) = 0
  OBVIOUS
<1>3. TypeOK
  <2>1. /\ events \in Seq(Bufs \cup {"frame", "succeeded", "failed"})
        /\ hand \in Seq(Bufs \cup {"frame", "succeeded", "failed"}) /\ Len(hand) <= 1
    BY <1>2
  <2>2. pool \in Seq(Bufs) /\ held \in Seq(Bufs) /\ pending \in Seq(Bufs)
    BY <1>2
  <2>3. starts \in 0 .. MaxStarts /\ k \in 0 .. GSTBUFFERNUMBER /\ width \in Sizes \cup {0, -1}
        /\ display \in {0, starts, starts + 1} /\ cur \in Bufs \cup {NoBuf}
    OBVIOUS
  <2> QED BY <1>1, <2>1, <2>2, <2>3 DEF TypeOK
<1>4. Control /\ Batch
  BY DEF Control, Batch, Running, Off, Allocating
<1> QED BY <1>3, <1>4 DEF ITyped

(* What the callbacks for some events do to the types.                     *)
LEMMA CallbacksTyped ==
    ASSUME NEW evs \in Seq(Events), pending \in Seq(Bufs), Callbacks(evs)
    PROVE  /\ redraw_pending' \in BOOLEAN /\ pending' \in Seq(Bufs)
           /\ pending' = pending \o ReleasesIn(evs)
           /\ wl' \in {wl, "succeeded", "failed"}
<1>1. redraw_pending' \in BOOLEAN
  BY DEF Callbacks, frame_redraw_callback
<1>2. pending' = pending \o ReleasesIn(evs)
  BY DEF Callbacks, buffer_release
<1>3. ReleasesIn(evs) \in Seq(Bufs)
  BY Releases
<1>4. wl' \in {wl, "succeeded", "failed"}
  BY DEF Callbacks, create_answered
<1> QED BY <1>1, <1>2, <1>3, <1>4, ToSetConcat

LEMMA AttachedTyped ==
    ASSUME TypeOK
    PROVE  /\ Attached \in Seq(Bufs)
           /\ ToSet(Attached) = ToSet(pending) \cup ToSet(held)
                                \cup ((ToSet(hand) \cup ToSet(events)) \cap Bufs)
<1>1. hand \in Seq(Events) /\ events \in Seq(Events) /\ pending \in Seq(Bufs)
      /\ held \in Seq(Bufs)
  BY DEF TypeOK, Events, Answers
<1>2. hand \o events \in Seq(Events)
      /\ ToSet(hand \o events) = ToSet(hand) \cup ToSet(events)
  BY <1>1, ToSetConcat
<1> DEFINE r == ReleasesIn(hand \o events)
<1>3. r \in Seq(Bufs) /\ ToSet(r) = ToSet(hand \o events) \cap Bufs
  BY <1>2, Releases
<1> HIDE DEF r
<1>4. r \o held \in Seq(Bufs) /\ ToSet(r \o held) = ToSet(r) \cup ToSet(held)
  BY <1>1, <1>3, ToSetConcat
<1>5. pending \o r \in Seq(Bufs) /\ ToSet(pending \o r) = ToSet(pending) \cup ToSet(r)
  BY <1>1, <1>3, ToSetConcat
<1> DEFINE q == pending \o r
<1>a. q \in Seq(Bufs)
  BY <1>5
<1> HIDE DEF q
<1>6. q \o held \in Seq(Bufs) /\ ToSet(q \o held) = ToSet(q) \cup ToSet(held)
  BY <1>1, <1>a, ToSetConcat
<1>7. Attached = q \o held
  BY SMTT(30) DEF Attached, q, r
<1> QED BY <1>2, <1>3, <1>5, <1>6, <1>7 DEF q

LEMMA TypedStep == ITyped /\ [Next]_vars => ITyped'
<1> SUFFICES ASSUME ITyped, [Next]_vars PROVE ITyped'
  OBVIOUS
<1> USE ScreenCapAssumption
    DEF Goto, Else, dispVars, bufVars, poolVars, createVars, wlVars,
        ITyped, TypeOK, Control, Batch, Running, Off, Allocating
<1>1. CASE GetCaps
  <2>1. display' = 1 /\ width' \in Sizes
    BY <1>1 DEF GetCaps, gst_qscreencap_src_open_display, create_display
  <2> QED BY <1>1, <2>1 DEF GetCaps
<1>2. CASE Start
  <2>1. starts' = starts + 1 /\ starts' <= MaxStarts /\ display' = starts' /\ width' \in Sizes
    BY <1>2 DEF Start, gst_qscreencap_src_open_display, create_display
  <2> QED BY <1>2, <2>1 DEF Start
<1>3. CASE Unlock
  BY <1>3, SMTT(30) DEF Unlock
<1>4. CASE ClearBufpool
  BY <1>4, SMTT(30) DEF ClearBufpool
<1>5. CASE ForgetSize
  BY <1>5, SMTT(30) DEF ForgetSize
<1>6. CASE DestroyDisplay
  <2>1. pool' \in Seq(Bufs)
    <3>1. Attached \in Seq(Bufs)
      BY AttachedTyped
    <3> DEFINE r == Sift(Attached, {b \in Bufs : Reusable(b)})
    <3>2. r \in Seq(Bufs)
      BY <3>1, SiftElements
    <3> HIDE DEF r
    <3>3. r \o pool \in Seq(Bufs)
      BY <3>2
    <3> QED BY <1>6, <3>3 DEF DestroyDisplay, r
  <2>2. display' = 0 /\ app' = "stopped" /\ thread' = FALSE /\ frame' = FALSE /\ pc' = pc
    BY <1>6 DEF DestroyDisplay, ClearPointer
  <2>3. pc \in {"idle", "paused"} /\ hand' = <<>>
    BY <1>6, SMTT(30) DEF DestroyDisplay
  <2>4. held' = <<>> /\ events' = <<>> /\ pending' = <<>>
        /\ UNCHANGED <<starts, width, lost, info, pushing, out, cur, k, wl, hand,
                       redraw_pending, late>>
    BY <1>6, SMTT(30) DEF DestroyDisplay
  <2>5. made' \subseteq Bufs /\ lost' \subseteq Bufs
    BY <1>6, <2>4 DEF DestroyDisplay
  <2>6. held' \in Seq(Bufs) /\ pending' \in Seq(Bufs)
        /\ events' \in Seq(Bufs \cup {"frame", "succeeded", "failed"})
    BY <2>4
  <2>a. hand' \in Seq(Bufs \cup {"frame", "succeeded", "failed"}) /\ Len(hand') <= 1
    BY <2>4
  <2>b. info' \in [Bufs -> [width : Sizes \cup {0}, display : 0 .. MaxStarts]]
    BY <2>4
  <2>c. display' \in {0, starts', starts' + 1} /\ starts' \in 0 .. MaxStarts
        /\ app' \in {"stopped", "playing", "unlocked", "cleared", "unsized", "finalized"}
    BY <2>2, <2>4
  <2>d. TypeOK'
    <3>1. width' \in Sizes \cup {0, -1} /\ k' \in 0 .. GSTBUFFERNUMBER
          /\ cur' \in Bufs \cup {NoBuf} /\ out' \subseteq Bufs /\ pushing' \subseteq Bufs
      BY <2>4
    <3>2. wl' \in {"none", "asked", "answered", "succeeded", "failed"}
          /\ redraw_pending' \in BOOLEAN /\ late' \in BOOLEAN
      BY <2>4
    <3>3. thread' \in BOOLEAN /\ frame' \in BOOLEAN
          /\ pc' \in {"paused", "idle", "retry", "waiting", "unscheduled", "redraw",
                      "alloc", "roundtrip", "wlbuf", "unlink", "raced", "attach", "pop"}
      BY <2>2
    <3> QED BY ONLY <2>1, <2>5, <2>6, <2>a, <2>b, <2>c, <3>1, <3>2, <3>3 DEF TypeOK
  <2>7. Control' /\ Batch'
    BY <2>2, <2>3, <2>4
  <2> QED BY <2>d, <2>7
<1>7. CASE Finalize
  <2>1. TypeOK'
    BY <1>7, SMTT(30) DEF Finalize
  <2>2. Control' /\ Batch'
    BY <1>7, SMTT(30) DEF Finalize
  <2> QED BY <2>1, <2>2
<1>8. CASE Create
  <2>1. TypeOK'
    BY <1>8, SMTT(30) DEF Create
  <2>2. Control' /\ Batch'
    BY <1>8, SMTT(30) DEF Create
  <2> QED BY <2>1, <2>2
<1>9. CASE NextFrame
  <2>1. TypeOK'
    BY <1>9, SMTT(30) DEF NextFrame
  <2>2. Control' /\ Batch'
    BY <1>9, SMTT(30) DEF NextFrame
  <2> QED BY <2>1, <2>2
<1>10. CASE ClockWaitEnds
  <2>1. TypeOK'
    BY <1>10, SMTT(30) DEF ClockWaitEnds
  <2>2. Control' /\ Batch'
    BY <1>10, SMTT(30) DEF ClockWaitEnds
  <2> QED BY <2>1, <2>2
<1>11. CASE StillPending
  <2>1. TypeOK'
    BY <1>11, SMTT(30) DEF StillPending
  <2>2. Control' /\ Batch'
    BY <1>11, SMTT(30) DEF StillPending
  <2> QED BY <2>1, <2>2
<1>12. CASE TakeFromPool
  <2>0. pool \in Seq(Bufs) /\ Len(pool) \in Nat /\ \A i \in 1 .. Len(pool) : pool[i] \in Bufs
    <3>1. pool \in Seq(Bufs)
      OBVIOUS
    <3> QED BY ONLY <3>1, Elements
  <2>a. pc = "redraw" /\ made' \subseteq made
        /\ UNCHANGED <<app, dispVars, width, lost, info, pushing, out, wl, redraw_pending,
                       wlVars, pending, late>>
    BY <1>12, SMTT(30) DEF TakeFromPool
  <2>1. PICK n \in 1 .. Len(pool) + 1 :
            /\ pool' = SubSeq(pool, n + 1, Len(pool))
            /\ \/ pc' = "alloc" /\ k' = GSTBUFFERNUMBER /\ cur' = cur
               \/ n <= Len(pool) /\ pc' = "attach" /\ cur' = pool[n] /\ k' = k
    BY <1>12, SMTT(30) DEF TakeFromPool
  <2>2. pool' \in Seq(Bufs)
    <3>1. \A i \in n + 1 .. Len(pool) : pool[i] \in Bufs
      BY <2>0
    <3> QED BY <2>0, <2>1, <3>1, SubSeqProperties
  <2>3. /\ cur' \in Bufs \cup {NoBuf} /\ k' \in 0 .. GSTBUFFERNUMBER
        /\ pc' \in {"alloc", "attach"}
        /\ pc' = "attach" => cur' \in Bufs
        /\ pc' = "alloc" => k' = GSTBUFFERNUMBER
    <3>1. cur \in Bufs \cup {NoBuf} /\ k \in 0 .. GSTBUFFERNUMBER
          /\ GSTBUFFERNUMBER \in 0 .. GSTBUFFERNUMBER
      OBVIOUS
    <3>2. CASE pc' = "alloc" /\ k' = GSTBUFFERNUMBER /\ cur' = cur
      BY <3>1, <3>2
    <3>3. CASE n <= Len(pool) /\ pc' = "attach" /\ cur' = pool[n] /\ k' = k
      <4>1. n \in 1 .. Len(pool)
        BY <2>0, <3>3
      <4> QED BY <2>0, <3>1, <3>3, <4>1
    <3> QED BY <2>1, <3>2, <3>3
  <2>4. Len(pool') >= 0
    BY <2>2
  <2>5. TypeOK'
    <3>1. /\ made' \subseteq Bufs /\ lost' \subseteq Bufs /\ out' \subseteq Bufs
          /\ pushing' \subseteq Bufs /\ width' \in Sizes \cup {0, -1}
          /\ late' \in BOOLEAN /\ redraw_pending' \in BOOLEAN /\ frame' \in BOOLEAN
          /\ wl' \in {"none", "asked", "answered", "succeeded", "failed"}
      BY <2>a
    <3>2. /\ app' \in {"stopped", "playing", "unlocked", "cleared", "unsized", "finalized"}
          /\ starts' \in 0 .. MaxStarts /\ display' \in {0, starts', starts' + 1}
          /\ thread' \in BOOLEAN
          /\ info' \in [Bufs -> [width : Sizes \cup {0}, display : 0 .. MaxStarts]]
      BY <2>a
    <3>3. /\ held' \in Seq(Bufs) /\ pending' \in Seq(Bufs)
          /\ events' \in Seq(Bufs \cup {"frame", "succeeded", "failed"})
          /\ hand' \in Seq(Bufs \cup {"frame", "succeeded", "failed"}) /\ Len(hand') <= 1
      BY <2>a
    <3> QED BY ONLY <2>2, <2>3, <3>1, <3>2, <3>3 DEF TypeOK
  <2>6. Control'
    BY <2>a, <2>3
  <2>7. Batch'
    BY <2>3, <2>4
  <2> QED BY <2>5, <2>6, <2>7
<1>13. CASE Roundtrip
  <2>1. redraw_pending' \in BOOLEAN /\ pending' \in Seq(Bufs)
        /\ wl' \in {wl, "succeeded", "failed"}
    BY <1>13, CallbacksTyped DEF Roundtrip, Events, Answers
  <2>2. TypeOK'
    BY <1>13, <2>1, SMTT(30) DEF Roundtrip
  <2>3. Control' /\ Batch'
    BY <1>13, <2>1, SMTT(30) DEF Roundtrip
  <2> QED BY <2>2, <2>3
<1>14. CASE HaveWlBuffer
  <2>1. TypeOK'
    BY <1>14, SMTT(30) DEF HaveWlBuffer
  <2>2. Control' /\ Batch'
    BY <1>14, SMTT(30) DEF HaveWlBuffer
  <2> QED BY <2>1, <2>2
<1>15. CASE AllocFails
  <2>1. TypeOK'
    BY <1>15, SMTT(30) DEF AllocFails
  <2>2. Control' /\ Batch'
    BY <1>15, SMTT(30) DEF AllocFails
  <2> QED BY <2>1, <2>2
<1>16. CASE ReadHead
  <2>1. TypeOK'
    BY <1>16, SMTT(30) DEF ReadHead
  <2>2. Control' /\ Batch'
    BY <1>16, SMTT(30) DEF ReadHead
  <2> QED BY <2>1, <2>2
<1>17. CASE UnlinkHead
  <2>1. TypeOK'
    BY <1>17, SMTT(30) DEF UnlinkHead
  <2>2. Control' /\ Batch'
    BY <1>17, SMTT(30) DEF UnlinkHead
  <2> QED BY <2>1, <2>2
<1>18. CASE Attach
  <2>1. TypeOK'
    BY <1>18, SMTT(30) DEF Attach
  <2>2. Control' /\ Batch'
    BY <1>18, SMTT(30) DEF Attach
  <2> QED BY <2>1, <2>2
<1>19. CASE NonePending
  <2>1. TypeOK'
    BY <1>19, SMTT(30) DEF NonePending
  <2>2. Control' /\ Batch'
    BY <1>19, SMTT(30) DEF NonePending
  <2> QED BY <2>1, <2>2
<1>20. CASE PopPending
  <2>1. Head(pending) \in Bufs /\ Tail(pending) \in Seq(Bufs)
    BY <1>20, HeadAndTail DEF PopPending
  <2> QED BY <1>20, <2>1, SMTT(30) DEF PopPending, PopHead
<1>21. CASE AnswerCreate
  BY <1>21, SMTT(30) DEF AnswerCreate
<1>22. CASE FrameDone
  <2>1. "frame" \in Events /\ events \in Seq(Events)
    BY DEF Events, Answers
  <2>2. events' \in Seq(Events)
    BY <1>22, <2>1, AppendProperties DEF FrameDone
  <2>3. events' \in Seq(Bufs \cup {"frame", "succeeded", "failed"})
    BY <2>2 DEF Events, Answers
  <2>4. TypeOK'
    <3>1. UNCHANGED <<app, dispVars, width, bufVars, poolVars, createVars,
                      redraw_pending, held, hand, pending, late>>
      BY ONLY <1>22 DEF FrameDone
    <3>2. frame' \in BOOLEAN
      BY ONLY <1>22, Zenon DEF FrameDone
    <3> QED BY <2>3, <3>1, <3>2, SMTT(30)
  <2>5. Control' /\ Batch'
    BY <1>22, SMTT(30) DEF FrameDone
  <2> QED BY <2>4, <2>5
<1>23. CASE Release
  <2>1. Head(held) \in Bufs /\ Tail(held) \in Seq(Bufs)
    BY <1>23, HeadAndTail DEF Release
  <2>2. events' \in Seq(Events)
    BY <1>23, <2>1, AppendProperties DEF Release, Events, Answers
  <2>3. events' \in Seq(Bufs \cup {"frame", "succeeded", "failed"})
    BY <2>2 DEF Events, Answers
  <2>4. held' \in Seq(Bufs)
    BY <1>23, <2>1 DEF Release
  <2>5. TypeOK'
    <3>1. UNCHANGED <<app, dispVars, width, bufVars, poolVars, createVars,
                      redraw_pending, frame, hand, pending, late>>
      BY ONLY <1>23 DEF Release
    <3> QED BY <2>3, <2>4, <3>1, SMTT(30)
  <2>6. Control' /\ Batch'
    BY <1>23, SMTT(30) DEF Release
  <2> QED BY <2>5, <2>6
<1>24. CASE TakeEvent
  BY <1>24, SMTT(30) DEF TakeEvent
<1>25. CASE Dispatch
  <2>1. redraw_pending' \in BOOLEAN /\ pending' \in Seq(Bufs)
        /\ wl' \in {wl, "succeeded", "failed"}
    BY <1>25, CallbacksTyped DEF Dispatch, Events, Answers
  <2> QED BY <1>25, <2>1, SMTT(30) DEF Dispatch
<1>26. ASSUME NEW b \in Bufs, AskForWlBuffer(b) PROVE ITyped'
  <2>1. width \in Sizes /\ display \in 0 .. MaxStarts
    BY <1>26, SMTT(30) DEF AskForWlBuffer
  <2>2. info' \in [Bufs -> [width : Sizes \cup {0}, display : 0 .. MaxStarts]]
    <3>1. [width |-> width, display |-> display] \in
              [width : Sizes \cup {0}, display : 0 .. MaxStarts]
      BY <2>1
    <3> QED BY <1>26, <3>1 DEF AskForWlBuffer
  <2> QED BY <1>26, <2>2 DEF AskForWlBuffer
<1>27. ASSUME NEW b \in Bufs, ReturnBuf(b) PROVE ITyped'
  <2>1. TypeOK'
    BY <1>27, SMTT(30) DEF ReturnBuf
  <2>2. Control' /\ Batch'
    BY <1>27, SMTT(30) DEF ReturnBuf
  <2> QED BY <2>1, <2>2
<1>28. ASSUME NEW b \in Bufs, PushToPool(b) PROVE ITyped'
  <2>1. TypeOK'
    BY <1>28, SMTT(30) DEF PushToPool
  <2>2. Control' /\ Batch'
    BY <1>28, SMTT(30) DEF PushToPool
  <2> QED BY <2>1, <2>2
<1>29. CASE UNCHANGED vars
  BY <1>29, SMTT(30) DEF vars
<1>30. ASSUME NEW b \in Bufs, AllocForgets(b) PROVE ITyped'
  BY <1>30, SMTT(30) DEF AllocForgets
<1>31. CASE UnlinkForgets
  <2>1. pool' \in Seq(Bufs)
    BY <1>31, HeadAndTail DEF UnlinkForgets
  <2> QED BY <1>31, <2>1 DEF UnlinkForgets
<1>32. CASE UnlinkRaces
  <2>1. pool \in Seq(Bufs) /\ pool # <<>> /\ pushing \subseteq Bufs /\ pc = "unlink"
    BY <1>32, SMTT(30) DEF UnlinkRaces
  <2>2. Tail(pool) \in Seq(Bufs) /\ \A b \in Bufs : <<b>> \o pool \in Seq(Bufs)
    BY <2>1, HeadAndTail, Prepended
  <2>3. pool' \in Seq(Bufs) /\ pushing' \subseteq Bufs
    BY <1>32, <2>1, <2>2 DEF UnlinkRaces
  <2>4. UNCHANGED <<app, dispVars, width, bufVars, out, cur, k, wl,
                    redraw_pending, wlVars, pending, late>> /\ pc' = "raced"
    BY <1>32, SMTT(30) DEF UnlinkRaces
  <2> QED BY <2>1, <2>3, <2>4, SMTT(30)
<1> QED BY Steps, <1>1, <1>2, <1>3, <1>4, <1>5, <1>6, <1>7, <1>8, <1>9, <1>10,
           <1>11, <1>12, <1>13, <1>14, <1>15, <1>16, <1>17, <1>18, <1>19, <1>20,
           <1>21, <1>22, <1>23, <1>24, <1>25, <1>26, <1>27, <1>28, <1>29, <1>30,
           <1>31, <1>32

(* Every variable of the screen capture source has its type.               *)
THEOREM TypeCorrect == Spec => []TypeOK
<1>1. ITyped => TypeOK
  BY DEF ITyped
<1> QED BY InitTyped, TypedStep, <1>1, PTL DEF Spec

-----------------------------------------------------------------------------
(* The order of capture.                                                   *)

(* Attached, as a function of its parts.                                   *)
Line(p, h, e, r) == p \o ReleasesIn(h \o e) \o r

Parts(p, h, e, r) ==
    /\ p \in Seq(Bufs) /\ r \in Seq(Bufs)
    /\ h \in Seq(Events) /\ e \in Seq(Events)

LEMMA LineIs ==
    ASSUME NEW p, NEW h, NEW e, NEW r, Parts(p, h, e, r)
    PROVE  /\ Line(p, h, e, r) \in Seq(Bufs)
           /\ ToSet(Line(p, h, e, r)) =
                ToSet(p) \cup ToSet(r) \cup ((ToSet(h) \cup ToSet(e)) \cap Bufs)
           /\ ReleasesIn(h) \in Seq(Bufs) /\ ReleasesIn(e) \in Seq(Bufs)
           /\ Line(p, h, e, r) = p \o (ReleasesIn(h) \o (ReleasesIn(e) \o r))
<1> DEFINE a == ReleasesIn(h)
           b == ReleasesIn(e)
           c == ReleasesIn(h \o e)
<1>0. p \in Seq(Bufs) /\ h \in Seq(Events) /\ e \in Seq(Events) /\ r \in Seq(Bufs)
  BY DEF Parts
<1>1. /\ a \in Seq(Bufs) /\ b \in Seq(Bufs) /\ c = a \o b
      /\ ToSet(a) = ToSet(h) \cap Bufs /\ ToSet(b) = ToSet(e) \cap Bufs
  BY <1>0, Releases, ReleasesConcat
<1>2. Line(p, h, e, r) = (p \o c) \o r
  BY DEF Line
<1> HIDE DEF a, b, c
<1>3. c \in Seq(Bufs) /\ ToSet(c) = ToSet(a) \cup ToSet(b)
  BY <1>1, ToSetConcat
<1>4. c \o r \in Seq(Bufs) /\ ToSet(c \o r) = ToSet(c) \cup ToSet(r)
  BY <1>0, <1>3, ToSetConcat
<1>5. (p \o c) \o r = p \o (c \o r)
  BY <1>0, <1>3, ConcatAssociative, SMTT(30)
<1>6. c \o r = a \o (b \o r)
  BY <1>0, <1>1, <1>4, ConcatAssociative, SMTT(30)
<1> DEFINE d == c \o r
<1>7. d \in Seq(Bufs)
  BY <1>4
<1> HIDE DEF d
<1>8. p \o d \in Seq(Bufs) /\ ToSet(p \o d) = ToSet(p) \cup ToSet(d)
  BY <1>0, <1>7, ToSetConcat
<1>9. Line(p, h, e, r) = p \o d
  BY <1>2, <1>5 DEF d
<1>10. Line(p, h, e, r) = p \o (a \o (b \o r))
  BY <1>6, <1>9 DEF d
<1>11. ToSet(Line(p, h, e, r)) =
          ToSet(p) \cup ToSet(r) \cup ((ToSet(h) \cup ToSet(e)) \cap Bufs)
  BY <1>0, <1>1, <1>3, <1>4, <1>8, <1>9 DEF d
<1> QED BY <1>1, <1>8, <1>9, <1>10, <1>11 DEF a, b

Joined(p, l, m, r) == p \o (l \o (m \o r))

LEMMA LineParts ==
    ASSUME NEW p, NEW h, NEW e, NEW r, Parts(p, h, e, r)
    PROVE  Line(p, h, e, r) = Joined(p, ReleasesIn(h), ReleasesIn(e), r)
BY LineIs DEF Joined

Three(S, a, b, c) == a \in Seq(S) /\ b \in Seq(S) /\ c \in Seq(S)

LEMMA Regrouped ==
    ASSUME NEW S, NEW a, NEW b, NEW c, Three(S, a, b, c)
    PROVE  (a \o b) \o c = a \o (b \o c)
BY ConcatAssociative DEF Three

(* An event is handled: the buffer that it releases becomes pending.       *)
LEMMA LineHandled ==
    ASSUME NEW p, NEW h, NEW e, NEW r, NEW n, Parts(p, h, e, r),
           n \in Seq(Events), ReleasesIn(n) = <<>>
    PROVE  Line(p \o ReleasesIn(h), n, e, r) = Line(p, h, e, r)
<1>1. /\ p \in Seq(Bufs) /\ h \in Seq(Events) /\ e \in Seq(Events) /\ r \in Seq(Bufs)
      /\ ReleasesIn(h) \in Seq(Bufs) /\ ReleasesIn(e) \in Seq(Bufs)
  BY Releases DEF Parts
<1>2. ASSUME NEW l, NEW m, l = ReleasesIn(h), m = ReleasesIn(e)
      PROVE  Line(p \o l, n, e, r) = Line(p, h, e, r)
  <2>1. p \o l \in Seq(Bufs) /\ m \o r \in Seq(Bufs)
    BY <1>1, <1>2, ConcatProperties
  <2>2. Parts(p \o l, n, e, r) /\ Three(Bufs, p, l, m \o r)
    BY <1>1, <1>2, <2>1 DEF Parts, Three
  <2>3. Line(p \o l, n, e, r) = Joined(p \o l, ReleasesIn(n), m, r)
    BY <1>2, <2>2, LineParts
  <2>4. Line(p, h, e, r) = Joined(p, l, m, r)
    BY <1>2, LineParts
  <2>5. <<>> \o (m \o r) = m \o r
    BY <2>1, ConcatEmptySeq
  <2>6. (p \o l) \o (m \o r) = p \o (l \o (m \o r))
    BY <2>2, Regrouped
  <2>7. Joined(p \o l, ReleasesIn(n), m, r) = Joined(p, l, m, r)
    BY <2>5, <2>6 DEF Joined
  <2> QED BY <2>3, <2>4, <2>7
<1> QED BY <1>2

(* A frame's end, or an answer, is sent: no buffer moves.                  *)
LEMMA LineAnswered ==
    ASSUME NEW p, NEW h, NEW e, NEW r, Parts(p, h, e, r), NEW x \in Answers
    PROVE  Line(p, h, Append(e, x), r) = Line(p, h, e, r)
<1>1. /\ x \in Events /\ ReleasesIn(<<x>>) = <<>>
      /\ p \in Seq(Bufs) /\ h \in Seq(Events) /\ e \in Seq(Events) /\ r \in Seq(Bufs)
  BY ReleasesOfOne DEF Events, Parts
<1>2. Append(e, x) = e \o <<x>> /\ Append(e, x) \in Seq(Events) /\ <<x>> \in Seq(Events)
  BY <1>1, Appended, OneElement
<1>3. ReleasesIn(e \o <<x>>) = ReleasesIn(e) \o <<>>
  BY <1>1, <1>2, ReleasesConcat
<1>4. ReleasesIn(e) \o <<>> = ReleasesIn(e)
  BY <1>1, Releases, ConcatEmptySeq
<1>5. Parts(p, h, Append(e, x), r)
  BY <1>1, <1>2 DEF Parts
<1>6. ReleasesIn(Append(e, x)) = ReleasesIn(e)
  BY <1>2, <1>3, <1>4
<1> QED BY <1>5, <1>6, LineParts

(* A buffer is released: it leaves the compositor for the queue.           *)
LEMMA LineReleased ==
    ASSUME NEW p, NEW h, NEW e, NEW r, Parts(p, h, e, r), NEW b \in Bufs
    PROVE  Line(p, h, Append(e, b), r) = Line(p, h, e, <<b>> \o r)
<1>1. /\ b \in Events /\ ReleasesIn(<<b>>) = <<b>> /\ <<b>> \in Seq(Bufs)
      /\ p \in Seq(Bufs) /\ h \in Seq(Events) /\ e \in Seq(Events) /\ r \in Seq(Bufs)
  BY ReleasesOfOne, OneElement DEF Events, Parts
<1>2. Append(e, b) = e \o <<b>> /\ Append(e, b) \in Seq(Events) /\ <<b>> \in Seq(Events)
  BY <1>1, Appended, OneElement
<1>3. ReleasesIn(e \o <<b>>) = ReleasesIn(e) \o <<b>>
  BY <1>1, <1>2, ReleasesConcat
<1>4. ASSUME NEW f, NEW s, f \in Seq(Events), s \in Seq(Bufs),
             ReleasesIn(f) = ReleasesIn(e) \o s
      PROVE  Line(p, h, f, r) = Line(p, h, e, s \o r)
  <2>1. s \o r \in Seq(Bufs) /\ ReleasesIn(e) \in Seq(Bufs)
    BY <1>1, <1>4, Releases, ConcatProperties
  <2>2. Parts(p, h, f, r) /\ Parts(p, h, e, s \o r) /\ Three(Bufs, ReleasesIn(e), s, r)
    BY <1>1, <1>4, <2>1 DEF Parts, Three
  <2>3. Line(p, h, f, r) = Joined(p, ReleasesIn(h), ReleasesIn(f), r)
    BY <2>2, LineParts
  <2>4. Line(p, h, e, s \o r) = Joined(p, ReleasesIn(h), ReleasesIn(e), s \o r)
    BY <2>2, LineParts
  <2>5. (ReleasesIn(e) \o s) \o r = ReleasesIn(e) \o (s \o r)
    BY <2>2, Regrouped
  <2>6. Joined(p, ReleasesIn(h), ReleasesIn(f), r)
          = Joined(p, ReleasesIn(h), ReleasesIn(e), s \o r)
    BY <1>4, <2>5 DEF Joined
  <2> QED BY <2>3, <2>4, <2>6
<1> QED BY <1>1, <1>2, <1>3, <1>4

Joins(u, s, t) ==
    /\ Len(u) = Len(s) + Len(t)
    /\ \A i \in 1 .. Len(s) : u[i] = s[i]
    /\ \A i \in 1 .. Len(t) : u[Len(s) + i] = t[i]

LEMMA At ==
    ASSUME NEW S, NEW s \in Seq(S), NEW t \in Seq(S)
    PROVE  s \o t \in Seq(S) /\ Joins(s \o t, s, t)
BY ConcatProperties DEF Joins

(* An element moved behind the ones that follow it.                        *)
FallsBehind(s, t) == \E i, j \in DOMAIN s : i < j /\ t = Channel!FallBehind(s, i, j)

LEMMA Fallen ==
    ASSUME NEW S, NEW a \in Seq(S), NEW b \in S, NEW c \in Seq(S), NEW d \in Seq(S),
           c # <<>>
    PROVE  FallsBehind(a \o (<<b>> \o (c \o d)), a \o (c \o (<<b>> \o d)))
<1> DEFINE l == Len(a)
           m == Len(c)
           n == Len(d)
           o == <<b>>
           cd == c \o d
           od == o \o d
           ocd == o \o cd
           cod == c \o od
           s == a \o ocd
           t == a \o cod
<1>1. /\ l \in Nat /\ m \in Nat /\ m > 0 /\ n \in Nat
      /\ o \in Seq(S) /\ Len(o) = 1 /\ o[1] = b
  BY EmptySeq
<1> HIDE DEF o
<1>2. cd \in Seq(S) /\ Joins(cd, c, d)
  BY At
<1>3. od \in Seq(S) /\ Joins(od, o, d)
  BY <1>1, At
<1> HIDE DEF cd, od
<1>4. ocd \in Seq(S) /\ Joins(ocd, o, cd)
  BY <1>1, <1>2, At
<1>5. cod \in Seq(S) /\ Joins(cod, c, od)
  BY <1>3, At
<1> HIDE DEF ocd, cod
<1>6. s \in Seq(S) /\ Joins(s, a, ocd)
  BY <1>4, At
<1>7. t \in Seq(S) /\ Joins(t, a, cod)
  BY <1>5, At
<1> HIDE DEF s, t
<1>a. /\ \A i \in 1 .. m : cd[i] = c[i]
      /\ \A i \in 1 .. n : cd[m + i] = d[i] /\ od[1 + i] = d[i]
      /\ ocd[1] = b /\ od[1] = b
      /\ \A i \in 1 .. m + n : ocd[1 + i] = cd[i]
      /\ \A i \in 1 .. m : cod[i] = c[i]
      /\ \A i \in 1 .. 1 + n : cod[m + i] = od[i]
      /\ Len(ocd) = 1 + (m + n) /\ Len(cod) = m + (1 + n)
  BY <1>1, <1>2, <1>3, <1>4, <1>5 DEF Joins
<1>b. /\ Len(s) = l + (1 + (m + n)) /\ Len(t) = l + (m + (1 + n))
      /\ \A i \in 1 .. l : s[i] = a[i] /\ t[i] = a[i]
      /\ \A i \in 1 .. 1 + (m + n) : s[l + i] = ocd[i]
      /\ \A i \in 1 .. m + (1 + n) : t[l + i] = cod[i]
  BY <1>6, <1>7, <1>a DEF Joins
<1> HIDE DEF l, m, n
<1>8. /\ \A i \in 1 .. l : s[i] = a[i] /\ t[i] = a[i]
      /\ s[l + 1] = b /\ t[l + m + 1] = b
      /\ \A i \in 1 .. m : s[l + 1 + i] = c[i] /\ t[l + i] = c[i]
      /\ \A i \in 1 .. n : s[l + m + 1 + i] = d[i] /\ t[l + m + 1 + i] = d[i]
  <2>1. s[l + 1] = b /\ t[l + m + 1] = b
    <3>1. 1 \in 1 .. 1 /\ 1 \in 1 .. 1 + (m + n) /\ m + 1 \in 1 .. m + (1 + n)
          /\ 1 \in 1 .. 1 + n /\ l + (m + 1) = l + m + 1
      BY <1>1
    <3> QED BY <1>a, <1>b, <3>1
  <2>2. ASSUME NEW i \in 1 .. m PROVE s[l + 1 + i] = c[i] /\ t[l + i] = c[i]
    <3>1. i \in 1 .. m + n /\ 1 + i \in 1 .. 1 + (m + n) /\ i \in 1 .. m + (1 + n)
          /\ l + (1 + i) = l + 1 + i
      BY <1>1
    <3> QED BY <1>a, <1>b, <3>1
  <2>3. ASSUME NEW i \in 1 .. n PROVE s[l + m + 1 + i] = d[i] /\ t[l + m + 1 + i] = d[i]
    <3>1. /\ m + i \in 1 .. m + n /\ 1 + (m + i) \in 1 .. 1 + (m + n)
          /\ 1 + i \in 1 .. 1 + n /\ m + (1 + i) \in 1 .. m + (1 + n)
          /\ l + (1 + (m + i)) = l + m + 1 + i /\ l + (m + (1 + i)) = l + m + 1 + i
      BY <1>1
    <3>2. s[l + (1 + (m + i))] = d[i]
      BY <1>a, <1>b, <3>1, SMTT(30)
    <3>3. t[l + (m + (1 + i))] = d[i]
      BY <1>a, <1>b, <3>1
    <3> QED BY <3>1, <3>2, <3>3
  <2> QED BY <1>b, <2>1, <2>2, <2>3
<1> DEFINE z == l + m + n + 1
<1>9. /\ DOMAIN s = 1 .. z /\ DOMAIN t = 1 .. z
      /\ t = [i \in 1 .. z |-> t[i]]
  <2>1. Len(s) = z /\ Len(t) = z
    BY <1>1, <1>b DEF z
  <2> QED BY <1>6, <1>7, <2>1
<1> DEFINE f == Channel!FallBehind(s, l + 1, l + m + 1)
<1>10. f = [i \in 1 .. z |-> IF i < l + 1 \/ i > l + m + 1 THEN s[i]
                             ELSE IF i = l + m + 1 THEN s[l + 1] ELSE s[i + 1]]
  BY <1>9 DEF Channel!FallBehind
<1> HIDE DEF f, z
<1>11. ASSUME NEW i \in 1 .. z PROVE t[i] = f[i]
  <2>0. f[i] = IF i < l + 1 \/ i > l + m + 1 THEN s[i]
               ELSE IF i = l + m + 1 THEN s[l + 1] ELSE s[i + 1]
    BY <1>10
  <2>1. CASE i \in 1 .. l
    BY <1>1, <1>8, <2>0, <2>1
  <2>2. CASE i = l + m + 1
    BY <1>1, <1>8, <2>0, <2>2
  <2>3. ASSUME NEW j \in 1 .. m, i = l + j PROVE t[i] = f[i]
    <3>1. ~(i < l + 1) /\ ~(i > l + m + 1) /\ i # l + m + 1 /\ i + 1 = l + 1 + j
      BY <1>1, <2>3
    <3> QED BY <1>8, <2>0, <2>3, <3>1
  <2>4. ASSUME NEW j \in 1 .. n, i = l + m + 1 + j PROVE t[i] = f[i]
    <3>1. i > l + m + 1
      BY <1>1, <2>4
    <3> QED BY <1>8, <2>0, <2>4, <3>1
  <2>5. \/ i \in 1 .. l \/ i = l + m + 1 \/ (i - l \in 1 .. m /\ i = l + (i - l))
        \/ (i - (l + m + 1) \in 1 .. n /\ i = l + m + 1 + (i - (l + m + 1)))
    BY <1>1 DEF z
  <2> QED BY <2>1, <2>2, <2>3, <2>4, <2>5
<1>12. t = f
  <2>1. f = [i \in 1 .. z |-> f[i]]
    BY <1>10
  <2> QED BY <1>9, <1>11, <2>1
<1>13. l + 1 \in DOMAIN s /\ l + m + 1 \in DOMAIN s /\ l + 1 < l + m + 1
  BY <1>1, <1>9 DEF z
<1>14. FallsBehind(s, t)
  BY <1>12, <1>13 DEF f, FallsBehind
<1> QED BY <1>14 DEF s, t, ocd, cod, cd, od, o

(* All events in the queue are handled while a release is in the display   *)
(* thread's hand: its buffer falls behind theirs.                          *)
LEMMA LineOvertaken ==
    ASSUME NEW p, NEW h, NEW e, NEW r, Parts(p, h, e, r), Len(h) <= 1
    PROVE  \/ Line(p \o ReleasesIn(e), h, <<>>, r) = Line(p, h, e, r)
           \/ FallsBehind(Line(p, h, e, r), Line(p \o ReleasesIn(e), h, <<>>, r))
<1>1. /\ p \in Seq(Bufs) /\ h \in Seq(Events) /\ e \in Seq(Events) /\ r \in Seq(Bufs)
      /\ ReleasesIn(h) \in Seq(Bufs) /\ ReleasesIn(e) \in Seq(Bufs)
  BY Releases DEF Parts
<1>2. h = <<>> \/ \E x \in Events : h = <<x>>
  <2> SUFFICES ASSUME h # <<>> PROVE \E x \in Events : h = <<x>>
    OBVIOUS
  <2>1. /\ Head(h) \in Events /\ Tail(h) \in Seq(Events)
        /\ h = <<Head(h)>> \o Tail(h) /\ Len(Tail(h)) = Len(h) - 1
    BY <1>1, HeadAndTail, HeadTailProperties
  <2>2. Len(Tail(h)) = 0 /\ Tail(h) = <<>>
    <3>1. Len(h) \in Nat /\ Len(Tail(h)) \in Nat
      BY <1>1, <2>1, Elements
    <3>2. Len(Tail(h)) = 0
      BY <2>1, <3>1
    <3> QED BY <2>1, <3>2, EmptySeq
  <2>3. <<Head(h)>> \o <<>> = <<Head(h)>>
    BY <2>1, OneElement, ConcatEmptySeq
  <2> QED BY <2>1, <2>2, <2>3
<1>3. ReleasesIn(h) = <<>> \/ \E b \in Bufs : ReleasesIn(h) = <<b>>
  BY <1>2, ReleasesOfOne DEF Events
<1>4. ASSUME NEW c, NEW g, c = ReleasesIn(e), g = ReleasesIn(h)
      PROVE  /\ Line(p \o c, h, <<>>, r) = p \o (c \o (g \o r))
             /\ Line(p, h, e, r) = p \o (g \o (c \o r))
  <2>0. c \in Seq(Bufs) /\ g \in Seq(Bufs)
    BY <1>1, <1>4
  <2>1. p \o c \in Seq(Bufs) /\ g \o r \in Seq(Bufs)
    BY <1>1, <2>0, ConcatProperties
  <2> DEFINE v == <<>>
  <2>2. v \in Seq(Events) /\ ReleasesIn(v) = <<>>
    BY ReleasesOfOne
  <2>3. Parts(p \o c, h, v, r)
    BY <1>1, <2>1, <2>2 DEF Parts
  <2> HIDE DEF v
  <2>4. Line(p \o c, h, v, r) = Joined(p \o c, g, <<>>, r)
    BY <1>4, <2>2, <2>3, LineParts
  <2>5. <<>> \o r = r
    BY <1>1, ConcatEmptySeq
  <2>6. (p \o c) \o (g \o r) = p \o (c \o (g \o r))
    <3>1. Three(Bufs, p, c, g \o r)
      BY <1>1, <2>0, <2>1 DEF Three
    <3> QED BY <3>1, Regrouped
  <2>7. Line(p, h, e, r) = Joined(p, g, c, r)
    BY <1>4, LineParts
  <2> QED BY <2>4, <2>5, <2>6, <2>7 DEF Joined, v
<1>5. ASSUME NEW c, NEW g, c = ReleasesIn(e), g = ReleasesIn(h)
      PROVE  \/ Line(p \o c, h, <<>>, r) = Line(p, h, e, r)
             \/ FallsBehind(Line(p, h, e, r), Line(p \o c, h, <<>>, r))
  <2>1. c \in Seq(Bufs) /\ g \in Seq(Bufs) /\ c \o r \in Seq(Bufs) /\ g \o r \in Seq(Bufs)
    BY <1>1, <1>5, ConcatProperties
  <2>2. CASE c = <<>> \/ g = <<>>
    <3> DEFINE u == c \o r
               v == g \o r
    <3>1. <<>> \o r = r /\ <<>> \o u = u /\ <<>> \o v = v
      BY <1>1, <2>1, ConcatEmptySeq
    <3>2. c \o v = g \o u
      BY <2>2, <3>1
    <3>3. p \o (c \o v) = p \o (g \o u)
      BY <3>2
    <3>4. Line(p \o c, h, <<>>, r) = p \o (c \o v) /\ Line(p, h, e, r) = p \o (g \o u)
      BY <1>4, <1>5
    <3> QED BY <3>3, <3>4
  <2>3. ASSUME NEW b \in Bufs, g = <<b>>, c # <<>>
        PROVE  FallsBehind(Line(p, h, e, r), Line(p \o c, h, <<>>, r))
    <3>1. FallsBehind(p \o (<<b>> \o (c \o r)), p \o (c \o (<<b>> \o r)))
      <4>1. p \in Seq(Bufs) /\ r \in Seq(Bufs)
        BY <1>1
      <4> QED BY <2>1, <2>3, <4>1, Fallen
    <3>2. /\ Line(p, h, e, r) = p \o (<<b>> \o (c \o r))
          /\ Line(p \o c, h, <<>>, r) = p \o (c \o (<<b>> \o r))
      BY <1>4, <1>5, <2>3
    <3> QED BY <3>1, <3>2
  <2> QED BY <1>3, <1>5, <2>2, <2>3
<1> QED BY <1>5

(* What each action does to the attached buffers, and their order.         *)
LEMMA AttachedMoves ==
    ASSUME ITyped, [Next]_vars
    PROVE  /\ Attached \in Seq(Bufs) /\ Attached' \in Seq(Bufs)
           /\ Attach => Attached' = Append(Attached, cur)
           /\ PopPending => /\ Head(pending) \in Bufs
                            /\ Attached = <<Head(pending)>> \o Attached'
           /\ DestroyDisplay => Attached' = <<>>
           /\ Roundtrip =>
                /\ ToSet(Attached') = ToSet(Attached)
                /\ \/ Attached' = Attached
                   \/ hand # <<>> /\ FallsBehind(Attached, Attached')
           /\ Attach \/ PopPending \/ DestroyDisplay \/ Roundtrip \/ Attached' = Attached
<1>1. /\ pending \in Seq(Bufs) /\ held \in Seq(Bufs)
      /\ hand \in Seq(Events) /\ events \in Seq(Events)
  BY DEF ITyped, TypeOK, Events, Answers
<1>2. /\ pending' \in Seq(Bufs) /\ held' \in Seq(Bufs)
      /\ hand' \in Seq(Events) /\ events' \in Seq(Events)
  <2>1. TypeOK'
    BY TypedStep DEF ITyped
  <2> QED BY <2>1 DEF TypeOK, Events, Answers
<1>3. Attached = Line(pending, hand, events, held)
      /\ Attached' = Line(pending', hand', events', held')
  BY DEF Attached, Line
<1>4. Attached \in Seq(Bufs) /\ Attached' \in Seq(Bufs)
  BY <1>1, <1>2, <1>3, LineIs DEF Parts
<1>5. ASSUME Attach PROVE Attached' = Append(Attached, cur)
  <2>1. held' = held \o <<cur>> /\ cur \in Bufs /\ UNCHANGED <<pending, hand, events>>
    BY <1>1, <1>5, Appended DEF Attach, ITyped, Batch, wlVars
  <2>2. Attached' = (pending \o ReleasesIn(hand \o events)) \o (held \o <<cur>>)
    BY <2>1 DEF Attached
  <2>3. pending \o ReleasesIn(hand \o events) \in Seq(Bufs) /\ <<cur>> \in Seq(Bufs)
    <3>1. hand \o events \in Seq(Events)
      BY <1>1, ConcatProperties
    <3>2. ReleasesIn(hand \o events) \in Seq(Bufs)
      BY <3>1, Releases
    <3> QED BY <1>1, <2>1, <3>2, ConcatProperties, OneElement
  <2>4. Attached' = Attached \o <<cur>>
    BY <1>1, <2>2, <2>3, ConcatAssociative DEF Attached
  <2> QED BY <1>4, <2>1, <2>4, Appended
<1>6. ASSUME PopPending
      PROVE  Head(pending) \in Bufs /\ Attached = <<Head(pending)>> \o Attached'
  <2>1. /\ Head(pending) \in Bufs /\ pending = <<Head(pending)>> \o pending'
        /\ <<Head(pending)>> \in Seq(Bufs) /\ UNCHANGED <<held, hand, events>>
    BY <1>1, <1>6, HeadAndTail, OneElement DEF PopPending, PopHead, wlVars
  <2>2. ReleasesIn(hand \o events) \in Seq(Bufs)
    BY <1>1, ReleasesConcat, Releases
  <2>3. ASSUME NEW a, NEW b, NEW c, NEW d,
               Three(Bufs, a, b, c), d \in Seq(Bufs)
        PROVE  ((a \o b) \o c) \o d = a \o ((b \o c) \o d)
    <3>1. b \o c \in Seq(Bufs) /\ a \in Seq(Bufs)
      BY <2>3, ConcatProperties DEF Three
    <3>2. Three(Bufs, a, b \o c, d)
      BY <2>3, <3>1 DEF Three
    <3>3. (a \o b) \o c = a \o (b \o c) /\ (a \o (b \o c)) \o d = a \o ((b \o c) \o d)
      BY <2>3, <3>2, Regrouped, SMTT(30)
    <3> QED BY <3>3
  <2>4. Attached' = (pending' \o ReleasesIn(hand \o events)) \o held
    BY <2>1 DEF Attached
  <2>5. Three(Bufs, <<Head(pending)>>, pending', ReleasesIn(hand \o events))
    BY <1>2, <2>1, <2>2 DEF Three
  <2>6. ((<<Head(pending)>> \o pending') \o ReleasesIn(hand \o events)) \o held
          = <<Head(pending)>> \o ((pending' \o ReleasesIn(hand \o events)) \o held)
    BY <1>1, <2>3, <2>5, SMTT(30)
  <2>7. Attached = (pending \o ReleasesIn(hand \o events)) \o held
    BY DEF Attached
  <2> QED BY <2>1, <2>4, <2>6, <2>7
<1>7. ASSUME DestroyDisplay PROVE Attached' = <<>>
  <2>1. pending' = <<>> /\ hand' = <<>> /\ events' = <<>> /\ held' = <<>>
    BY <1>7 DEF DestroyDisplay
  <2>2. ReleasesIn(<<>>) = <<>> /\ <<>> \o <<>> = <<>>
    BY ReleasesOfOne
  <2> QED BY <2>1, <2>2 DEF Attached
<1>8. ASSUME Roundtrip
      PROVE  /\ ToSet(Attached') = ToSet(Attached)
             /\ \/ Attached' = Attached
                \/ hand # <<>> /\ FallsBehind(Attached, Attached')
  <2>1. /\ pending' = pending \o ReleasesIn(events) /\ events' = <<>>
        /\ hand' = hand /\ held' = held
    BY <1>8 DEF Roundtrip, Callbacks, buffer_release
  <2>2. ToSet(Attached') = ToSet(Attached)
    <3>1. ToSet(Attached) = ToSet(pending) \cup ToSet(held)
                            \cup ((ToSet(hand) \cup ToSet(events)) \cap Bufs)
      BY <1>1, <1>3, LineIs DEF Parts
    <3>2. ToSet(Attached') = ToSet(pending') \cup ToSet(held')
                             \cup ((ToSet(hand') \cup ToSet(events')) \cap Bufs)
      BY <1>2, <1>3, LineIs DEF Parts
    <3>3. /\ ReleasesIn(events) \in Seq(Bufs)
          /\ ToSet(ReleasesIn(events)) = ToSet(events) \cap Bufs
      BY <1>1, Releases
    <3>4. ToSet(pending') = ToSet(pending) \cup (ToSet(events) \cap Bufs)
      BY <1>1, <2>1, <3>3, ToSetConcat
    <3>5. ToSet(events') = {}
      BY <2>1, NoElement
    <3> QED BY <2>1, <3>1, <3>2, <3>4, <3>5
  <2>3. ASSUME hand = <<>> PROVE Attached' = Attached
    <3>1. Attached' = Line(pending \o ReleasesIn(events), <<>>, <<>>, held)
      BY <1>3, <2>1, <2>3
    <3>2. <<>> \in Seq(Events) /\ ReleasesIn(<<>>) = <<>>
      BY <1>1, <2>3, ReleasesOfOne
    <3>3. Attached' = Line(pending, events, <<>>, held)
      <4> DEFINE n == <<>>
      <4>1. Parts(pending, events, n, held) /\ n \in Seq(Events) /\ ReleasesIn(n) = <<>>
        BY <1>1, <3>2 DEF Parts
      <4>2. Attached' = Line(pending \o ReleasesIn(events), n, n, held)
        BY <3>1
      <4> HIDE DEF n
      <4>3. Attached' = Line(pending, events, n, held)
        BY <4>1, <4>2, LineHandled
      <4> QED BY <4>3 DEF n
    <3>4. events \o <<>> = events /\ <<>> \o events = events
      BY <1>1, ConcatEmptySeq
    <3> QED BY <2>3, <3>3, <3>4 DEF Attached, Line
  <2>4. \/ Attached' = Attached
        \/ FallsBehind(Attached, Attached')
    <3>1. Parts(pending, hand, events, held) /\ Len(hand) <= 1
      BY <1>1 DEF Parts, ITyped, TypeOK
    <3>2. Attached' = Line(pending \o ReleasesIn(events), hand, <<>>, held)
      BY <1>3, <2>1
    <3> QED BY <1>3, <3>1, <3>2, LineOvertaken
  <2> QED BY <2>2, <2>3, <2>4
<1>9. ASSUME AnswerCreate \/ FrameDone PROVE Attached' = Attached
  <2>1. \E x \in Answers : events' = Append(events, x)
    BY <1>9 DEF AnswerCreate, FrameDone, Answers
  <2>2. UNCHANGED <<pending, hand, held>>
    BY <1>9 DEF AnswerCreate, FrameDone
  <2>3. Parts(pending, hand, events, held)
    BY <1>1 DEF Parts
  <2> QED BY <1>3, <2>1, <2>2, <2>3, LineAnswered
<1>10. ASSUME Release PROVE Attached' = Attached
  <2>1. /\ Head(held) \in Bufs /\ held = <<Head(held)>> \o held'
        /\ events' = Append(events, Head(held)) /\ UNCHANGED <<pending, hand>>
    BY <1>1, <1>10, HeadAndTail DEF Release
  <2>2. Parts(pending, hand, events, held')
    BY <1>1, <1>2 DEF Parts
  <2>3. Line(pending, hand, Append(events, Head(held)), held')
          = Line(pending, hand, events, <<Head(held)>> \o held')
    BY <2>1, <2>2, LineReleased
  <2> QED BY <1>3, <2>1, <2>3
<1>11. ASSUME TakeEvent PROVE Attached' = Attached
  <2>1. /\ hand = <<>> /\ hand' = <<Head(events)>> /\ UNCHANGED <<pending, held>>
        /\ events = hand' \o events'
    BY <1>1, <1>11, HeadAndTail DEF TakeEvent
  <2>2. hand \o events = events
    BY <1>1, <2>1, ConcatEmptySeq
  <2> QED BY <2>1, <2>2 DEF Attached
<1>12. ASSUME Dispatch PROVE Attached' = Attached
  <2>1. /\ pending' = pending \o ReleasesIn(hand) /\ hand' = <<>>
        /\ UNCHANGED <<events, held>>
    BY <1>12 DEF Dispatch, Callbacks, buffer_release
  <2>2. ReleasesIn(hand') = <<>>
    BY <2>1, ReleasesOfOne
  <2>3. Parts(pending, hand, events, held)
    BY <1>1 DEF Parts
  <2>4. Line(pending \o ReleasesIn(hand), hand', events, held)
          = Line(pending, hand, events, held)
    BY <1>2, <2>2, <2>3, LineHandled
  <2> QED BY <1>3, <2>1, <2>4
<1>13. ASSUME UNCHANGED <<pending, hand, events, held>> PROVE Attached' = Attached
  BY <1>13 DEF Attached
<1>14. \/ Attach \/ PopPending \/ DestroyDisplay \/ Roundtrip
       \/ AnswerCreate \/ FrameDone \/ Release \/ TakeEvent \/ Dispatch
       \/ UNCHANGED <<pending, hand, events, held>>
  BY Steps DEF Create, NextFrame, ClockWaitEnds, StillPending, TakeFromPool,
       AskForWlBuffer, HaveWlBuffer, AllocFails, AllocForgets, ReadHead, UnlinkHead,
       UnlinkForgets, UnlinkRaces, NonePending, GetCaps, Start, Unlock, ClearBufpool,
       ForgetSize, Finalize, ReturnBuf, PushToPool, Goto, Else, wlVars, vars
<1> QED BY <1>4, <1>5, <1>6, <1>7, <1>8, <1>9, <1>10, <1>11, <1>12, <1>13, <1>14

-----------------------------------------------------------------------------
(* Buffers stay with their display.                                        *)

Places == ToSet(Lists) \cup InHand \cup out \cup pushing

(* No buffer is left when the element is off, stop has emptied the pool,   *)
(* and each buffer somewhere is of the display that is connected.          *)
OnDisplay ==
    /\ Off => Places = {}
    /\ app \in {"cleared", "unsized"} => pool = <<>> /\ out \cup pushing = {}
    /\ \A b \in Places : info[b].display = display
    /\ pc = "unlink" => info[cur].display = display

IDisplay == ~late => OnDisplay

LEMMA Spread ==
    ASSUME ITyped, [Next]_vars
    PROVE  /\ Places = ToSet(pool) \cup ToSet(Attached) \cup InHand \cup out \cup pushing
           /\ Places' = ToSet(pool') \cup ToSet(Attached') \cup InHand' \cup out' \cup pushing'
<1>1. Attached \in Seq(Bufs) /\ Attached' \in Seq(Bufs)
  BY AttachedMoves
<1>2. pool \in Seq(Bufs)
  BY DEF ITyped, TypeOK
<1>3. pool' \in Seq(Bufs)
  BY TypedStep DEF ITyped, TypeOK
<1>4. ToSet(Lists) = ToSet(pool) \cup ToSet(Attached)
  BY <1>1, <1>2, ToSetConcat DEF Lists
<1>5. ToSet(Lists') = ToSet(pool') \cup ToSet(Attached')
  BY <1>1, <1>3, ToSetConcat DEF Lists
<1> QED BY <1>4, <1>5 DEF Places

(* The steps that move no attached buffer.                                 *)
LEMMA AttachedKept ==
    ASSUME ITyped, [Next]_vars, UNCHANGED <<pending, hand, events, held>>
    PROVE  Attached' = Attached
BY DEF Attached

(* What catch takes from the pool.                                         *)
LEMMA PoolTaken ==
    ASSUME ITyped, TakeFromPool
    PROVE  /\ ToSet(pool') \subseteq ToSet(pool)
           /\ \/ pc' = "alloc"
              \/ pc' = "attach" /\ cur' \in ToSet(pool)
<1>1. pool \in Seq(Bufs) /\ Len(pool) \in Nat
  BY DEF ITyped, TypeOK
<1>2. ToSet(pool) = {pool[i] : i \in 1 .. Len(pool)}
  BY <1>1, Elements
<1>3. PICK n \in 1 .. Len(pool) + 1 :
          /\ pool' = SubSeq(pool, n + 1, Len(pool))
          /\ pc' = "alloc" \/ (n <= Len(pool) /\ pc' = "attach" /\ cur' = pool[n])
  BY DEF TakeFromPool, Goto
<1>4. n \in Nat /\ n >= 1
  BY <1>1, <1>3
<1>5. ToSet(pool') \subseteq ToSet(pool)
  <2>0. \A i \in n + 1 .. Len(pool) : pool[i] \in Bufs
    BY <1>1, <1>4, Elements
  <2>1. pool' \in Seq(Bufs)
        /\ Len(pool') = (IF n + 1 <= Len(pool) THEN Len(pool) - (n + 1) + 1 ELSE 0)
        /\ \A i \in 1 .. Len(pool) - (n + 1) + 1 : pool'[i] = pool[n + 1 + i - 1]
    BY <1>1, <1>3, <1>4, <2>0, SubSeqProperties
  <2>2. \A i \in 1 .. Len(pool') : n + i \in 1 .. Len(pool) /\ pool'[i] = pool[n + i]
    BY <1>1, <1>4, <2>1
  <2>3. ToSet(pool') = {pool'[i] : i \in 1 .. Len(pool')}
    BY <2>1, Elements
  <2> QED BY <1>2, <2>2, <2>3
<1> QED BY <1>1, <1>2, <1>3, <1>4, <1>5

LEMMA InitOnDisplay == Init => IDisplay
<1> SUFFICES ASSUME Init
             PROVE  Places = {} /\ pc = "paused" /\ pool = <<>> /\ out \cup pushing = {}
  BY DEF IDisplay, OnDisplay
<1>1. Lists = <<>>
  <2>1. ReleasesIn(<<>>) = <<>> /\ <<>> \o <<>> = <<>>
    BY ReleasesOfOne
  <2> QED BY <2>1 DEF Init, Lists, Attached
<1> QED BY <1>1, NoElement DEF Init, Places, InHand

LEMMA OnDisplayStep == ITyped /\ IDisplay /\ [Next]_vars => IDisplay'
<1> SUFFICES ASSUME ITyped, IDisplay, [Next]_vars, ~late' PROVE OnDisplay'
  BY DEF IDisplay
<1> USE DEF dispVars, bufVars, poolVars, createVars, wlVars, Goto, Else
<1>1. ~late
  <2>1. late' = late \/ (late' = (late \/ out \cup pushing # {}))
    BY Steps DEF Create, NextFrame, ClockWaitEnds, StillPending, TakeFromPool,
         AskForWlBuffer, Roundtrip, HaveWlBuffer, AllocFails, AllocForgets, ReadHead,
         UnlinkHead, UnlinkForgets, UnlinkRaces, Attach, NonePending, PopPending, GetCaps,
         Start, Unlock, ClearBufpool, ForgetSize, DestroyDisplay, Finalize, ReturnBuf,
         PushToPool, AnswerCreate, FrameDone, Release, TakeEvent, Dispatch, vars
  <2> QED BY <2>1
<1>2. OnDisplay
  BY <1>1 DEF IDisplay
<1>3. /\ Places = ToSet(pool) \cup ToSet(Attached) \cup InHand \cup out \cup pushing
      /\ Places' = ToSet(pool') \cup ToSet(Attached') \cup InHand' \cup out' \cup pushing'
  BY Spread
<1>4. /\ pool \in Seq(Bufs) /\ pending \in Seq(Bufs)
      /\ info \in [Bufs -> [width : Sizes \cup {0}, display : 0 .. MaxStarts]]
  BY DEF ITyped, TypeOK
(* A buffer goes from one place to another.                                *)
<1>5. ASSUME Running, Running', Places' \subseteq Places, UNCHANGED <<info, display>>,
             pc' = "unlink" => pc = "unlink" /\ cur' = cur
      PROVE  OnDisplay'
  BY <1>2, <1>5 DEF OnDisplay, Running, Off
<1>6. ASSUME Places' \subseteq Places,
             UNCHANGED <<info, display, app, pool, out, pushing, pc, cur>>
      PROVE  OnDisplay'
  BY <1>2, <1>6 DEF OnDisplay, Running, Off
<1>7. CASE GetCaps
  <2>1. Attached' = Attached /\ Off /\ Off' /\ pc' = pc
    BY <1>7, AttachedKept DEF GetCaps, Off
  <2>2. Places' = {} /\ pc' # "unlink"
    BY <1>2, <1>3, <1>7, <2>1 DEF GetCaps, OnDisplay, InHand, ITyped, Control, Running, Off
  <2> QED BY <1>7, <2>2 DEF OnDisplay, GetCaps
<1>8. CASE Start
  <2>1. Attached' = Attached /\ Off /\ pc' = "idle"
    BY <1>8, AttachedKept DEF Start, Off
  <2>2. Places' = {} /\ app' = "playing"
    BY <1>2, <1>3, <1>8, <2>1 DEF Start, OnDisplay, InHand
  <2> QED BY <2>1, <2>2 DEF OnDisplay, Off
<1>9. CASE Unlock
  <2>1. Attached' = Attached
    BY <1>9, AttachedKept DEF Unlock
  <2>2. Places' = Places
    BY <1>3, <1>9, <2>1 DEF Unlock, InHand
  <2> QED BY <1>5, <1>9, <2>2 DEF Unlock, Running
<1>10. CASE ClearBufpool
  <2>1. Attached' = Attached
    BY <1>10, AttachedKept DEF ClearBufpool
  <2>2. pool' = <<>> /\ ToSet(pool') = {} /\ out \cup pushing = {}
    BY <1>10, NoElement DEF ClearBufpool
  <2>3. Places' \subseteq Places
    BY <1>3, <1>10, <2>1, <2>2 DEF ClearBufpool, InHand
  <2> QED BY <1>2, <1>10, <2>2, <2>3 DEF ClearBufpool, OnDisplay, Off
<1>11. CASE ForgetSize
  <2>1. Attached' = Attached
    BY <1>11, AttachedKept DEF ForgetSize
  <2>2. Places' = Places
    BY <1>3, <1>11, <2>1 DEF ForgetSize, InHand
  <2> QED BY <1>2, <1>11, <2>2 DEF ForgetSize, OnDisplay, Off
<1>12. CASE DestroyDisplay
  <2>1. Attached' = <<>> /\ Attached \in Seq(Bufs)
    BY <1>12, AttachedMoves
  <2>2. width = -1 /\ pool = <<>> /\ out \cup pushing = {} /\ pc \in {"idle", "paused"}
    BY <1>2, <1>12 DEF DestroyDisplay, OnDisplay, ITyped, Control, Running, Off
  <2>3. {b \in Bufs : Reusable(b)} = {}
    <3>1. \A b \in Bufs : info[b].width # -1
      BY <1>4, ScreenCapAssumption
    <3> QED BY <2>2, <3>1 DEF Reusable
  <2>4. Sift(Attached, {}) = <<>>
    BY <2>1, SiftNone
  <2>5. pool' = <<>>
    <3>1. pool' = <<>> \o <<>>
      BY <1>12, <2>2, <2>3, <2>4 DEF DestroyDisplay
    <3> QED BY <3>1
  <2>6. Places' = {}
    BY <1>3, <1>12, <2>1, <2>2, <2>5, NoElement DEF DestroyDisplay, InHand
  <2> QED BY <1>12, <2>2, <2>6 DEF DestroyDisplay, OnDisplay
<1>13. CASE Finalize
  <2>1. Attached' = Attached /\ Off
    BY <1>13, AttachedKept DEF Finalize, Off
  <2>2. Places' = {} /\ pc' # "unlink"
    BY <1>2, <1>3, <1>13, <2>1 DEF Finalize, OnDisplay, InHand, ITyped, Control, Running, Off
  <2> QED BY <1>13, <2>2 DEF OnDisplay, Finalize
(* Steps of create() that leave the buffers where they are.                *)
<1>14. CASE Create \/ NextFrame \/ ClockWaitEnds \/ StillPending \/ AllocFails \/ NonePending
  <2>1. /\ UNCHANGED <<pool, out, pushing, pending, hand, events, held, info, display, app>>
        /\ pc \notin {"roundtrip", "wlbuf", "attach", "paused"}
        /\ pc' \notin {"roundtrip", "wlbuf", "attach", "unlink"}
        /\ pc = "idle" => Running
    BY <1>14 DEF Create, NextFrame, ClockWaitEnds, StillPending, AllocFails, NonePending, Running
  <2>2. Running
    BY <2>1 DEF ITyped, Control
  <2>3. Places' \subseteq Places
    BY <1>3, <2>1, AttachedKept DEF InHand
  <2> QED BY <1>5, <2>1, <2>2, <2>3 DEF Running
<1>15. CASE TakeFromPool
  <2>1. /\ UNCHANGED <<out, pushing, pending, hand, events, held, info, display, app>>
        /\ pc = "redraw"
    BY <1>15 DEF TakeFromPool
  <2>2. Running
    BY <2>1 DEF ITyped, Control
  <2>3. Places' \subseteq Places
    BY <1>3, <1>15, <2>1, AttachedKept, PoolTaken DEF InHand
  <2> QED BY <1>5, <1>15, <2>1, <2>2, <2>3, PoolTaken DEF Running
<1>16. ASSUME NEW b \in Bufs, AskForWlBuffer(b) PROVE OnDisplay'
  <2>1. /\ UNCHANGED <<pool, out, pushing, pending, hand, events, held, display, app>>
        /\ pc = "alloc" /\ pc' = "roundtrip" /\ cur' = b
        /\ info' = [info EXCEPT ![b] = [width |-> width, display |-> display]]
    BY <1>16 DEF AskForWlBuffer
  <2>2. Running /\ Running'
    BY <2>1 DEF ITyped, Control, Running
  <2>3. Places' \subseteq Places \cup {b}
    BY <1>3, <2>1, AttachedKept DEF InHand
  <2>4. \A c \in Bufs \ {b} : info'[c] = info[c]
    BY <1>4, <2>1
  <2>5. info'[b].display = display
    BY <1>4, <1>16, <2>1
  <2>6. Places' \subseteq Bufs
    <3>1. Attached \in Seq(Bufs) /\ Attached' = Attached
      BY <2>1, AttachedMoves, AttachedKept
    <3>2. ToSet(Attached) \subseteq Bufs /\ ToSet(pool) \subseteq Bufs
      BY <1>4, <3>1, Elements
    <3> QED BY <1>3, <1>16, <2>1, <3>1, <3>2 DEF InHand, ITyped, TypeOK
  <2> QED BY <1>2, <2>1, <2>2, <2>3, <2>4, <2>5, <2>6 DEF OnDisplay, Running, Off
<1>17. CASE Roundtrip
  <2>1. ToSet(Attached') = ToSet(Attached)
    BY <1>17, AttachedMoves
  <2>2. /\ UNCHANGED <<pool, out, pushing, info, display, app, cur>>
        /\ pc = "roundtrip" /\ pc' = "wlbuf"
    BY <1>17 DEF Roundtrip
  <2> QED BY <1>3, <1>5, <2>1, <2>2 DEF InHand, Running, ITyped, Control
<1>18. CASE HaveWlBuffer
  <2>1. /\ UNCHANGED <<out, pushing, pending, hand, events, held, info, display, app>>
        /\ pc = "wlbuf" /\ pc' = "alloc" /\ pool' = <<cur>> \o pool
    BY <1>18 DEF HaveWlBuffer
  <2>2. cur \in Bufs
    BY <2>1 DEF ITyped, Batch
  <2>3. ToSet(pool') = ToSet(pool) \cup {cur}
    BY <1>4, <2>1, <2>2, Prepended
  <2> QED BY <1>3, <1>5, <2>1, <2>3, AttachedKept DEF InHand, Running, ITyped, Control
<1>19. CASE ReadHead
  <2>1. /\ UNCHANGED <<pool, out, pushing, pending, hand, events, held, info, display, app>>
        /\ pc = "alloc" /\ pc' = "unlink" /\ cur' = Head(pool)
    BY <1>19 DEF ReadHead
  <2>2. pool # <<>>
    <3>1. Len(pool) >= GSTBUFFERNUMBER - 0 /\ GSTBUFFERNUMBER \in Nat \ {0}
      BY <1>19, ScreenCapAssumption DEF ReadHead, ITyped, Batch, Allocating
    <3> QED BY <3>1
  <2>3. Head(pool) \in ToSet(pool)
    BY <1>4, <2>2, Taken
  <2>4. Running /\ Running' /\ Places' \subseteq Places
    BY <1>3, <2>1, AttachedKept DEF InHand, Running, ITyped, Control
  <2>5. info[Head(pool)].display = display
    BY <1>2, <1>3, <2>3 DEF OnDisplay
  <2> QED BY <1>2, <2>1, <2>4, <2>5 DEF OnDisplay, Running, Off
<1>20. CASE UnlinkHead
  <2>1. /\ UNCHANGED <<out, pushing, pending, hand, events, held, info, display, app, cur>>
        /\ pc = "unlink" /\ pc' = "attach" /\ pool' = Tail(pool)
    BY <1>20 DEF UnlinkHead
  <2>2. pool # <<>>
    BY <2>1 DEF ITyped, Batch
  <2>3. ToSet(pool') \subseteq ToSet(pool)
    BY <1>4, <2>1, <2>2, Taken
  <2>4. Running /\ Running' /\ Places' \subseteq Places \cup {cur}
    BY <1>3, <2>1, <2>3, AttachedKept DEF InHand, Running, ITyped, Control
  <2> QED BY <1>2, <2>1, <2>4 DEF OnDisplay, Running, Off
<1>21. CASE Attach
  <2>1. Attached' = Append(Attached, cur) /\ Attached \in Seq(Bufs)
    BY <1>21, AttachedMoves
  <2>2. /\ UNCHANGED <<pool, out, pushing, info, display, app>>
        /\ pc = "attach" /\ pc' = "pop"
    BY <1>21 DEF Attach
  <2>3. cur \in Bufs
    BY <2>2 DEF ITyped, Batch
  <2>4. ToSet(Attached') = ToSet(Attached) \cup {cur}
    BY <2>1, <2>3, AppendedOnly
  <2> QED BY <1>3, <1>5, <2>2, <2>4 DEF InHand, Running, ITyped, Control
<1>22. CASE PopPending
  <2>1. /\ Attached' \in Seq(Bufs) /\ Head(pending) \in Bufs
        /\ Attached = <<Head(pending)>> \o Attached'
    BY <1>22, AttachedMoves
  <2>2. ToSet(Attached) = ToSet(Attached') \cup {Head(pending)}
    BY <2>1, Prepended
  <2>3. /\ UNCHANGED <<pool, pushing, info, display, app>>
        /\ out' = out \cup {Head(pending)} /\ pc = "pop" /\ pc' = "idle"
    BY <1>22 DEF PopPending
  <2> QED BY <1>3, <1>5, <2>2, <2>3 DEF InHand, Running, ITyped, Control
<1>23. ASSUME NEW b \in Bufs, ReturnBuf(b) PROVE OnDisplay'
  <2>1. /\ UNCHANGED <<app, pool, pending, hand, events, held, info, display, pc, cur>>
        /\ b \in out /\ out' \cup pushing' \subseteq out \cup pushing
    BY <1>23 DEF ReturnBuf
  <2>2. Places' \subseteq Places
    BY <1>3, <2>1, AttachedKept DEF InHand
  <2> QED BY <1>2, <2>1, <2>2 DEF OnDisplay, Off
<1>24. ASSUME NEW b \in Bufs, PushToPool(b) PROVE OnDisplay'
  <2>1. /\ UNCHANGED <<app, out, pending, hand, events, held, info, display, pc, cur>>
        /\ b \in pushing /\ pushing' \subseteq pushing /\ pool' = <<b>> \o pool
    BY <1>24 DEF PushToPool
  <2>2. ToSet(pool') = ToSet(pool) \cup {b}
    BY <1>4, <1>24, <2>1, Prepended
  <2>3. Places' \subseteq Places
    BY <1>3, <2>1, <2>2, AttachedKept DEF InHand
  <2>4. b \in Places
    BY <1>3, <2>1
  <2> QED BY <1>2, <2>1, <2>3, <2>4 DEF OnDisplay, Off
<1>25. CASE AnswerCreate \/ FrameDone \/ Release \/ TakeEvent \/ Dispatch
  <2>1. UNCHANGED <<info, display, app, pool, out, pushing, pc, cur>>
    BY <1>25 DEF AnswerCreate, FrameDone, Release, TakeEvent, Dispatch
  <2>2. /\ ~Attach /\ ~PopPending /\ ~Roundtrip /\ ~DestroyDisplay
    BY <2>1 DEF Attach, PopPending, Roundtrip, DestroyDisplay
  <2>3. Attached' = Attached
    BY <2>2, AttachedMoves
  <2> QED BY <1>3, <1>6, <2>1, <2>3 DEF InHand
<1>26. CASE UNCHANGED vars
  <2>1. UNCHANGED <<info, display, app, pool, out, pushing, pc, cur, pending, hand,
                    events, held>>
    BY <1>26 DEF vars
  <2> QED BY <1>3, <1>6, <2>1, AttachedKept DEF InHand
<1>27. ASSUME NEW b \in Bufs, AllocForgets(b) PROVE OnDisplay'
  <2>1. /\ UNCHANGED <<pool, out, pushing, pending, hand, events, held, info, display, app>>
        /\ pc = "alloc" /\ pc' = "paused"
    BY <1>27 DEF AllocForgets
  <2>2. Places' \subseteq Places
    BY <1>3, <2>1, AttachedKept DEF InHand
  <2> QED BY <1>5, <2>1, <2>2 DEF Running, ITyped, Control
<1>28. CASE UnlinkForgets \/ UnlinkRaces
  <2>1. /\ UNCHANGED <<out, pending, hand, events, held, info, display, app>>
        /\ pc = "unlink" /\ pc' \in {"paused", "raced"}
    BY <1>28 DEF UnlinkForgets, UnlinkRaces
  <2>2. pool # <<>> /\ pushing \subseteq Bufs
    BY <2>1 DEF ITyped, Batch, TypeOK
  <2>3. ToSet(Tail(pool)) \subseteq ToSet(pool)
        /\ \A b \in Bufs : ToSet(<<b>> \o pool) = ToSet(pool) \cup {b}
    BY <1>4, <2>2, Taken, Prepended
  <2>4. ToSet(pool') \cup pushing' \subseteq ToSet(pool) \cup pushing
    <3>1. CASE pool' = Tail(pool) /\ pushing' \subseteq pushing
      BY <2>3, <3>1
    <3>2. ASSUME NEW b \in pushing, pool' = <<b>> \o pool, pushing' \subseteq pushing
          PROVE  ToSet(pool') \cup pushing' \subseteq ToSet(pool) \cup pushing
      BY <2>2, <2>3, <3>2
    <3> QED BY <1>28, <3>1, <3>2 DEF UnlinkForgets, UnlinkRaces
  <2>5. Places' \subseteq Places
    BY <1>3, <2>1, <2>4, AttachedKept DEF InHand
  <2> QED BY <1>5, <2>1, <2>5 DEF Running, ITyped, Control
<1> QED BY Steps, <1>7, <1>8, <1>9, <1>10, <1>11, <1>12, <1>13, <1>14, <1>15, <1>16, <1>17,
          <1>18, <1>19, <1>20, <1>21, <1>22, <1>23, <1>24, <1>25, <1>26, <1>27, <1>28

(* As long as downstream drops its buffers before the element is stopped,  *)
(* a buffer in the pool, attached or about to be belongs to the display    *)
(* that is connected, over any number of restarts.                         *)
THEOREM StaysOnDisplay == Spec => []OfThisDisplay
<1>1. IDisplay => OfThisDisplay
  BY DEF IDisplay, OnDisplay, OfThisDisplay, Places
<1> QED BY InitTyped, TypedStep, InitOnDisplay, OnDisplayStep, <1>1, PTL DEF Spec

-----------------------------------------------------------------------------
(* Every buffer that exists is in one place.                               *)

Partition(all, p, a, h, o, u) ==
    /\ IsInjective(p) /\ IsInjective(a)
    /\ ToSet(p) \cap ToSet(a) = {}
    /\ (ToSet(p) \cup ToSet(a)) \cap (h \cup o \cup u) = {}
    /\ h \cap (o \cup u) = {} /\ o \cap u = {}
    /\ all = ToSet(p) \cup ToSet(a) \cup h \cup o \cup u

(* The buffers that are not forgotten, until catch and return_buf race.    *)
IPlaces ==
    pc # "raced" => Partition(made \ lost, pool, Attached, InHand, out, pushing)

(* create() ends where it forgets one, and is not called before the next   *)
(* start.                                                                  *)
ILost ==
    /\ IsFiniteSet(lost)
    /\ Cardinality(lost) <= IF pc = "paused" THEN starts ELSE starts - 1

LEMMA PartitionIs ==
    ASSUME ITyped, IPlaces, ILost
    PROVE  OnePlace /\ NothingLeaked
<1>1. Attached \in Seq(Bufs)
  BY AttachedTyped DEF ITyped
<1>2. pool \in Seq(Bufs) /\ starts \in Nat
  BY ScreenCapAssumption DEF ITyped, TypeOK
<1>3. /\ ToSet(Lists) = ToSet(pool) \cup ToSet(Attached)
      /\ IsInjective(Lists) <=> IsInjective(pool) /\ IsInjective(Attached)
                                /\ ToSet(pool) \cap ToSet(Attached) = {}
  <2>1. ToSet(pool \o Attached) = ToSet(pool) \cup ToSet(Attached)
    BY <1>1, <1>2, ToSetConcat
  <2>2. IsInjective(pool \o Attached) <=> IsInjective(pool) /\ IsInjective(Attached)
                                          /\ ToSet(pool) \cap ToSet(Attached) = {}
    BY <1>1, <1>2, InjectiveConcat
  <2> QED BY <2>1, <2>2 DEF Lists
<1>4. Cardinality(lost) <= starts
  <2>1. Cardinality(lost) \in Nat
    BY FS_CardinalityType DEF ILost
  <2> QED BY <1>2, <2>1 DEF ILost
<1> QED BY <1>3, <1>4 DEF IPlaces, Partition, OnePlace, NothingLeaked

LEMMA InitPlaces == Init => IPlaces /\ ILost
<1> SUFFICES ASSUME Init PROVE IPlaces /\ ILost
  OBVIOUS
<1>1. Attached = <<>> /\ pool = <<>> /\ InHand = {}
  <2>1. ReleasesIn(<<>>) = <<>> /\ <<>> \o <<>> = <<>>
    BY ReleasesOfOne
  <2> QED BY <2>1 DEF Init, Attached, InHand
<1>2. IPlaces
  BY <1>1, NoElement DEF Init, IPlaces, Partition
<1>3. ILost
  BY FS_EmptySet DEF Init, ILost
<1> QED BY <1>2, <1>3

(* The pool is split where catch takes a buffer.                           *)
LEMMA PoolSplit ==
    ASSUME NEW p \in Seq(Bufs), IsInjective(p), NEW n \in 1 .. Len(p) + 1
    PROVE  LET q == SubSeq(p, n + 1, Len(p))
               skipped == {p[i] : i \in 1 .. n - 1}
           IN  /\ IsInjective(q)
               /\ n = Len(p) + 1 => q = <<>> /\ ToSet(p) = skipped
               /\ n <= Len(p) => /\ ToSet(p) = skipped \cup {p[n]} \cup ToSet(q)
                                 /\ p[n] \notin skipped /\ p[n] \notin ToSet(q)
                                 /\ skipped \cap ToSet(q) = {}
<1> DEFINE q == SubSeq(p, n + 1, Len(p))
           skipped == {p[i] : i \in 1 .. n - 1}
           m == Len(p)
<1>1. /\ m \in Nat /\ DOMAIN p = 1 .. m /\ ToSet(p) = {p[i] : i \in 1 .. m}
      /\ \A i \in 1 .. m : p[i] \in Bufs
  BY Elements
<1>2. n \in Nat /\ n >= 1 /\ n <= m + 1
  BY <1>1
<1>3. /\ q \in Seq(Bufs) /\ Len(q) = (IF n + 1 <= m THEN m - (n + 1) + 1 ELSE 0)
      /\ \A i \in 1 .. m - (n + 1) + 1 : q[i] = p[n + 1 + i - 1]
  <2>1. \A i \in n + 1 .. m : p[i] \in Bufs
    BY <1>1, <1>2
  <2> QED BY <1>1, <1>2, <2>1, SubSeqProperties
<1> HIDE DEF q, m
<1>4. DOMAIN q = 1 .. Len(q) /\ ToSet(q) = {q[i] : i \in 1 .. Len(q)}
  BY <1>3, Elements
<1>5. \A i \in 1 .. Len(q) : n + i \in 1 .. m /\ q[i] = p[n + i]
  BY <1>1, <1>2, <1>3
<1>6. \A i, j \in 1 .. m : p[i] = p[j] => i = j
  BY <1>1 DEF IsInjective
<1>7. IsInjective(q)
  <2>1. ASSUME NEW i \in 1 .. Len(q), NEW j \in 1 .. Len(q), q[i] = q[j] PROVE i = j
    <3>1. n + i = n + j
      BY <1>5, <1>6, <2>1
    <3> QED BY <1>2, <1>3, <3>1
  <2> QED BY <1>4, <2>1 DEF IsInjective
<1>8. ASSUME n = m + 1 PROVE q = <<>> /\ ToSet(p) = skipped
  <2>1. Len(q) = 0
    BY <1>1, <1>3, <1>8
  <2>2. q = <<>>
    BY <1>3, <2>1, EmptySeq
  <2>3. n - 1 = m
    BY <1>1, <1>8
  <2> QED BY <1>1, <2>2, <2>3
<1>9. ASSUME n <= m
      PROVE  /\ ToSet(p) = skipped \cup {p[n]} \cup ToSet(q)
             /\ p[n] \notin skipped /\ p[n] \notin ToSet(q)
             /\ skipped \cap ToSet(q) = {}
  <2>0. n \in 1 .. m /\ 1 .. n - 1 \subseteq 1 .. m
    BY <1>1, <1>2, <1>9
  <2>1. \A i \in 1 .. m : i \in 1 .. n - 1 \/ i = n \/ (i - n \in 1 .. Len(q) /\ i = n + (i - n))
    BY <1>1, <1>2, <1>3, <1>9
  <2>2. ToSet(p) \subseteq skipped \cup {p[n]} \cup ToSet(q)
    <3> SUFFICES ASSUME NEW i \in 1 .. m PROVE p[i] \in skipped \cup {p[n]} \cup ToSet(q)
      BY <1>1
    <3>1. ASSUME NEW j \in 1 .. Len(q), i = n + j PROVE p[i] \in ToSet(q)
      BY <1>4, <1>5, <3>1
    <3> QED BY <2>1, <3>1
  <2>3. skipped \subseteq ToSet(p) /\ p[n] \in ToSet(p) /\ ToSet(q) \subseteq ToSet(p)
    BY <1>1, <1>4, <1>5, <2>0
  <2>4. \A i \in 1 .. n - 1 : i # n /\ p[i] # p[n]
    BY <1>2, <1>6, <2>0
  <2>5. \A i \in 1 .. Len(q) : n + i # n /\ q[i] # p[n]
    BY <1>2, <1>3, <1>5, <1>6, <2>0
  <2>6. \A i \in 1 .. n - 1, j \in 1 .. Len(q) : p[i] # q[j]
    <3> TAKE i \in 1 .. n - 1, j \in 1 .. Len(q)
    <3>1. i # n + j /\ i \in 1 .. m
      BY <1>2, <1>3, <2>0
    <3> QED BY <1>5, <1>6, <3>1
  <2> QED BY <1>4, <2>2, <2>3, <2>4, <2>5, <2>6
<1> QED BY <1>7, <1>8, <1>9 DEF q, m


(* A buffer that falls behind stays one buffer.                            *)
LEMMA FallenInjective ==
    ASSUME NEW S, NEW s \in Seq(S), IsInjective(s),
           NEW i \in DOMAIN s, NEW j \in DOMAIN s, i < j
    PROVE  IsInjective(Channel!FallBehind(s, i, j))
<1> DEFINE m == Len(s)
           t == Channel!FallBehind(s, i, j)
           g(n) == IF n < i \/ n > j THEN n ELSE IF n = j THEN i ELSE n + 1
<1>1. m \in Nat /\ DOMAIN s = 1 .. m /\ i \in 1 .. m /\ j \in 1 .. m
  BY Elements
<1>2. DOMAIN t = 1 .. m /\ \A n \in 1 .. m : t[n] = s[g(n)]
  BY <1>1 DEF Channel!FallBehind
<1>3. \A n \in 1 .. m : g(n) \in 1 .. m
  BY <1>1
<1>4. \A n, l \in 1 .. m : g(n) = g(l) => n = l
  BY <1>1
<1>5. \A n, l \in 1 .. m : s[n] = s[l] => n = l
  BY <1>1 DEF IsInjective
<1> HIDE DEF m, t, g
<1>6. \A n, l \in 1 .. m : t[n] = t[l] => n = l
  BY <1>2, <1>3, <1>4, <1>5
<1>7. IsInjective(t)
  BY <1>2, <1>6 DEF IsInjective
<1> QED BY <1>7 DEF t

LEMMA StaysRaced ==
    ASSUME ITyped, [Next]_vars, pc = "raced"
    PROVE  pc' = "raced"
<1>1. Running
  BY DEF ITyped, Control
<1> QED BY <1>1, Steps DEF Running, Create, NextFrame, ClockWaitEnds, StillPending,
       TakeFromPool, AskForWlBuffer, Roundtrip, HaveWlBuffer, AllocFails, AllocForgets,
       ReadHead, UnlinkHead, UnlinkForgets, UnlinkRaces, Attach, NonePending, PopPending,
       GetCaps, Start, Unlock, ClearBufpool, ForgetSize, DestroyDisplay, Finalize, ReturnBuf,
       PushToPool, AnswerCreate, FrameDone, Release, TakeEvent, Dispatch, vars, Goto, Else,
       createVars

LEMMA PlacesStep ==
    ASSUME ITyped, IPlaces, [Next]_vars
    PROVE  IPlaces'
<1> USE DEF dispVars, bufVars, poolVars, createVars, wlVars, Goto, Else
<1> DEFINE all == made \ lost
<1> SUFFICES ASSUME pc' # "raced"
             PROVE  Partition(all', pool', Attached', InHand', out', pushing')
  BY DEF IPlaces
<1>1. Partition(all, pool, Attached, InHand, out, pushing)
  BY StaysRaced DEF IPlaces
<1>2. pool \in Seq(Bufs) /\ Attached \in Seq(Bufs) /\ Attached' \in Seq(Bufs)
  BY AttachedMoves DEF ITyped, TypeOK
<1>3. ASSUME UNCHANGED <<made, lost, pool, out, pushing>>, Attached' = Attached, InHand' = InHand
      PROVE  Partition(all', pool', Attached', InHand', out', pushing')
  BY <1>1, <1>3
<1>4. CASE GetCaps \/ Start \/ Unlock \/ ForgetSize \/ Finalize
           \/ Create \/ NextFrame \/ ClockWaitEnds \/ StillPending \/ AllocFails \/ NonePending
           \/ ReadHead \/ UNCHANGED vars
  <2>1. UNCHANGED <<made, lost, pool, out, pushing, pending, hand, events, held>>
    BY <1>4 DEF GetCaps, Start, Unlock, ForgetSize, Finalize, Create, NextFrame,
         ClockWaitEnds, StillPending, AllocFails, NonePending, ReadHead, vars
  <2>2. InHand' = InHand
    BY <1>4 DEF GetCaps, Start, Unlock, ForgetSize, Finalize, Create, NextFrame,
         ClockWaitEnds, StillPending, AllocFails, NonePending, ReadHead, vars, InHand,
         ITyped, Control, Running
  <2> QED BY <1>3, <2>1, <2>2, AttachedKept
<1>5. CASE AnswerCreate \/ FrameDone \/ Release \/ TakeEvent \/ Dispatch
  <2>1. UNCHANGED <<made, lost, pool, out, pushing, pc, cur, app>>
    BY <1>5 DEF AnswerCreate, FrameDone, Release, TakeEvent, Dispatch
  <2>2. ~Attach /\ ~PopPending /\ ~Roundtrip /\ ~DestroyDisplay
    BY <2>1 DEF Attach, PopPending, Roundtrip, DestroyDisplay
  <2> QED BY <1>3, <2>1, <2>2, AttachedMoves DEF InHand
<1>6. CASE ClearBufpool
  <2>1. /\ UNCHANGED <<lost, out, pushing, pending, hand, events, held, pc, cur>>
        /\ pool' = <<>> /\ made' = made \ ToSet(pool) /\ ToSet(pool') = {} /\ IsInjective(pool')
    BY <1>6, NoElement DEF ClearBufpool
  <2> QED BY <1>1, <2>1, AttachedKept DEF Partition, InHand
<1>7. CASE DestroyDisplay
  <2>1. Attached' = <<>> /\ width = -1 /\ UNCHANGED <<lost, out, pushing, pc, cur>>
        /\ made' = {b \in made : b \in ToSet(Attached) => Reusable(b)}
        /\ pool' = Sift(Attached, {b \in Bufs : Reusable(b)}) \o pool
    BY <1>7, AttachedMoves DEF DestroyDisplay, ITyped, Control
  <2>2. \A b \in Bufs : ~Reusable(b)
    <3>1. info \in [Bufs -> [width : Sizes \cup {0}, display : 0 .. MaxStarts]]
      BY DEF ITyped, TypeOK
    <3>2. \A b \in Bufs : info[b].width # -1
      BY <3>1, ScreenCapAssumption
    <3> QED BY <2>1, <3>2 DEF Reusable
  <2>3. {b \in Bufs : Reusable(b)} = {} /\ Sift(Attached, {}) = <<>> /\ <<>> \o pool = pool
    BY <1>2, <2>2, SiftNone, ConcatEmptySeq
  <2>4. ToSet(Attached) \subseteq Bufs
    BY <1>2, Elements
  <2>5. pool' = pool /\ made' = made \ ToSet(Attached)
    BY <2>1, <2>2, <2>3, <2>4
  <2>6. ToSet(Attached') = {} /\ IsInjective(Attached')
    BY <2>1, NoElement
  <2> QED BY <1>1, <2>1, <2>5, <2>6 DEF Partition, InHand
<1>8. CASE TakeFromPool
  <2>1. PICK n \in 1 .. Len(pool) + 1 :
            /\ made' = made \ {pool[i] : i \in 1 .. n - 1}
            /\ pool' = SubSeq(pool, n + 1, Len(pool))
            /\ \/ n = Len(pool) + 1 /\ pc' = "alloc"
               \/ n <= Len(pool) /\ pc' = "attach" /\ cur' = pool[n]
    BY <1>8 DEF TakeFromPool
  <2>2. UNCHANGED <<lost, out, pushing, pending, hand, events, held>> /\ InHand = {}
    BY <1>8 DEF TakeFromPool, InHand
  <2> DEFINE skipped == {pool[i] : i \in 1 .. n - 1}
  <2>3. /\ IsInjective(pool')
        /\ n = Len(pool) + 1 => pool' = <<>> /\ ToSet(pool) = skipped
        /\ n <= Len(pool) => /\ ToSet(pool) = skipped \cup {pool[n]} \cup ToSet(pool')
                             /\ pool[n] \notin skipped /\ pool[n] \notin ToSet(pool')
                             /\ skipped \cap ToSet(pool') = {}
    BY <1>1, <1>2, <2>1, PoolSplit DEF Partition
  <2>4. made' = made \ skipped
    BY <2>1
  <2> HIDE DEF skipped
  <2>5. CASE n = Len(pool) + 1 /\ pc' = "alloc"
    <3>1. ToSet(pool') = {} /\ InHand' = {}
      BY <2>3, <2>5, NoElement DEF InHand
    <3> QED BY <1>1, <2>2, <2>3, <2>4, <2>5, <3>1, AttachedKept DEF Partition
  <2>6. CASE n <= Len(pool) /\ pc' = "attach" /\ cur' = pool[n]
    <3>1. InHand' = {pool[n]}
      BY <2>6 DEF InHand
    <3> QED BY <1>1, <2>2, <2>3, <2>4, <2>6, <3>1, AttachedKept DEF Partition
  <2> QED BY <2>1, <2>5, <2>6
<1>9. ASSUME NEW b \in Bufs, AskForWlBuffer(b)
      PROVE  Partition(all', pool', Attached', InHand', out', pushing')
  <2>1. /\ UNCHANGED <<pool, out, pushing, pending, hand, events, held>>
        /\ b \notin made \cup lost /\ made' = made \cup {b} /\ lost' = lost
        /\ InHand = {} /\ InHand' = {b}
    BY <1>9 DEF AskForWlBuffer, Free, InHand
  <2> QED BY <1>1, <2>1, AttachedKept DEF Partition
<1>10. CASE Roundtrip
  <2>1. UNCHANGED <<made, lost, pool, out, pushing>> /\ InHand' = InHand
    BY <1>10 DEF Roundtrip, InHand
  <2>2. /\ ToSet(Attached') = ToSet(Attached)
        /\ \/ Attached' = Attached
           \/ FallsBehind(Attached, Attached')
    BY <1>10, AttachedMoves
  <2>3. IsInjective(Attached')
    BY <1>1, <1>2, <2>2, FallenInjective DEF Partition, FallsBehind
  <2> QED BY <1>1, <2>1, <2>2, <2>3 DEF Partition
<1>11. CASE HaveWlBuffer
  <2>1. /\ UNCHANGED <<made, lost, out, pushing, pending, hand, events, held>>
        /\ pool' = <<cur>> \o pool /\ InHand = {cur} /\ InHand' = {} /\ cur \in Bufs
    BY <1>11 DEF HaveWlBuffer, InHand, ITyped, Batch
  <2>2. ToSet(pool') = ToSet(pool) \cup {cur}
        /\ (IsInjective(pool) /\ cur \notin ToSet(pool) => IsInjective(pool'))
    BY <1>2, <2>1, Prepended
  <2> QED BY <1>1, <2>1, <2>2, AttachedKept DEF Partition
<1>12. CASE UnlinkHead \/ UnlinkForgets
  <2>1. /\ UNCHANGED <<made, out, pushing, pending, hand, events, held>>
        /\ pool' = Tail(pool) /\ pool # <<>> /\ cur = Head(pool) /\ InHand = {}
        /\ \/ lost' = lost /\ InHand' = {cur}
           \/ lost' = lost \cup {cur} /\ InHand' = {}
    BY <1>12 DEF UnlinkHead, UnlinkForgets, InHand, ITyped, Batch
  <2>2. /\ ToSet(pool) = {cur} \cup ToSet(pool')
        /\ IsInjective(pool) => IsInjective(pool') /\ cur \notin ToSet(pool')
    BY <1>2, <2>1, Taken
  <2> QED BY <1>1, <2>1, <2>2, AttachedKept DEF Partition
<1>13. CASE Attach
  <2>1. /\ UNCHANGED <<made, lost, pool, out, pushing>>
        /\ InHand = {cur} /\ InHand' = {} /\ cur \in Bufs
        /\ Attached' = Append(Attached, cur)
    BY <1>13, AttachedMoves DEF Attach, InHand, ITyped, Batch
  <2>2. ToSet(Attached') = ToSet(Attached) \cup {cur}
        /\ (IsInjective(Attached) /\ cur \notin ToSet(Attached) => IsInjective(Attached'))
    BY <1>2, <2>1, AppendedOnly
  <2> QED BY <1>1, <2>1, <2>2 DEF Partition
<1>14. CASE PopPending
  <2>1. /\ UNCHANGED <<made, lost, pool, pushing>> /\ InHand = {} /\ InHand' = {}
        /\ out' = out \cup {Head(pending)}
        /\ Head(pending) \in Bufs /\ Attached = <<Head(pending)>> \o Attached'
    BY <1>14, AttachedMoves DEF PopPending, InHand
  <2>2. /\ <<Head(pending)>> \in Seq(Bufs) /\ ToSet(<<Head(pending)>>) = {Head(pending)}
        /\ ToSet(Attached) = ToSet(Attached') \cup {Head(pending)}
    BY <1>2, <2>1, OneElement, Prepended
  <2>3. IsInjective(Attached) =>
          IsInjective(Attached') /\ Head(pending) \notin ToSet(Attached')
    <3>1. IsInjective(<<Head(pending)>> \o Attached') =>
            IsInjective(Attached') /\ ToSet(<<Head(pending)>>) \cap ToSet(Attached') = {}
      BY <1>2, <2>2, InjectiveConcat
    <3> QED BY <2>1, <2>2, <3>1
  <2> QED BY <1>1, <2>1, <2>2, <2>3 DEF Partition
<1>15. ASSUME NEW b \in Bufs, ReturnBuf(b)
       PROVE  Partition(all', pool', Attached', InHand', out', pushing')
  <2>1. /\ UNCHANGED <<lost, pool, pending, hand, events, held>> /\ InHand' = InHand
        /\ b \in out /\ out' = out \ {b}
        /\ \/ pushing' = pushing \cup {b} /\ made' = made
           \/ made' = made \ {b} /\ pushing' = pushing
    BY <1>15 DEF ReturnBuf, InHand
  <2> QED BY <1>1, <2>1, AttachedKept DEF Partition
<1>16. ASSUME NEW b \in Bufs, PushToPool(b)
       PROVE  Partition(all', pool', Attached', InHand', out', pushing')
  <2>1. /\ UNCHANGED <<made, lost, out, pending, hand, events, held>> /\ InHand' = InHand
        /\ b \in pushing /\ pushing' = pushing \ {b} /\ pool' = <<b>> \o pool
    BY <1>16 DEF PushToPool, InHand
  <2>2. ToSet(pool') = ToSet(pool) \cup {b}
        /\ (IsInjective(pool) /\ b \notin ToSet(pool) => IsInjective(pool'))
    BY <1>2, <1>16, <2>1, Prepended
  <2> QED BY <1>1, <2>1, <2>2, AttachedKept DEF Partition
<1>17. ASSUME NEW b \in Bufs, AllocForgets(b)
       PROVE  Partition(all', pool', Attached', InHand', out', pushing')
  <2>1. /\ UNCHANGED <<made, pool, out, pushing, pending, hand, events, held>>
        /\ b \notin made /\ lost' = lost \cup {b} /\ InHand = {} /\ InHand' = {}
    BY <1>17 DEF AllocForgets, Free, InHand
  <2>2. all' = all
    BY <2>1
  <2> QED BY <1>1, <2>1, <2>2, AttachedKept DEF Partition
<1>18. ~UnlinkRaces
  BY DEF UnlinkRaces
<1> QED BY Steps, <1>4, <1>5, <1>6, <1>7, <1>8, <1>9, <1>10, <1>11, <1>12, <1>13, <1>14,
          <1>15, <1>16, <1>17, <1>18

LEMMA LostStep ==
    ASSUME ITyped, ILost, [Next]_vars
    PROVE  ILost'
<1> USE DEF dispVars, bufVars, poolVars, createVars, wlVars, Goto, Else
<1>1. starts \in Nat /\ IsFiniteSet(lost) /\ Cardinality(lost) \in Nat
  BY ScreenCapAssumption, FS_CardinalityType DEF ITyped, TypeOK, ILost
<1>2. ASSUME lost' = lost, starts' = starts, pc' = "paused" \/ pc # "paused" PROVE ILost'
  BY <1>1, <1>2 DEF ILost
<1>3. ASSUME NEW b, lost' = lost \cup {b}, starts' = starts, pc # "paused", pc' = "paused"
      PROVE  ILost'
  <2>1. IsFiniteSet(lost \cup {b}) /\ Cardinality(lost \cup {b}) <= Cardinality(lost) + 1
        /\ Cardinality(lost \cup {b}) \in Nat
    <3>1. /\ IsFiniteSet(lost \cup {b})
          /\ \/ Cardinality(lost \cup {b}) = Cardinality(lost)
             \/ Cardinality(lost \cup {b}) = Cardinality(lost) + 1
      BY <1>1, FS_AddElement
    <3> QED BY <1>1, <3>1
  <2> QED BY <1>1, <1>3, <2>1 DEF ILost
<1>4. CASE Start
  BY <1>1, <1>4 DEF Start, ILost
<1>5. CASE UnlinkForgets \/ \E b \in Bufs : AllocForgets(b)
  BY <1>3, <1>5 DEF UnlinkForgets, AllocForgets
<1>6. \/ Start \/ UnlinkForgets \/ \E b \in Bufs : AllocForgets(b)
      \/ lost' = lost /\ starts' = starts /\ (pc' = "paused" \/ pc # "paused")
  BY Steps DEF Create, NextFrame, ClockWaitEnds, StillPending, TakeFromPool, AskForWlBuffer,
     Roundtrip, HaveWlBuffer, AllocFails, ReadHead, UnlinkHead, UnlinkRaces, Attach,
     NonePending, PopPending, GetCaps, Unlock, ClearBufpool, ForgetSize, DestroyDisplay,
     Finalize, ReturnBuf, PushToPool, AnswerCreate, FrameDone, Release, TakeEvent, Dispatch,
     vars
<1> QED BY <1>2, <1>4, <1>5, <1>6

LEMMA PlacesInvariant == Spec => [](ITyped /\ IPlaces /\ ILost)
<1>1. ITyped /\ IPlaces /\ [Next]_vars => IPlaces'
  BY PlacesStep
<1>2. ITyped /\ ILost /\ [Next]_vars => ILost'
  BY LostStep
<1> QED BY InitTyped, InitPlaces, TypedStep, <1>1, <1>2, PTL DEF Spec

(* A buffer is in one place only, so that the compositor never writes into *)
(* a buffer that downstream reads and none is pooled twice, whatever is    *)
(* stopped and restarted in between; up to a race of catch with return_buf *)
(* for the head of the pool.                                               *)
THEOREM BufferInOnePlace == Spec => []OnePlace
<1>1. ITyped /\ IPlaces /\ ILost => OnePlace
  BY PartitionIs
<1> QED BY PlacesInvariant, <1>1, PTL

(* Up to the same race, every buffer that exists can be reached but those  *)
(* that error returns of create() forgot, at most one for each start.      *)
THEOREM NoBufferLeaks == Spec => []NothingLeaked
<1>1. ITyped /\ IPlaces /\ ILost => NothingLeaked
  BY PartitionIs
<1> QED BY PlacesInvariant, <1>1, PTL

(* Buffers leave the element in the order in which they were attached, and *)
(* one falls behind later ones only where create() grows the pool while the*)
(* display thread runs: the element implements CaptureChannel.             *)
THEOREM CapturedInOrder == Spec => InCaptureOrder
<1> DEFINE Moves == Channel!Capture \/ Channel!Deliver \/ Channel!Overtake \/ Channel!Stop
<1>1. Init => Channel!Init
  <2>1. ReleasesIn(<<>>) = <<>> /\ <<>> \o <<>> = <<>>
    BY ReleasesOfOne
  <2> QED BY <2>1 DEF Init, Channel!Init, Attached
<1>2. ASSUME ITyped, [Next]_vars
      PROVE  [Moves]_Attached
  <2> USE DEF Channel!Capture, Channel!Deliver, Channel!Overtake, Channel!Stop
  <2>1. CASE Attach
    <3>1. Attached' = Append(Attached, cur) /\ cur \in Bufs
      BY <1>2, <2>1, AttachedMoves DEF Attach, Goto, ITyped, Batch
    <3> QED BY <3>1
  <2>2. CASE PopPending
    <3>1. /\ Head(pending) \in Bufs /\ Attached' \in Seq(Bufs)
          /\ Attached = <<Head(pending)>> \o Attached'
      BY <1>2, <2>2, AttachedMoves
    <3>2. Attached # <<>> /\ Attached' = Tail(Attached)
      BY <3>1, Popped
    <3> QED BY <3>2
  <2>3. CASE DestroyDisplay
    <3>1. Attached' = <<>>
      BY <1>2, <2>3, AttachedMoves
    <3> QED BY <3>1
  <2>4. CASE Roundtrip
    <3>1. hand # <<>> => Growing
      BY <1>2, <2>4 DEF Roundtrip, Growing, ITyped, Control
    <3>2. \/ Attached' = Attached
          \/ hand # <<>> /\ FallsBehind(Attached, Attached')
      BY <1>2, <2>4, AttachedMoves
    <3> QED BY <3>1, <3>2 DEF FallsBehind
  <2>5. CASE Attached' = Attached
    BY <2>5
  <2> QED BY <1>2, <2>1, <2>2, <2>3, <2>4, <2>5, AttachedMoves
<1>3. ITyped /\ [Next]_vars =>
        [Moves]_Attached
  BY <1>2
<1> QED BY <1>1, <1>3, InitTyped, TypedStep, PTL DEF Spec, InCaptureOrder, Channel!Spec

=============================================================================
