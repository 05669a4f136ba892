---------------------------- MODULE SieveProofs ----------------------------
(***************************************************************************)
(* What Only keeps, for a sequence of any length.  Induction is over the   *)
(* length, from the fact that a set of natural numbers has a least one: a  *)
(* set of sequences that has the empty one, and with a sequence every one  *)
(* that is longer by an element, has them all (SeqInduction).              *)
(***************************************************************************)
EXTENDS Sieve, SequencesExt, SequenceTheorems, WellFoundedInduction, TLAPS

Less == {p \in Nat \X Nat : p[1] < p[2]}

(* A set of natural numbers that is not empty has a least one. *)
LEMMA HasLeast ==
    ASSUME NEW S \in SUBSET Nat, S # {}
    PROVE  \E x \in S : \A y \in S : x <= y
<1>1. IsWellFoundedOn(Less, Nat)
    BY NatLessThanWellFounded DEF OpToRel, Less
<1>2. PICK x \in S : \A y \in S : <<y, x>> \notin Less
    BY <1>1, WFMin
<1>3. ASSUME NEW y \in S, ~(x <= y) PROVE FALSE
  <2>1. <<y, x>> \in Nat \X Nat /\ y < x
    BY <1>3
  <2> QED
    BY <1>2, <2>1 DEF Less
<1> QED
    BY <1>3

(* A set of places of a sequence that is not empty has a last one. *)
LEMMA HasLast ==
    ASSUME NEW n \in Nat, NEW S \in SUBSET (1..n), S # {}
    PROVE  \E x \in S : \A y \in S : y <= x
<1> DEFINE G == {k \in Nat : \E y \in S : k = n - y}
<1>1. G \in SUBSET Nat /\ G # {}
  <2>1. PICK y \in S : TRUE
    OBVIOUS
  <2>2. n - y \in G
    OBVIOUS
  <2> QED
    BY <2>2
<1>2. PICK k \in G : \A m \in G : k <= m
    BY <1>1, HasLeast
<1>3. PICK x \in S : k = n - x
    OBVIOUS
<1>4. ASSUME NEW y \in S PROVE y <= x
  <2>1. n - y \in G
    OBVIOUS
  <2>2. k <= n - y
    BY <1>2, <2>1
  <2> QED
    BY <1>3, <2>2
<1> QED
    BY <1>4

(* Induction over a set of natural numbers. *)
LEMMA NatSetInduction ==
    ASSUME NEW G, 0 \in G, \A n \in Nat : n \in G => n + 1 \in G
    PROVE  Nat \subseteq G
<1>1. SUFFICES ASSUME Nat \ G # {} PROVE FALSE
    OBVIOUS
<1>2. PICK k \in Nat \ G : \A y \in Nat \ G : k <= y
    BY <1>1, HasLeast
<1>3. k - 1 \in Nat \ G
    BY <1>2
<1> QED
    BY <1>2, <1>3

(* Induction over a set of sequences. *)
LEMMA SeqInduction ==
    ASSUME NEW S, NEW G, <<>> \in G,
           \A s \in Seq(S), x \in S : s \in G => Append(s, x) \in G
    PROVE  Seq(S) \subseteq G
<1> DEFINE Lengths == {n \in Nat : \A s \in Seq(S) : Len(s) = n => s \in G}
<1>1. 0 \in Lengths
  <2>1. \A s \in Seq(S) : Len(s) = 0 => s = <<>>
    BY EmptySeq
  <2> QED
    BY <2>1
<1>2. ASSUME NEW n \in Nat, n \in Lengths PROVE n + 1 \in Lengths
  <2> SUFFICES ASSUME NEW s \in Seq(S), Len(s) = n + 1 PROVE s \in G
    OBVIOUS
  <2>1. s # <<>>
    BY EmptySeq
  <2>2. PICK t \in Seq(S), x \in S : s = Append(t, x)
    BY <2>1, SequenceEmptyOrAppend
  <2>3. Len(s) = Len(t) + 1 /\ Len(t) \in Nat
    BY <2>2, AppendProperties, LenProperties
  <2>4. Len(t) = n
    BY <2>3
  <2> QED
    BY <1>2, <2>2, <2>4
<1> HIDE DEF Lengths
<1>3. Nat \subseteq Lengths
    BY <1>1, <1>2, NatSetInduction
<1>4. ASSUME NEW s \in Seq(S) PROVE s \in G
  <2>1. Len(s) \in Lengths
    BY <1>3, LenProperties
  <2> QED
    BY <2>1 DEF Lengths
<1> QED
    BY <1>4

(* A sequence that is appended to has one element more. *)
LEMMA AppendRange ==
    ASSUME NEW S, NEW s \in Seq(S), NEW x \in S
    PROVE  /\ Append(s, x) \in Seq(S)
           /\ Range(Append(s, x)) = Range(s) \cup {x}
<1> DEFINE t == Append(s, x)
           n == Len(s)
<1>1. /\ n \in Nat /\ t \in Seq(S) /\ DOMAIN t = 1..n + 1 /\ DOMAIN s = 1..n
      /\ t[n + 1] = x /\ \A i \in 1..n : t[i] = s[i]
    BY AppendProperties, LenProperties
<1> HIDE DEF t, n
<1>2. Range(t) \subseteq Range(s) \cup {x}
    BY <1>1 DEF Range
<1>3. Range(s) \cup {x} \subseteq Range(t)
    BY <1>1 DEF Range
<1> QED
    BY <1>1, <1>2, <1>3 DEF t

(* It has no element twice if the shorter one has none twice and not that. *)
LEMMA AppendKeepsOnce ==
    ASSUME NEW S, NEW s \in Seq(S), NEW x \in S
    PROVE  IsInjective(Append(s, x)) <=> IsInjective(s) /\ x \notin Range(s)
<1> DEFINE t == Append(s, x)
           n == Len(s)
<1>1. /\ n \in Nat /\ DOMAIN t = 1..n + 1 /\ DOMAIN s = 1..n
      /\ t[n + 1] = x /\ \A i \in 1..n : t[i] = s[i]
    BY AppendProperties, LenProperties
<1> HIDE DEF t, n
<1>2. ASSUME IsInjective(t) PROVE IsInjective(s) /\ x \notin Range(s)
  <2>1. IsInjective(s)
    BY <1>1, <1>2 DEF IsInjective
  <2>2. \A i \in 1..n : s[i] # x
    BY <1>1, <1>2 DEF IsInjective
  <2> QED
    BY <1>1, <2>1, <2>2 DEF Range
<1>3. ASSUME IsInjective(s), x \notin Range(s) PROVE IsInjective(t)
  <2>1. \A i \in 1..n : s[i] # x
    BY <1>1, <1>3 DEF Range
  <2>2. \A i, k \in 1..n : s[i] = s[k] => i = k
    BY <1>1, <1>3 DEF IsInjective
  <2>3. \A i \in 1..n + 1 : i \in 1..n \/ i = n + 1
    BY <1>1
  <2> QED
    BY <1>1, <2>1, <2>2, <2>3 DEF IsInjective
<1> QED
    BY <1>2, <1>3 DEF t

(* A list with an element taken out: what is left was there, and is there  *)
(* once if it was once; what was behind it moves up.                       *)
LEMMA RemoveAtKeeps ==
    ASSUME NEW S, NEW s \in Seq(S), NEW i \in DOMAIN s
    PROVE  /\ RemoveAt(s, i) \in Seq(S)
           /\ Len(RemoveAt(s, i)) = Len(s) - 1
           /\ Range(RemoveAt(s, i)) \subseteq Range(s)
           /\ IsInjective(s) => IsInjective(RemoveAt(s, i))
           /\ \A k \in 1..Len(s) - 1 :
                  RemoveAt(s, i)[k] = IF k < i THEN s[k] ELSE s[k + 1]
<1> DEFINE t == RemoveAt(s, i)
           n == Len(s)
<1>1. n \in Nat /\ DOMAIN s = 1..n /\ i \in 1..n /\ \A k \in 1..n : s[k] \in S
    BY LenProperties, ElementOfSeq
<1>2. /\ SubSeq(s, 1, i - 1) \in Seq(S) /\ Len(SubSeq(s, 1, i - 1)) = i - 1
      /\ \A k \in 1..i - 1 : SubSeq(s, 1, i - 1)[k] = s[k]
    BY <1>1, SubSeqProperties
<1>3. /\ SubSeq(s, i + 1, n) \in Seq(S) /\ Len(SubSeq(s, i + 1, n)) = n - i
      /\ \A k \in 1..n - i : SubSeq(s, i + 1, n)[k] = s[i + k]
    BY <1>1, SubSeqProperties
<1>4. t = SubSeq(s, 1, i - 1) \o SubSeq(s, i + 1, n)
    BY DEF RemoveAt
<1>5. /\ t \in Seq(S) /\ Len(t) = n - 1 /\ DOMAIN t = 1..n - 1
      /\ \A k \in 1..n - 1 : t[k] = IF k < i THEN s[k] ELSE s[k + 1]
  <2> DEFINE front == SubSeq(s, 1, i - 1)
             back == SubSeq(s, i + 1, n)
  <2> HIDE DEF t
  <2>1. /\ front \in Seq(S) /\ back \in Seq(S)
        /\ Len(front) = i - 1 /\ Len(back) = n - i
        /\ t = front \o back
    BY <1>2, <1>3, <1>4
  <2> HIDE DEF front, back
  <2>5. /\ front \o back \in Seq(S)
        /\ Len(front \o back) = Len(front) + Len(back)
        /\ \A k \in 1..Len(front) + Len(back) :
               (front \o back)[k] = IF k <= Len(front) THEN front[k]
                                    ELSE back[k - Len(front)]
    BY <2>1, ConcatProperties
  <2>6. Len(front) + Len(back) = n - 1
    BY <1>1, <2>1
  <2>2. /\ t \in Seq(S) /\ Len(t) = n - 1
        /\ \A k \in 1..n - 1 : t[k] = IF k <= i - 1 THEN front[k]
                                     ELSE back[k - (i - 1)]
    BY <2>1, <2>5, <2>6
  <2>3. DOMAIN t = 1..n - 1
    BY <2>2, LenProperties
  <2>4. ASSUME NEW k \in 1..n - 1
        PROVE  t[k] = IF k < i THEN s[k] ELSE s[k + 1]
    <3>1. CASE k < i
      <4>1. k \in 1..i - 1 /\ k <= i - 1
        BY <1>1, <3>1
      <4> QED
        BY <1>2, <2>2, <3>1, <4>1 DEF front
    <3>2. CASE ~(k < i)
      <4>1. /\ k - (i - 1) \in 1..n - i /\ ~(k <= i - 1)
            /\ i + (k - (i - 1)) = k + 1
        BY <1>1, <3>2
      <4> QED
        BY <1>3, <2>2, <3>2, <4>1 DEF back
    <3> QED
      BY <3>1, <3>2
  <2> QED
    BY <2>2, <2>3, <2>4
<1> HIDE DEF t
<1> DEFINE from(k) == IF k < i THEN k ELSE k + 1
<1>6. \A k \in 1..n - 1 : from(k) \in 1..n /\ t[k] = s[from(k)]
    BY <1>1, <1>5
<1>7. \A k, m \in 1..n - 1 : from(k) = from(m) => k = m
    BY <1>1
<1> HIDE DEF from
<1>8. Range(t) \subseteq Range(s)
    BY <1>1, <1>5, <1>6 DEF Range
<1>9. ASSUME IsInjective(s) PROVE IsInjective(t)
    BY <1>1, <1>5, <1>6, <1>7, <1>9 DEF IsInjective
<1> QED
    BY <1>5, <1>8, <1>9 DEF t, n

-----------------------------------------------------------------------------
(* Only, unfolded: it has a value on every prefix of the sequence.         *)

Steps(f, s, T, m) ==
    f = [n \in 0..m |-> IF n = 0 THEN <<>>
                        ELSE IF s[n] \in T THEN Append(f[n - 1], s[n])
                        ELSE f[n - 1]]

(* The recursion defines a function, up to any place of the sequence. *)
LEMMA StepsExist ==
    ASSUME NEW s, NEW T
    PROVE  \A m \in Nat : \E f : Steps(f, s, T, m)
<1> DEFINE G == {n \in Nat : \E f : Steps(f, s, T, n)}
<1>1. 0 \in G
  <2>1. Steps([n \in 0..0 |-> <<>>], s, T, 0)
    BY DEF Steps
  <2> QED
    BY <2>1
<1>2. ASSUME NEW m \in Nat, m \in G PROVE m + 1 \in G
  <2>1. PICK f : Steps(f, s, T, m)
    BY <1>2
  <2> DEFINE At(h, n) == IF n = 0 THEN <<>>
                         ELSE IF s[n] \in T THEN Append(h[n - 1], s[n])
                         ELSE h[n - 1]
             g == [n \in 0..m + 1 |-> IF n = m + 1 THEN At(f, n) ELSE f[n]]
  <2>2. \A n \in 0..m : f[n] = At(f, n)
    BY <2>1 DEF Steps
  <2>3. \A n \in 0..m : g[n] = f[n]
    OBVIOUS
  <2>4. \A n \in 0..m + 1 : g[n] = At(g, n)
    <3> SUFFICES ASSUME NEW n \in 0..m + 1 PROVE g[n] = At(g, n)
      OBVIOUS
    <3>1. n # 0 => n - 1 \in 0..m /\ g[n - 1] = f[n - 1]
      BY <2>3
    <3>2. At(g, n) = At(f, n)
      BY <3>1
    <3>3. CASE n = m + 1
      BY <3>2, <3>3
    <3>4. CASE n # m + 1
      <4>1. n \in 0..m
        BY <3>4
      <4> HIDE DEF g, At
      <4> QED
        BY <2>2, <2>3, <3>2, <4>1
    <3> QED
      BY <3>3, <3>4
  <2>5. g = [n \in 0..m + 1 |-> g[n]]
    OBVIOUS
  <2> HIDE DEF g
  <2>7. Steps(g, s, T, m + 1)
    BY <2>4, <2>5 DEF Steps
  <2> QED
    BY <2>7
<1> HIDE DEF G
<1>3. Nat \subseteq G
    BY <1>1, <1>2, NatSetInduction
<1> QED
    BY <1>3 DEF G

(* Only is the last value of such a function. *)
LEMMA OnlyUnfolds ==
    ASSUME NEW s, NEW T, Len(s) \in Nat
    PROVE  \E f : Steps(f, s, T, Len(s)) /\ Only(s, T) = f[Len(s)]
<1>1. \E f : Steps(f, s, T, Len(s))
    BY StepsExist
<1> DEFINE F == CHOOSE f : Steps(f, s, T, Len(s))
<1>2. Steps(F, s, T, Len(s))
    BY <1>1
<1>3. Only(s, T) = F[Len(s)]
    BY DEF Only, Steps
<1> QED
    BY <1>2, <1>3

(* Two such functions agree as far as their sequences do. *)
LEMMA StepsAgree ==
    ASSUME NEW s, NEW t, NEW T, NEW m \in Nat, NEW n \in Nat, NEW f, NEW g,
           Steps(f, s, T, m), Steps(g, t, T, n), m <= n,
           \A i \in 1..m : s[i] = t[i]
    PROVE  f[m] = g[m]
<1> DEFINE G == {i \in Nat : i <= m => f[i] = g[i]}
<1>1. 0 \in G
    BY DEF Steps
<1>2. ASSUME NEW i \in Nat, i \in G PROVE i + 1 \in G
  <2> SUFFICES ASSUME i + 1 <= m PROVE f[i + 1] = g[i + 1]
    OBVIOUS
  <2>1. i + 1 \in 0..m /\ i + 1 \in 0..n /\ i + 1 \in 1..m /\ (i + 1) - 1 = i
        /\ i + 1 # 0
    OBVIOUS
  <2>2. f[i] = g[i] /\ s[i + 1] = t[i + 1]
    BY <1>2, <2>1
  <2>3. f[i + 1] = IF s[i + 1] \in T THEN Append(f[i], s[i + 1]) ELSE f[i]
    BY <2>1 DEF Steps
  <2>4. g[i + 1] = IF t[i + 1] \in T THEN Append(g[i], t[i + 1]) ELSE g[i]
    BY <2>1 DEF Steps
  <2> QED
    BY <2>2, <2>3, <2>4
<1> HIDE DEF G
<1>3. m \in G
    BY <1>1, <1>2, NatSetInduction
<1> QED
    BY <1>3 DEF G

(* Nothing is kept of an empty sequence. *)
LEMMA OnlyOfEmpty ==
    ASSUME NEW T
    PROVE  Only(<<>>, T) = <<>>
<1>1. Len(<<>>) = 0
    BY EmptySeq
<1>2. PICK f : Steps(f, <<>>, T, 0) /\ Only(<<>>, T) = f[0]
    BY <1>1, OnlyUnfolds
<1> QED
    BY <1>2 DEF Steps

(* Of one element more, that element is kept or it is not. *)
LEMMA OnlyOfAppend ==
    ASSUME NEW S, NEW s \in Seq(S), NEW x \in S, NEW T
    PROVE  Only(Append(s, x), T) =
               IF x \in T THEN Append(Only(s, T), x) ELSE Only(s, T)
<1> DEFINE t == Append(s, x)
           m == Len(s)
<1>1. /\ m \in Nat
      /\ Len(t) = m + 1 /\ t[m + 1] = x
      /\ \A i \in 1..m : s[i] = t[i]
    BY AppendProperties, LenProperties
<1> HIDE DEF t, m
<1>2. PICK f : Steps(f, s, T, m) /\ Only(s, T) = f[m]
    BY <1>1, OnlyUnfolds DEF m
<1>3. PICK g : Steps(g, t, T, m + 1) /\ Only(t, T) = g[m + 1]
    BY <1>1, OnlyUnfolds
<1>4. f[m] = g[m]
    BY <1>1, <1>2, <1>3, StepsAgree, m + 1 \in Nat, m <= m + 1
<1>5. g[m + 1] = IF t[m + 1] \in T THEN Append(g[m], t[m + 1]) ELSE g[m]
    BY <1>1, <1>3, m + 1 \in 0..m + 1, m + 1 # 0, (m + 1) - 1 = m DEF Steps
<1> QED
    BY <1>1, <1>2, <1>3, <1>4, <1>5 DEF t
-----------------------------------------------------------------------------
(* What is kept.                                                           *)

(* What is kept is a sequence of members of T that were in s, and of all   *)
(* of them.                                                                *)
LEMMA OnlyMembers ==
    ASSUME NEW S, NEW s \in Seq(S), NEW T
    PROVE  /\ Only(s, T) \in Seq(S)
           /\ Range(Only(s, T)) = Range(s) \cap T
<1> DEFINE G == {r \in Seq(S) : /\ Only(r, T) \in Seq(S)
                                /\ Range(Only(r, T)) = Range(r) \cap T}
<1>1. <<>> \in G
  <2>1. <<>> \in Seq(S) /\ Range(<<>>) = {}
    BY EmptySeq DEF Range
  <2> QED
    BY <2>1, OnlyOfEmpty
<1>2. ASSUME NEW r \in Seq(S), NEW x \in S, r \in G PROVE Append(r, x) \in G
  <2>1. \A q \in Seq(S) : /\ Append(q, x) \in Seq(S)
                          /\ Range(Append(q, x)) = Range(q) \cup {x}
    BY AppendRange
  <2>2. Only(Append(r, x), T) =
            IF x \in T THEN Append(Only(r, T), x) ELSE Only(r, T)
    BY OnlyOfAppend
  <2>3. CASE x \in T
    BY <1>2, <2>1, <2>2, <2>3
  <2>4. CASE x \notin T
    BY <1>2, <2>1, <2>2, <2>4
  <2> QED
    BY <2>3, <2>4
<1> HIDE DEF G
<1>3. s \in G
  BY <1>1, <1>2, SeqInduction
<1> QED
    BY <1>3 DEF G

(* What is kept of two sequences in a row is what is kept of each.         *)
LEMMA OnlyOfConcat ==
    ASSUME NEW S, NEW a \in Seq(S), NEW b \in Seq(S), NEW T
    PROVE  Only(a \o b, T) = Only(a, T) \o Only(b, T)
<1> DEFINE G == {c \in Seq(S) : Only(a \o c, T) = Only(a, T) \o Only(c, T)}
<1>0. Only(a, T) \in Seq(S)
    BY OnlyMembers
<1>1. <<>> \in G
    BY <1>0, EmptySeq, ConcatEmptySeq, OnlyOfEmpty
<1>2. ASSUME NEW c \in Seq(S), NEW x \in S, c \in G PROVE Append(c, x) \in G
  <2>1. /\ <<x>> \in Seq(S) /\ Append(c, x) \in Seq(S) /\ a \o c \in Seq(S)
        /\ Only(c, T) \in Seq(S)
    BY AppendProperties, ConcatProperties, OnlyMembers
  <2>2. a \o Append(c, x) = Append(a \o c, x)
    BY <2>1, AppendIsConcat, ConcatAssociative
  <2>3. Only(a, T) \o Append(Only(c, T), x) = Append(Only(a, T) \o Only(c, T), x)
    BY <1>0, <2>1, AppendIsConcat, ConcatAssociative, ConcatProperties
  <2>4. Only(Append(a \o c, x), T) = IF x \in T THEN Append(Only(a \o c, T), x)
                                     ELSE Only(a \o c, T)
    BY <2>1, OnlyOfAppend
  <2>5. Only(Append(c, x), T) =
            IF x \in T THEN Append(Only(c, T), x) ELSE Only(c, T)
    BY OnlyOfAppend
  <2> QED
    BY <1>2, <2>1, <2>2, <2>3, <2>4, <2>5
<1> HIDE DEF G
<1>3. b \in G
    BY <1>1, <1>2, SeqInduction
<1> QED
    BY <1>3 DEF G

(* A sequence of members of T is kept as it is. *)
LEMMA OnlyKeepsAll ==
    ASSUME NEW S, NEW s \in Seq(S), NEW T, Range(s) \subseteq T
    PROVE  Only(s, T) = s
<1> DEFINE G == {r \in Seq(S) : Range(r) \subseteq T => Only(r, T) = r}
<1>1. <<>> \in G
    BY EmptySeq, OnlyOfEmpty
<1>2. ASSUME NEW r \in Seq(S), NEW x \in S, r \in G PROVE Append(r, x) \in G
    BY <1>2, AppendRange, OnlyOfAppend
<1> HIDE DEF G
<1>3. s \in G
    BY <1>1, <1>2, SeqInduction
<1> QED
    BY <1>3 DEF G

(* Of a sequence without members of T nothing is kept. *)
LEMMA OnlyKeepsNone ==
    ASSUME NEW S, NEW s \in Seq(S), NEW T, Range(s) \cap T = {}
    PROVE  Only(s, T) = <<>>
<1> DEFINE G == {r \in Seq(S) : Range(r) \cap T = {} => Only(r, T) = <<>>}
<1>1. <<>> \in G
    BY EmptySeq, OnlyOfEmpty
<1>2. ASSUME NEW r \in Seq(S), NEW x \in S, r \in G PROVE Append(r, x) \in G
    BY <1>2, AppendRange, OnlyOfAppend
<1> HIDE DEF G
<1>3. s \in G
    BY <1>1, <1>2, SeqInduction
<1> QED
    BY <1>3 DEF G

(* What is in s once is kept once, and no more is kept than there was.     *)
LEMMA OnlyKeepsOnce ==
    ASSUME NEW S, NEW s \in Seq(S), NEW T
    PROVE  /\ IsInjective(s) => IsInjective(Only(s, T))
           /\ Len(Only(s, T)) <= Len(s)
<1> DEFINE G == {r \in Seq(S) : /\ IsInjective(r) => IsInjective(Only(r, T))
                                /\ Len(Only(r, T)) <= Len(r)}
<1>1. <<>> \in G
    BY EmptySeq, OnlyOfEmpty
<1>2. ASSUME NEW r \in Seq(S), NEW x \in S, r \in G PROVE Append(r, x) \in G
  <2>1. /\ Only(r, T) \in Seq(S) /\ Range(Only(r, T)) \subseteq Range(r)
        /\ Len(Only(r, T)) \in Nat /\ Len(r) \in Nat
    BY OnlyMembers, LenProperties
  <2>2. \A q \in Seq(S) : /\ Len(Append(q, x)) = Len(q) + 1
                          /\ Append(q, x) \in Seq(S)
                          /\ IsInjective(Append(q, x))
                                 <=> IsInjective(q) /\ x \notin Range(q)
    BY AppendProperties, AppendKeepsOnce
  <2>3. CASE x \in T
    <3>1. Only(Append(r, x), T) = Append(Only(r, T), x)
      BY <2>3, OnlyOfAppend
    <3>2. Len(Append(Only(r, T), x)) <= Len(Append(r, x))
      BY <1>2, <2>1, <2>2
    <3>3. IsInjective(Append(r, x)) => IsInjective(Append(Only(r, T), x))
      BY <1>2, <2>1, <2>2
    <3> QED
      BY <2>2, <3>1, <3>2, <3>3
  <2>4. CASE x \notin T
    <3>1. Only(Append(r, x), T) = Only(r, T)
      BY <2>4, OnlyOfAppend
    <3> QED
      BY <1>2, <2>1, <2>2, <3>1
  <2> QED
    BY <2>3, <2>4
<1> HIDE DEF G
<1>3. s \in G
    BY <1>1, <1>2, SeqInduction
<1> QED
    BY <1>3 DEF G

(* What two sieves leave is what one that joins them does.                 *)
LEMMA OnlyOfOnly ==
    ASSUME NEW S, NEW s \in Seq(S), NEW T, NEW U
    PROVE  Only(Only(s, T), U) = Only(s, T \cap U)
<1> DEFINE G == {r \in Seq(S) : Only(Only(r, T), U) = Only(r, T \cap U)}
<1>1. <<>> \in G
    BY EmptySeq, OnlyOfEmpty
<1>2. ASSUME NEW r \in Seq(S), NEW x \in S, r \in G PROVE Append(r, x) \in G
  <2>1. Only(r, T) \in Seq(S) /\ Append(r, x) \in Seq(S)
    BY OnlyMembers, AppendProperties
  <2>2. Only(Append(r, x), T) =
            IF x \in T THEN Append(Only(r, T), x) ELSE Only(r, T)
    BY OnlyOfAppend
  <2>3. Only(Append(Only(r, T), x), U) =
            IF x \in U THEN Append(Only(Only(r, T), U), x)
            ELSE Only(Only(r, T), U)
    BY <2>1, OnlyOfAppend
  <2>4. Only(Append(r, x), T \cap U) =
            IF x \in T \cap U THEN Append(Only(r, T \cap U), x)
            ELSE Only(r, T \cap U)
    BY OnlyOfAppend
  <2> SUFFICES Only(Only(Append(r, x), T), U) = Only(Append(r, x), T \cap U)
    BY <2>1
  <2>5. CASE x \in T
    <3>1. Only(Append(r, x), T) = Append(Only(r, T), x)
      BY <2>2, <2>5
    <3>2. Only(Only(r, T), U) = Only(r, T \cap U)
      BY <1>2
    <3>3. CASE x \in U
      BY <2>3, <2>4, <2>5, <3>1, <3>2, <3>3
    <3>4. CASE x \notin U
      BY <2>3, <2>4, <2>5, <3>1, <3>2, <3>4
    <3> QED
      BY <3>3, <3>4
  <2>6. CASE x \notin T
    BY <1>2, <2>2, <2>4, <2>6
  <2> QED
    BY <2>5, <2>6
<1> HIDE DEF G
<1>3. s \in G
    BY <1>1, <1>2, SeqInduction
<1> QED
    BY <1>3 DEF G

(* Two sieves that agree on what there is leave the same.                  *)
LEMMA OnlyAgrees ==
    ASSUME NEW S, NEW s \in Seq(S), NEW T, NEW U, S \cap T = S \cap U
    PROVE  Only(s, T) = Only(s, U)
<1> DEFINE G == {r \in Seq(S) : Only(r, T) = Only(r, U)}
<1>1. <<>> \in G
    BY EmptySeq, OnlyOfEmpty
<1>2. ASSUME NEW r \in Seq(S), NEW x \in S, r \in G PROVE Append(r, x) \in G
  <2>1. Append(r, x) \in Seq(S) /\ (x \in T <=> x \in U)
    BY AppendProperties
  <2> SUFFICES Only(Append(r, x), T) = Only(Append(r, x), U)
    BY <2>1
  <2>2. /\ Only(Append(r, x), T) =
               IF x \in T THEN Append(Only(r, T), x) ELSE Only(r, T)
        /\ Only(Append(r, x), U) =
               IF x \in U THEN Append(Only(r, U), x) ELSE Only(r, U)
    BY OnlyOfAppend
  <2> QED
    BY <1>2, <2>1, <2>2
<1> HIDE DEF G
<1>3. s \in G
    BY <1>1, <1>2, SeqInduction
<1> QED
    BY <1>3 DEF G

(* What is kept is a sequence of members of T.                             *)
LEMMA OnlyTyped ==
    ASSUME NEW S, NEW s \in Seq(S), NEW T
    PROVE  Only(s, T) \in Seq(S \cap T)
<1>1. Only(s, T) \in Seq(S) /\ Range(Only(s, T)) \subseteq T
    BY OnlyMembers
<1>2. \A i \in 1..Len(Only(s, T)) : Only(s, T)[i] \in S \cap T
    BY <1>1, ElementOfSeq, LenProperties DEF Range
<1> QED
    BY <1>1, <1>2, SeqDef, LenProperties
=============================================================================
