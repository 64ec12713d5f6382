--------------------------- MODULE SequenceLemmas ---------------------------
(***************************************************************************)
(* Facts about sequences and numbers that the proofs of several components *)
(* rest on: what RemoveAt, RemoveFirst, Tail, Append and concatenation do  *)
(* to the elements of a sequence, and to one that has each of them once.   *)
(***************************************************************************)
EXTENDS Integers, Sequences, FiniteSets, SequencesExt, SequenceTheorems,
        FiniteSetTheorems, WellFoundedInduction, TLAPS

(* RemoveAt leaves the other elements in their order.                      *)
LEMMA RemoveAtProperties ==
    ASSUME NEW S, NEW s \in Seq(S), NEW k \in 1 .. Len(s)
    PROVE  /\ RemoveAt(s, k) \in Seq(S)
           /\ Len(RemoveAt(s, k)) = Len(s) - 1
           /\ DOMAIN RemoveAt(s, k) = 1 .. Len(s) - 1
           /\ \A j \in 1 .. Len(s) - 1 :
                 RemoveAt(s, k)[j] = s[IF j < k THEN j ELSE j + 1]
<1> DEFINE a == SubSeq(s, 1, k - 1)
           b == SubSeq(s, k + 1, Len(s))
<1>1. Len(s) \in Nat /\ \A j \in 1 .. Len(s) : s[j] \in S
  BY LenProperties, ElementOfSeq
<1>2. /\ a \in Seq(S) /\ Len(a) = k - 1
      /\ \A j \in 1 .. k - 1 : a[j] = s[j]
  <2>1. k - 1 \in Int /\ 1 \in Int /\ \A j \in 1 .. k - 1 : s[j] \in S
    BY <1>1
  <2>2. /\ a \in Seq(S) /\ Len(a) = IF 1 <= k - 1 THEN (k - 1) - 1 + 1 ELSE 0
        /\ \A j \in 1 .. (k - 1) - 1 + 1 : a[j] = s[1 + j - 1]
    BY <2>1, SubSeqProperties
  <2> QED
    BY <2>2, <1>1
<1>3. /\ b \in Seq(S) /\ Len(b) = Len(s) - k
      /\ \A j \in 1 .. Len(s) - k : b[j] = s[k + j]
  <2>1. k + 1 \in Int /\ Len(s) \in Int /\ \A j \in k + 1 .. Len(s) : s[j] \in S
    BY <1>1
  <2>2. /\ b \in Seq(S) /\ Len(b) = IF k + 1 <= Len(s) THEN Len(s) - (k + 1) + 1 ELSE 0
        /\ \A j \in 1 .. Len(s) - (k + 1) + 1 : b[j] = s[k + 1 + j - 1]
    BY <2>1, SubSeqProperties
  <2> QED
    BY <2>2, <1>1
<1> HIDE DEF a, b
<1>4. /\ a \o b \in Seq(S) /\ Len(a \o b) = Len(a) + Len(b)
      /\ \A j \in 1 .. Len(a) + Len(b) :
            (a \o b)[j] = IF j <= Len(a) THEN a[j] ELSE b[j - Len(a)]
  BY <1>2, <1>3, ConcatProperties
<1>5. DOMAIN (a \o b) = 1 .. Len(a \o b)
  BY <1>4, LenProperties
<1>6. \A j \in 1 .. Len(s) - 1 : (a \o b)[j] = s[IF j < k THEN j ELSE j + 1]
  BY <1>1, <1>2, <1>3, <1>4
<1>7. RemoveAt(s, k) = a \o b
  BY DEF RemoveAt, a, b
<1>8. Len(a \o b) = Len(s) - 1
  BY <1>1, <1>2, <1>3, <1>4
<1> QED
  BY <1>4, <1>5, <1>6, <1>7, <1>8

LEMMA TailProperties ==
    ASSUME NEW S, NEW s \in Seq(S), s # <<>>
    PROVE  /\ Tail(s) \in Seq(S) /\ Len(s) \in Nat \ {0} /\ Head(s) = s[1]
           /\ Len(Tail(s)) = Len(s) - 1
           /\ DOMAIN Tail(s) = 1 .. Len(s) - 1
           /\ \A j \in 1 .. Len(s) - 1 : Tail(s)[j] = s[j + 1]
<1>1. Len(s) \in Nat \ {0}
  BY EmptySeq
<1>2. /\ Tail(s) \in Seq(S) /\ Len(Tail(s)) = Len(s) - 1
      /\ \A j \in 1 .. Len(Tail(s)) : Tail(s)[j] = s[j + 1]
  BY HeadTailProperties
<1>3. DOMAIN Tail(s) = 1 .. Len(Tail(s))
  BY <1>2, LenProperties
<1> QED
  BY <1>1, <1>2, <1>3

(* Sets of numbers have a least element, bounded ones a greatest.          *)
LEMMA NatMin ==
    ASSUME NEW T \in SUBSET Nat, T # {}
    PROVE  \E x \in T : \A y \in T : x <= y
<1>1. PICK R : IsWellFoundedOn(R, Nat) /\ \A x, y \in Nat : <<y, x>> \in R <=> y < x
  <2> DEFINE R == OpToRel(<, Nat)
  <2>1. IsWellFoundedOn(R, Nat)
    BY NatLessThanWellFounded
  <2>2. \A x, y \in Nat : <<y, x>> \in R <=> y < x
    BY DEF OpToRel
  <2> HIDE DEF R
  <2> QED
    BY <2>1, <2>2
<1>2. PICK x \in T : \A y \in T : <<y, x>> \notin R
  BY <1>1, WFMin
<1>3. \A y \in T : x \in Nat /\ y \in Nat /\ ~(y < x)
  BY <1>1, <1>2
<1> QED
  BY <1>2, <1>3

LEMMA MaxExists ==
    ASSUME NEW T \in SUBSET Nat, T # {}, NEW n \in Nat, \A y \in T : y <= n
    PROVE  \E x \in T : \A y \in T : y <= x
<1> DEFINE U == {u \in 0 .. n : n - u \in T}
<1>1. ASSUME NEW y \in T PROVE n - y \in U
  <2>1. y \in Nat /\ y <= n
    OBVIOUS
  <2>2. n - y \in 0 .. n /\ n - (n - y) = y
    BY <2>1
  <2> QED
    BY <2>2
<1>2. U \in SUBSET Nat /\ U # {}
  <2>1. PICK y \in T : TRUE
    OBVIOUS
  <2>2. n - y \in U
    BY <1>1
  <2>3. U \subseteq 0 .. n /\ 0 .. n \subseteq Nat
    OBVIOUS
  <2> QED
    BY <2>2, <2>3
<1>3. PICK u \in U : \A v \in U : u <= v
  <2> HIDE DEF U
  <2> QED
    BY <1>2, NatMin
<1>4. ASSUME NEW y \in T PROVE y <= n - u
  <2>1. u <= n - y /\ u \in Nat /\ y \in Nat
    BY <1>1, <1>3
  <2> QED
    BY <2>1
<1>5. n - u \in T
  OBVIOUS
<1> QED
  BY <1>4, <1>5

-----------------------------------------------------------------------------
(* Sequences without a duplicate.                                          *)

(* After an erasure every element that is left has moved down, if at all.  *)
LEMMA RemoveDistinct ==
    ASSUME NEW S, NEW s \in Seq(S), IsInjective(s), NEW k \in DOMAIN s
    PROVE  /\ RemoveAt(s, k) \in Seq(S) /\ IsInjective(RemoveAt(s, k))
           /\ ToSet(RemoveAt(s, k)) = ToSet(s) \ {s[k]}
           /\ \A j \in DOMAIN RemoveAt(s, k) :
                 \E m \in DOMAIN s : m >= j /\ RemoveAt(s, k)[j] = s[m]
           /\ RemoveAt(s, k) # s
<1>0. PICK t : t = RemoveAt(s, k)
  OBVIOUS
<1>1. /\ DOMAIN s = 1 .. Len(s) /\ Len(s) \in Nat
      /\ t \in Seq(S) /\ DOMAIN t = 1 .. Len(s) - 1 /\ Len(t) = Len(s) - 1
      /\ \A j \in 1 .. Len(s) - 1 : t[j] = s[IF j < k THEN j ELSE j + 1]
  BY <1>0, RemoveAtProperties, LenProperties
<1> DEFINE f == [j \in DOMAIN t |-> IF j < k THEN j ELSE j + 1]
<1>2. /\ \A j \in DOMAIN t : f[j] \in DOMAIN s \ {k} /\ t[j] = s[f[j]] /\ f[j] >= j
      /\ \A j, l \in DOMAIN t : f[j] = f[l] => j = l
  BY <1>1
<1>3. ASSUME NEW m \in DOMAIN s \ {k} PROVE \E j \in DOMAIN t : f[j] = m
  <2>1. CASE m < k
    <3>1. m \in DOMAIN t /\ f[m] = m
      BY <1>1, <2>1
    <3> QED
      BY <3>1
  <2>2. CASE m > k
    <3>1. m - 1 \in DOMAIN t /\ f[m - 1] = m
      BY <1>1, <2>2
    <3> QED
      BY <3>1
  <2> QED
    BY <1>1, <2>1, <2>2
<1> HIDE DEF f
<1>4. IsInjective(t)
  BY <1>2 DEF IsInjective
<1>5. ToSet(t) = ToSet(s) \ {s[k]}
  <2>1. \A o \in ToSet(t) : o \in ToSet(s) \ {s[k]}
    BY <1>2 DEF ToSet, IsInjective
  <2>2. \A o \in ToSet(s) \ {s[k]} : o \in ToSet(t)
    BY <1>2, <1>3 DEF ToSet
  <2> QED
    BY <2>1, <2>2
<1>6. t # s
  BY <1>1
<1>7. \A j \in DOMAIN t : \E m \in DOMAIN s : m >= j /\ t[j] = s[m]
  BY <1>2
<1> QED
  BY <1>0, <1>1, <1>4, <1>5, <1>6, <1>7

(* A new element at the end.                                               *)
LEMMA AppendDistinct ==
    ASSUME NEW S, NEW s \in Seq(S), IsInjective(s), NEW o \in S \ ToSet(s)
    PROVE  /\ Append(s, o) \in Seq(S) /\ IsInjective(Append(s, o))
           /\ ToSet(Append(s, o)) = ToSet(s) \cup {o}
<1>0. PICK t, n : t = Append(s, o) /\ n = Len(s) + 1
  OBVIOUS
<1>1. /\ t \in Seq(S) /\ Len(t) = Len(s) + 1 /\ t[n] = o
      /\ \A k \in 1 .. Len(s) : t[k] = s[k]
  BY <1>0, AppendProperties
<1>2. /\ DOMAIN s = 1 .. Len(s) /\ Len(s) \in Nat /\ DOMAIN t = 1 .. Len(t)
  BY <1>1, LenProperties
<1>3. DOMAIN t = DOMAIN s \cup {n} /\ n \notin DOMAIN s
  BY <1>0, <1>1, <1>2
<1>4. \A k \in DOMAIN s : t[k] = s[k] /\ s[k] # o
  BY <1>1, <1>2 DEF ToSet
<1> QED
  BY <1>0, <1>1, <1>3, <1>4 DEF IsInjective, ToSet

(* The element e of a sequence, erased where std::find finds it.           *)
LEMMA RemoveFirstDistinct ==
    ASSUME NEW S, NEW s \in Seq(S), IsInjective(s), NEW e
    PROVE  /\ RemoveFirst(s, e) \in Seq(S) /\ IsInjective(RemoveFirst(s, e))
           /\ ToSet(RemoveFirst(s, e)) = ToSet(s) \ {e}
<1>1. DOMAIN s = 1 .. Len(s)
  BY LenProperties
<1>2. CASE \E i \in 1 .. Len(s) : s[i] = e
  <2>1. PICK k \in 1 .. Len(s) : s[k] = e
    BY <1>2
  <2> DEFINE I == {i \in 1 .. Len(s) : s[i] = e}
  <2>2. I = {k}
    BY <1>1, <2>1 DEF IsInjective
  <2>3. SelectInSeq(s, LAMBDA v : v = e) = IF I # {} THEN Min(I) ELSE 0
    BY DEF SelectInSeq
  <2>4. Min(I) = k
    BY <2>2 DEF Min
  <2>5. SelectInSeq(s, LAMBDA v : v = e) = k
    <3> HIDE DEF I
    <3> QED
      BY <2>2, <2>3, <2>4
  <2>6. RemoveFirst(s, e) = RemoveAt(s, k)
    BY <1>2, <2>5 DEF RemoveFirst
  <2> QED
    BY <1>1, <2>1, <2>6, RemoveDistinct
<1>3. CASE ~\E i \in 1 .. Len(s) : s[i] = e
  <2>1. RemoveFirst(s, e) = s
    BY <1>3 DEF RemoveFirst
  <2> QED
    BY <1>1, <1>3, <2>1 DEF ToSet
<1> QED
  BY <1>2, <1>3

(* A sequence of the members of a finite set has each once.                *)
LEMMA SeqOfSet ==
    ASSUME NEW S, IsFiniteSet(S), NEW s \in SetToSeqs(S)
    PROVE  /\ s \in Seq(S) /\ Len(s) \in Nat /\ DOMAIN s = 1 .. Len(s)
           /\ \A j, k \in 1 .. Len(s) : s[j] = s[k] => j = k
           /\ \A x \in S : \E j \in 1 .. Len(s) : s[j] = x
<1> DEFINE n == Cardinality(S)
<1>1. n \in Nat
  BY FS_CardinalityType
<1>2. s \in [1 .. n -> S] /\ \A j, k \in 1 .. n : j # k => s[j] # s[k]
  BY DEF SetToSeqs
<1>3. s \in Injection(1 .. n, S)
  BY <1>2 DEF Injection, IsInjective
<1>4. IsFiniteSet(1 .. n) /\ Cardinality(1 .. n) = n
  BY <1>1, FS_Interval
<1>5. s \in Surjection(1 .. n, S)
  BY <1>3, <1>4, FS_Injection
<1>6. \A x \in S : \E j \in 1 .. n : s[j] = x
  BY <1>5 DEF Surjection
<1> HIDE DEF n
<1>7. s \in Seq(S) /\ Len(s) = n
  BY <1>1, <1>2
<1> QED
  BY <1>1, <1>2, <1>6, <1>7

(* Taking the first element off, and putting one in front.                 *)
LEMMA TailDistinct ==
    ASSUME NEW S, NEW s \in Seq(S), s # <<>>, IsInjective(s)
    PROVE  /\ Tail(s) \in Seq(S) /\ IsInjective(Tail(s))
           /\ Head(s) \in S /\ Head(s) \notin ToSet(Tail(s))
           /\ ToSet(s) = ToSet(Tail(s)) \cup {Head(s)}
<1>0. PICK t : t = Tail(s)
  OBVIOUS
<1>1. /\ t \in Seq(S) /\ Len(s) \in Nat \ {0} /\ Head(s) = s[1]
      /\ DOMAIN t = 1 .. Len(s) - 1 /\ DOMAIN s = 1 .. Len(s)
      /\ \A j \in 1 .. Len(s) - 1 : t[j] = s[j + 1]
  BY <1>0, TailProperties, LenProperties
<1>2. \A j \in DOMAIN t : j + 1 \in DOMAIN s /\ j + 1 # 1 /\ t[j] = s[j + 1]
  BY <1>1
<1>3. IsInjective(t)
  BY <1>1, <1>2 DEF IsInjective
<1>4. \A k \in DOMAIN s : k = 1 \/ (k - 1 \in DOMAIN t /\ t[k - 1] = s[k])
  BY <1>1
<1>5. 1 \in DOMAIN s /\ s[1] \in S
  BY <1>1, ElementOfSeq
<1>6. Head(s) \notin ToSet(t)
  BY <1>1, <1>2, <1>5 DEF ToSet, IsInjective
<1>7. ToSet(s) = ToSet(t) \cup {Head(s)}
  <2>1. ASSUME NEW x \in ToSet(s) PROVE x \in ToSet(t) \cup {Head(s)}
    BY <1>1, <1>4 DEF ToSet
  <2>2. ASSUME NEW x \in ToSet(t) \cup {Head(s)} PROVE x \in ToSet(s)
    BY <1>1, <1>2, <1>5 DEF ToSet
  <2> QED
    BY <2>1, <2>2
<1> QED
  BY <1>0, <1>1, <1>3, <1>5, <1>6, <1>7

LEMMA TailSet ==
    ASSUME NEW S, NEW s \in Seq(S), s # <<>>
    PROVE  ToSet(Tail(s)) \subseteq ToSet(s) /\ Head(s) \in ToSet(s)
<1>1. /\ Len(s) \in Nat \ {0} /\ Head(s) = s[1]
      /\ DOMAIN Tail(s) = 1 .. Len(s) - 1 /\ DOMAIN s = 1 .. Len(s)
      /\ \A j \in 1 .. Len(s) - 1 : Tail(s)[j] = s[j + 1]
  BY TailProperties, LenProperties
<1>2. \A j \in 1 .. Len(s) - 1 : j + 1 \in DOMAIN s
  BY <1>1
<1>3. 1 \in DOMAIN s
  BY <1>1
<1> QED
  BY <1>1, <1>2, <1>3 DEF ToSet

LEMMA ConcatDistinct ==
    ASSUME NEW S, NEW s \in Seq(S), NEW t \in Seq(S)
    PROVE  /\ s \o t \in Seq(S) /\ ToSet(s \o t) = ToSet(s) \cup ToSet(t)
           /\ IsInjective(s) /\ IsInjective(t) /\ ToSet(s) \cap ToSet(t) = {}
                 => IsInjective(s \o t)
<1>0. PICK u : u = s \o t
  OBVIOUS
<1>1. /\ u \in Seq(S) /\ Len(u) = Len(s) + Len(t)
      /\ \A j \in 1 .. Len(s) + Len(t) :
            u[j] = IF j <= Len(s) THEN s[j] ELSE t[j - Len(s)]
  BY <1>0, ConcatProperties
<1>2. /\ DOMAIN s = 1 .. Len(s) /\ Len(s) \in Nat
      /\ DOMAIN t = 1 .. Len(t) /\ Len(t) \in Nat
      /\ DOMAIN u = 1 .. Len(s) + Len(t)
  BY <1>1, LenProperties
<1>3. \A j \in DOMAIN s : j \in DOMAIN u /\ u[j] = s[j]
  BY <1>1, <1>2
<1>4. \A j \in DOMAIN t : Len(s) + j \in DOMAIN u /\ u[Len(s) + j] = t[j]
  <2>1. SUFFICES ASSUME NEW j \in DOMAIN t
                 PROVE  Len(s) + j \in DOMAIN u /\ u[Len(s) + j] = t[j]
    OBVIOUS
  <2>2. /\ Len(s) + j \in 1 .. Len(s) + Len(t)
        /\ ~(Len(s) + j <= Len(s)) /\ (Len(s) + j) - Len(s) = j
    BY <1>2
  <2> QED
    BY <1>1, <1>2, <2>2
<1>5. \A j \in DOMAIN u :
         \/ j \in DOMAIN s /\ u[j] = s[j]
         \/ j \notin DOMAIN s /\ j - Len(s) \in DOMAIN t /\ u[j] = t[j - Len(s)]
  BY <1>1, <1>2
<1>6. ToSet(u) = ToSet(s) \cup ToSet(t)
  <2>1. ASSUME NEW x \in ToSet(u) PROVE x \in ToSet(s) \cup ToSet(t)
    BY <1>5 DEF ToSet
  <2>2. ASSUME NEW x \in ToSet(s) \cup ToSet(t) PROVE x \in ToSet(u)
    BY <1>3, <1>4 DEF ToSet
  <2> QED
    BY <2>1, <2>2
<1>7. ASSUME IsInjective(s), IsInjective(t), ToSet(s) \cap ToSet(t) = {}
      PROVE  IsInjective(u)
  <2>1. SUFFICES ASSUME NEW j \in DOMAIN u, NEW k \in DOMAIN u, u[j] = u[k] PROVE j = k
    BY DEF IsInjective
  <2>2. CASE j \in DOMAIN s /\ k \in DOMAIN s
    BY <1>3, <1>7, <2>1, <2>2 DEF IsInjective
  <2>3. CASE j \notin DOMAIN s /\ k \notin DOMAIN s
    <3>1. j - Len(s) = k - Len(s)
      BY <1>5, <1>7, <2>1, <2>3 DEF IsInjective
    <3> QED
      BY <1>2, <3>1
  <2>4. \A x : ~(x \in ToSet(s) /\ x \in ToSet(t))
    BY <1>7
  <2> QED
    BY <1>5, <2>1, <2>2, <2>3, <2>4 DEF ToSet
<1> QED
  BY <1>0, <1>1, <1>6, <1>7

LEMMA PrependDistinct ==
    ASSUME NEW S, NEW s \in Seq(S), IsInjective(s), NEW o \in S \ ToSet(s)
    PROVE  /\ <<o>> \o s \in Seq(S) /\ IsInjective(<<o>> \o s)
           /\ ToSet(<<o>> \o s) = ToSet(s) \cup {o}
           /\ <<o>> \o s # <<>> /\ Head(<<o>> \o s) = o /\ Tail(<<o>> \o s) = s
<1> DEFINE f == <<o>>
<1>1. /\ f \in Seq(S) /\ Len(f) = 1 /\ f[1] = o /\ DOMAIN f = {1}
  OBVIOUS
<1>2. ToSet(f) = {o} /\ IsInjective(f)
  BY <1>1 DEF ToSet, IsInjective
<1> HIDE DEF f
<1>3. /\ f \o s \in Seq(S) /\ ToSet(f \o s) = ToSet(s) \cup {o}
      /\ IsInjective(f \o s)
  BY <1>1, <1>2, ConcatDistinct
<1>4. /\ Len(f \o s) = Len(s) + 1 /\ Len(s) \in Nat
      /\ \A j \in 1 .. Len(s) + 1 : (f \o s)[j] = IF j <= 1 THEN o ELSE s[j - 1]
  <2>1. /\ Len(f \o s) = Len(f) + Len(s)
        /\ \A j \in 1 .. Len(f) + Len(s) :
              (f \o s)[j] = IF j <= Len(f) THEN f[j] ELSE s[j - Len(f)]
    <3>1. f \in Seq(S) /\ s \in Seq(S)
      BY <1>1
    <3> QED
      BY <3>1, ConcatProperties
  <2>2. Len(s) \in Nat
    BY LenProperties
  <2> QED
    BY <1>1, <2>1, <2>2
<1>5. f \o s # <<>>
  BY <1>3, <1>4, EmptySeq
<1>6. Head(f \o s) = o /\ Tail(f \o s) = s
  <2>1. PICK t : t = Tail(f \o s)
    OBVIOUS
  <2>2. /\ t \in Seq(S) /\ Head(f \o s) = (f \o s)[1] /\ Len(t) = Len(s)
        /\ DOMAIN t = 1 .. Len(s)
        /\ \A j \in 1 .. Len(s) : t[j] = (f \o s)[j + 1]
    BY <1>3, <1>4, <1>5, <2>1, TailProperties
  <2>3. \A j \in 1 .. Len(s) : t[j] = s[j]
    BY <1>4, <2>2
  <2>4. t = s
    BY <2>2, <2>3, SeqEqual
  <2> QED
    BY <1>4, <2>1, <2>2, <2>4
<1> QED
  BY <1>3, <1>5, <1>6 DEF f

-----------------------------------------------------------------------------
(* Concatenation by positions.                                             *)

(* A position of s \o t is one of s, or one of t moved up by Len(s).       *)
LEMMA ConcatAt ==
    ASSUME NEW S, NEW s \in Seq(S), NEW t \in Seq(S)
    PROVE  /\ s \o t \in Seq(S) /\ Len(s) \in Nat
           /\ \A n \in DOMAIN s :
                 n \in DOMAIN (s \o t) /\ (s \o t)[n] = s[n] /\ n <= Len(s)
           /\ \A n \in DOMAIN t :
                 /\ Len(s) + n \in DOMAIN (s \o t) /\ n \in Nat \ {0}
                 /\ (s \o t)[Len(s) + n] = t[n]
           /\ \A n \in DOMAIN (s \o t) :
                 n \in DOMAIN s \/ \E k \in DOMAIN t : n = Len(s) + k
<1>0. PICK u : u = s \o t
  OBVIOUS
<1>1. /\ u \in Seq(S) /\ Len(u) = Len(s) + Len(t)
      /\ \A j \in 1 .. Len(s) + Len(t) :
            u[j] = IF j <= Len(s) THEN s[j] ELSE t[j - Len(s)]
  BY <1>0, ConcatProperties
<1>2. /\ DOMAIN s = 1 .. Len(s) /\ Len(s) \in Nat
      /\ DOMAIN t = 1 .. Len(t) /\ Len(t) \in Nat
      /\ DOMAIN u = 1 .. Len(s) + Len(t)
  BY <1>1, LenProperties
<1>3. \A n \in DOMAIN s : n \in DOMAIN u /\ u[n] = s[n] /\ n <= Len(s)
  BY <1>1, <1>2
<1>4. ASSUME NEW n \in DOMAIN t
      PROVE  Len(s) + n \in DOMAIN u /\ n \in Nat \ {0} /\ u[Len(s) + n] = t[n]
  <2>1. /\ n \in 1 .. Len(t) /\ Len(s) + n \in 1 .. Len(s) + Len(t)
        /\ ~(Len(s) + n <= Len(s)) /\ (Len(s) + n) - Len(s) = n
    BY <1>2
  <2> QED
    BY <1>1, <1>2, <2>1
<1>5. ASSUME NEW n \in DOMAIN u, n \notin DOMAIN s
      PROVE  \E k \in DOMAIN t : n = Len(s) + k
  <2>1. n - Len(s) \in DOMAIN t /\ n = Len(s) + (n - Len(s))
    BY <1>2, <1>5
  <2> QED
    BY <2>1
<1> QED
  BY <1>0, <1>1, <1>2, <1>3, <1>4, <1>5

(* The first element stays the first when something is appended.           *)
LEMMA TailConcat ==
    ASSUME NEW S, NEW s \in Seq(S), s # <<>>, NEW t \in Seq(S)
    PROVE  /\ s \o t # <<>> /\ Head(s \o t) = Head(s)
           /\ Tail(s \o t) = Tail(s) \o t
<1>0. PICK h, r : h = Head(s) /\ r = Tail(s)
  OBVIOUS
<1>1. /\ r \in Seq(S) /\ Len(s) \in Nat \ {0} /\ h = s[1] /\ Len(r) = Len(s) - 1
      /\ DOMAIN r = 1 .. Len(s) - 1
      /\ \A j \in 1 .. Len(s) - 1 : r[j] = s[j + 1]
  BY <1>0, TailProperties
<1>2. PICK u : u = s \o t
  OBVIOUS
<1>3. /\ u \in Seq(S) /\ Len(u) = Len(s) + Len(t) /\ Len(t) \in Nat
      /\ \A j \in 1 .. Len(s) + Len(t) :
            u[j] = IF j <= Len(s) THEN s[j] ELSE t[j - Len(s)]
  BY <1>2, ConcatProperties, LenProperties
<1>4. u # <<>>
  <2>1. Len(u) # 0
    BY <1>1, <1>3
  <2> QED
    BY <2>1, EmptySeq
<1>5. PICK v : v = Tail(u)
  OBVIOUS
<1>6. /\ v \in Seq(S) /\ Head(u) = u[1] /\ Len(v) = Len(u) - 1
      /\ \A j \in 1 .. Len(u) - 1 : v[j] = u[j + 1]
  BY <1>3, <1>4, <1>5, TailProperties
<1>7. PICK w : w = r \o t
  OBVIOUS
<1>8. /\ w \in Seq(S) /\ Len(w) = Len(r) + Len(t)
      /\ \A j \in 1 .. Len(r) + Len(t) :
            w[j] = IF j <= Len(r) THEN r[j] ELSE t[j - Len(r)]
  BY <1>1, <1>7, ConcatProperties
<1>9. ASSUME NEW j \in 1 .. Len(v)
      PROVE  v[j] = w[j]
  <2>1. /\ j \in 1 .. Len(u) - 1 /\ j + 1 \in 1 .. Len(s) + Len(t)
        /\ j \in 1 .. Len(r) + Len(t)
        /\ (j + 1) - Len(s) = j - Len(r)
        /\ j <= Len(r) => j \in 1 .. Len(s) - 1
        /\ j <= Len(r) <=> j + 1 <= Len(s)
    BY <1>1, <1>3, <1>6
  <2>2. v[j] = IF j + 1 <= Len(s) THEN s[j + 1] ELSE t[(j + 1) - Len(s)]
    BY <1>3, <1>6, <2>1
  <2>3. w[j] = IF j <= Len(r) THEN r[j] ELSE t[j - Len(r)]
    BY <1>8, <2>1
  <2> QED
    BY <1>1, <2>1, <2>2, <2>3
<1>10. v = w
  <2>1. Len(v) = Len(w)
    BY <1>1, <1>3, <1>6, <1>8
  <2> QED
    BY <1>6, <1>8, <1>9, <2>1, SeqEqual
<1>11. Head(u) = h
  BY <1>1, <1>3, <1>6
<1> QED
  BY <1>0, <1>2, <1>4, <1>5, <1>7, <1>10, <1>11

-----------------------------------------------------------------------------
(* FlattenSeq.                                                             *)

(* Induction over the numbers, for a set of them.                          *)
LEMMA NatInduct ==
    ASSUME NEW T, 0 \in T, \A n \in Nat : n \in T => n + 1 \in T
    PROVE  \A n \in Nat : n \in T
<1> DEFINE U == {n \in Nat : n \notin T}
<1>1. SUFFICES ASSUME U # {} PROVE FALSE
  OBVIOUS
<1>2. PICK m \in U : \A k \in U : m <= k
  <2>1. U \in SUBSET Nat
    OBVIOUS
  <2> HIDE DEF U
  <2> QED
    BY <1>1, <2>1, NatMin
<1>3. m \in Nat /\ m # 0 /\ m - 1 \in Nat /\ m - 1 \notin U
  BY <1>2
<1>4. (m - 1) + 1 \in T
  BY <1>3
<1> QED
  BY <1>2, <1>3, <1>4

(* FlattenSeq concatenates from the left: g[n] is what the first n give.   *)
LEMMA FlattenUnfold ==
    ASSUME NEW S, NEW f \in Seq(Seq(S))
    PROVE  \E g \in [0 .. Len(f) -> Seq(S)] :
              /\ g[0] = <<>>
              /\ \A n \in 1 .. Len(f) : g[n] = g[n - 1] \o f[n]
              /\ FlattenSeq(f) = g[Len(f)]
<1> DEFINE L == Len(f)
<1>0. L \in Nat /\ \A n \in 1 .. L : f[n] \in Seq(S)
  BY LenProperties, ElementOfSeq
<1> HIDE DEF L
<1>e. <<>> \in Seq(S)
  BY EmptySeq
<1> DEFINE Upto(n) == {g \in [0 .. n -> Seq(S)] :
                          /\ g[0] = <<>>
                          /\ \A k \in 1 .. n : g[k] = g[k - 1] \o f[k]}
           T == {n \in Nat : n <= L => Upto(n) # {}}
<1>1. 0 \in T
  <2> DEFINE g == [k \in 0 .. 0 |-> <<>>]
  <2>1. g \in Upto(0)
    BY <1>e
  <2> QED
    BY <2>1
<1>2. ASSUME NEW n \in Nat, n \in T, n + 1 <= L
      PROVE  Upto(n + 1) # {}
  <2>1. n <= L
    BY <1>0, <1>2
  <2>2. PICK g \in Upto(n) : TRUE
    BY <1>2, <2>1
  <2> DEFINE h == [k \in 0 .. n + 1 |-> IF k = n + 1 THEN g[n] \o f[k] ELSE g[k]]
  <2>3. g[n] \in Seq(S) /\ f[n + 1] \in Seq(S)
    BY <1>0, <1>2, <2>2
  <2>4. g[n] \o f[n + 1] \in Seq(S)
    BY <2>3, ConcatProperties
  <2>5. h \in [0 .. n + 1 -> Seq(S)]
    BY <2>2, <2>4
  <2>6. h[0] = <<>>
    BY <2>2
  <2>7. ASSUME NEW k \in 1 .. n + 1
        PROVE  h[k] = h[k - 1] \o f[k]
    <3>1. CASE k = n + 1
      <4>1. k - 1 = n /\ k - 1 \in 0 .. n + 1 /\ k \in 0 .. n + 1 /\ k - 1 # n + 1
        BY <3>1
      <4> QED
        BY <3>1, <4>1
    <3>2. CASE k # n + 1
      <4>1. k \in 1 .. n /\ k \in 0 .. n + 1 /\ k - 1 \in 0 .. n + 1 /\ k - 1 # n + 1
        BY <3>2
      <4>2. g[k] = g[k - 1] \o f[k]
        BY <2>2, <4>1
      <4> QED
        BY <3>2, <4>1, <4>2
    <3> QED
      BY <3>1, <3>2
  <2>8. h \in Upto(n + 1)
    BY <2>5, <2>6, <2>7
  <2> QED
    BY <2>8
<1>3. Upto(L) # {}
  <2> HIDE DEF Upto
  <2>1. \A n \in Nat : n \in T => n + 1 \in T
    <3> SUFFICES ASSUME NEW n \in Nat, n \in T, n + 1 <= L
                 PROVE  Upto(n + 1) # {}
      OBVIOUS
    <3> QED
      BY <1>2
  <2>2. \A n \in Nat : n \in T
    <3> HIDE DEF T
    <3> QED
      BY <1>1, <2>1, NatInduct
  <2>3. L \in T
    <3> HIDE DEF T
    <3> QED
      BY <1>0, <2>2
  <2>4. L <= L
    BY <1>0
  <2> QED
    BY <2>3, <2>4
<1>4. PICK g \in [0 .. L -> Seq(S)] :
         g[0] = <<>> /\ \A k \in 1 .. L : g[k] = g[k - 1] \o f[k]
  BY <1>3
<1> DEFINE Same(h) == h = [i \in 1 .. L |-> IF i = 1 THEN f[i] ELSE h[i - 1] \o f[i]]
<1>5. \E h : Same(h)
  <2> DEFINE h == [i \in 1 .. L |-> g[i]]
  <2>1. ASSUME NEW i \in 1 .. L
        PROVE  h[i] = IF i = 1 THEN f[i] ELSE h[i - 1] \o f[i]
    <3>1. CASE i = 1
      <4>1. g[1] = g[0] \o f[1]
        <5>1. 1 \in 1 .. L /\ 1 - 1 = 0
          BY <3>1
        <5> QED
          BY <1>4, <5>1
      <4>2. g[1] = f[1]
        BY <1>0, <1>4, <3>1, <4>1, ConcatEmptySeq
      <4> QED
        BY <3>1, <4>2
    <3>2. CASE i # 1
      <4>1. i - 1 \in 1 .. L
        BY <1>0, <3>2
      <4> QED
        BY <1>4, <3>2, <4>1
    <3> QED
      BY <3>1, <3>2
  <2>2. h = [i \in 1 .. L |-> IF i = 1 THEN f[i] ELSE h[i - 1] \o f[i]]
    BY <2>1
  <2> QED
    BY <2>2
<1>6. PICK h : Same(h) /\ FlattenSeq(f) = IF L = 0 THEN f ELSE h[L]
  <2>1. Same(CHOOSE h : Same(h))
    BY <1>5
  <2>2. FlattenSeq(f) = IF L = 0 THEN f ELSE (CHOOSE h : Same(h))[L]
    BY DEF FlattenSeq, L
  <2> QED
    BY <2>1, <2>2
<1>7. \A n \in Nat : n \in {k \in Nat : k \in 1 .. L => h[k] = g[k]}
  <2> DEFINE R == {k \in Nat : k \in 1 .. L => h[k] = g[k]}
  <2>1. 0 \in R
    OBVIOUS
  <2>2. ASSUME NEW n \in Nat, n \in R
        PROVE  n + 1 \in R
    <3>1. SUFFICES ASSUME n + 1 \in 1 .. L PROVE h[n + 1] = g[n + 1]
      OBVIOUS
    <3>2. g[n + 1] = g[n] \o f[n + 1]
      <4>1. (n + 1) - 1 = n
        OBVIOUS
      <4> QED
        BY <1>4, <3>1, <4>1
    <3>3. CASE n = 0
      <4>1. h[1] = f[1]
        BY <1>6, <3>1, <3>3
      <4>0. n + 1 = 1
        BY <3>3
      <4>2. 1 \in 1 .. L /\ g[1] = g[0] \o f[1]
        BY <3>1, <3>2, <3>3, <4>0
      <4>3. g[1] = f[1]
        BY <1>0, <1>4, <4>2, ConcatEmptySeq
      <4> QED
        BY <3>3, <4>1, <4>3
    <3>4. CASE n # 0
      <4>1. n \in 1 .. L /\ (n + 1) - 1 = n /\ n + 1 # 1
        BY <1>0, <3>1, <3>4
      <4>2. h[n + 1] = h[n] \o f[n + 1]
        BY <1>6, <3>1, <4>1
      <4> QED
        BY <2>2, <3>2, <4>1, <4>2
    <3> QED
      BY <3>3, <3>4
  <2> HIDE DEF R
  <2> QED
    BY <2>1, <2>2, NatInduct DEF R
<1>8. FlattenSeq(f) = g[L]
  <2>1. CASE L = 0
    <3>1. f = <<>>
      BY <2>1, EmptySeq DEF L
    <3> QED
      BY <1>4, <1>6, <2>1, <3>1
  <2>2. CASE L # 0
    <3>1. L \in 1 .. L
      BY <1>0, <2>2
    <3> QED
      BY <1>6, <1>7, <2>2, <3>1, <1>0
  <2> QED
    BY <2>1, <2>2
<1> QED
  BY <1>4, <1>8 DEF L
=============================================================================
