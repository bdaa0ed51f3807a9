-------------------------- MODULE NativeWireProofs --------------------------
(***************************************************************************)
(* Proofs about NativeCodec and NativeWire, for any sentences and chunks:  *)
(* a length comes back from the wire as it went, and the reader hears the  *)
(* sentences that were said, however their bytes are cut.                  *)
(*                                                                         *)
(* The argument.  Decode reads the same length whatever follows it, so     *)
(* cutting some bytes, and then what they left over with more bytes, gives *)
(* the words that cutting all at once gives (Streaming); and what was      *)
(* written is cut into the words written (SentenceScans).  The invariant:  *)
(* what was heard, the words of the open sentence, and the words in the    *)
(* bytes to come are together what was said.  Induction goes over the      *)
(* length of a sequence, by the least counterexample.                      *)
(***************************************************************************)
EXTENDS NativeWire, SequenceTheorems, WellFoundedInduction, TLAPS

-----------------------------------------------------------------------------
(* Every non-empty set of naturals has a least element, and a greatest one
   when it is bounded.                                                     *)
LEMMA Least ==
  ASSUME NEW S \in SUBSET Nat, S # {}
  PROVE  \E m \in S : \A n \in S : m <= n
<1> DEFINE R == OpToRel(<, Nat)
<1>1. IsWellFoundedOn(R, Nat)
  BY NatLessThanWellFounded
<1>2. \A m, n \in Nat : m < n => <<m, n>> \in R
  BY DEF OpToRel
<1> HIDE DEF R
<1>3. PICK m \in S : \A n \in S : <<n, m>> \notin R
  BY <1>1, WFMin
<1>4. ASSUME NEW n \in S PROVE m <= n
  <2>1. m \in Nat /\ n \in Nat
    OBVIOUS
  <2>2. ~(n < m)
    BY <1>2, <1>3, <2>1
  <2>3. QED
    BY <2>1, <2>2
<1>5. QED
  BY <1>4

LEMMA Greatest ==
  ASSUME NEW S \in SUBSET Nat, S # {}, NEW bound \in Nat, \A n \in S : n <= bound
  PROVE  \E m \in S : \A n \in S : n <= m
<1> DEFINE Above == {k \in Nat : \A n \in S : n <= k}
<1>1. Above \in SUBSET Nat /\ bound \in Above
  OBVIOUS
<1>2. PICK m \in Above : \A k \in Above : m <= k
  BY <1>1, Least
<1>3. m \in S
  <2> SUFFICES ASSUME m \notin S PROVE FALSE
    OBVIOUS
  <2>1. \A n \in S : n < m
    BY <1>2
  <2>2. m # 0 /\ m - 1 \in Nat
    <3>1. PICK n \in S : TRUE
      OBVIOUS
    <3>2. m \in Nat /\ n \in Nat /\ n < m
      BY <2>1, <3>1
    <3>3. QED
      BY <3>2
  <2>3. \A n \in S : n <= m - 1
    BY <2>1
  <2>4. m - 1 \in Above
    BY <2>2, <2>3
  <2>5. QED
    BY <1>2, <2>4
<1>4. QED
  BY <1>2, <1>3

(* Induction on the length of a sequence.                                  *)
LEMMA ByLength ==
  ASSUME NEW S, NEW T \in SUBSET Seq(S),
         \A s \in Seq(S) : (\A t \in Seq(S) : Len(t) < Len(s) => t \in T) => s \in T
  PROVE  T = Seq(S)
<1> SUFFICES ASSUME T # Seq(S) PROVE FALSE
  OBVIOUS
<1> DEFINE L == {n \in Nat : \E s \in Seq(S) \ T : n = Len(s)}
<1>1. L \in SUBSET Nat /\ L # {}
  <2>1. \A s \in Seq(S) : Len(s) \in Nat
    BY LenProperties
  <2>2. Seq(S) \ T # {}
    OBVIOUS
  <2>3. QED
    BY <2>1, <2>2
<1>2. PICK m \in L : \A n \in L : m <= n
  BY <1>1, Least
<1>3. PICK s \in Seq(S) \ T : m = Len(s)
  BY <1>2
<1>4. ASSUME NEW t \in Seq(S), Len(t) < Len(s) PROVE t \in T
  <2>1. Len(t) \in Nat /\ m \in Nat
    BY <1>1, LenProperties
  <2>2. ~(m <= Len(t))
    BY <1>3, <1>4, <2>1
  <2>3. Len(t) \notin L
    BY <1>2, <2>2
  <2>4. QED
    BY <2>1, <2>3
<1>5. QED
  BY <1>3, <1>4

(* Recursion on the length of a sequence: F says what the value at s is,
   given those at the shorter ones.                                        *)
Descends(F, S, R) ==
  /\ F \in [Seq(S) -> [[Seq(S) -> R] -> R]]
  /\ \A s \in Seq(S), g, h \in [Seq(S) -> R] :
       (\A t \in Seq(S) : Len(t) < Len(s) => g[t] = h[t]) => F[s][g] = F[s][h]

Solution(F, S, R) == \E f \in [Seq(S) -> R] : \A s \in Seq(S) : f[s] = F[s][f]

LEMMA RecursionByLength ==
  ASSUME NEW S, NEW R, R # {}, NEW F, Descends(F, S, R)
  PROVE  Solution(F, S, R)
<1> SUFFICES \E f \in [Seq(S) -> R] : \A s \in Seq(S) : f[s] = F[s][f]
  BY DEF Solution
<1>1. /\ F \in [Seq(S) -> [[Seq(S) -> R] -> R]]
      /\ \A s \in Seq(S), g, h \in [Seq(S) -> R] :
           (\A t \in Seq(S) : Len(t) < Len(s) => g[t] = h[t]) => F[s][g] = F[s][h]
  BY DEF Descends
<1>2. PICK v \in R : TRUE
  OBVIOUS
<1> DEFINE G == [Seq(S) -> R]
           Solves(g, n) == \A s \in Seq(S) : Len(s) < n => g[s] = F[s][g]
           T == {n \in Nat : \E g \in G : Solves(g, n)}
<1>3. \A s \in Seq(S) : Len(s) \in Nat
  BY LenProperties
<1>4. \A n \in Nat : \E g \in G : Solves(g, n)
  <2>1. 0 \in T
    <3>1. [s \in Seq(S) |-> v] \in G
      OBVIOUS
    <3>2. Solves([s \in Seq(S) |-> v], 0)
      BY <1>3
    <3>3. QED
      BY <3>1, <3>2
  <2>2. ASSUME NEW n \in T PROVE n + 1 \in T
    <3>1. PICK g \in G : Solves(g, n)
      OBVIOUS
    <3> DEFINE h == [s \in Seq(S) |-> F[s][g]]
    <3>2. h \in G
      BY <1>1
    <3>3. ASSUME NEW s \in Seq(S), Len(s) < n + 1 PROVE h[s] = F[s][h]
      <4>1. ASSUME NEW t \in Seq(S), Len(t) < Len(s) PROVE g[t] = h[t]
        <5>1. Len(t) < n
          BY <1>3, <3>3, <4>1
        <5>2. QED
          BY <3>1, <5>1
      <4>2. F[s][g] = F[s][h]
        BY <1>1, <3>2, <4>1
      <4>3. QED
        BY <4>2
    <3>4. Solves(h, n + 1) /\ n + 1 \in Nat
      BY <3>3
    <3>5. QED
      <4> HIDE DEF h, Solves, G
      <4>1. QED
        BY <3>2, <3>4
  <2>3. T = Nat
    <3> SUFFICES ASSUME Nat \ T # {} PROVE FALSE
      OBVIOUS
    <3> HIDE DEF T
    <3>1. PICK m \in Nat \ T : \A n \in Nat \ T : m <= n
      BY Least
    <3>2. m # 0 /\ m - 1 \in Nat
      BY <2>1
    <3>3. m - 1 \in T
      BY <3>1, <3>2
    <3>4. m - 1 + 1 = m
      OBVIOUS
    <3>5. QED
      BY <2>2, <3>3, <3>4
  <2>4. QED
    BY <2>3
<1>5. ASSUME NEW n \in Nat, NEW m \in Nat, NEW g \in G, NEW h \in G,
             Solves(g, n), Solves(h, m)
      PROVE  \A s \in Seq(S) : Len(s) < n /\ Len(s) < m => g[s] = h[s]
  <2> DEFINE U == {s \in Seq(S) : Len(s) < n /\ Len(s) < m => g[s] = h[s]}
  <2>1. ASSUME NEW s \in Seq(S), \A t \in Seq(S) : Len(t) < Len(s) => t \in U
        PROVE  s \in U
    <3> SUFFICES ASSUME Len(s) < n, Len(s) < m PROVE g[s] = h[s]
      OBVIOUS
    <3>1. ASSUME NEW t \in Seq(S), Len(t) < Len(s) PROVE g[t] = h[t]
      <4>1. t \in U
        BY <2>1, <3>1
      <4>2. Len(t) < n /\ Len(t) < m
        BY <1>3, <3>1
      <4>3. QED
        BY <4>1, <4>2
    <3>2. F[s][g] = F[s][h]
      BY <1>1, <3>1
    <3>3. QED
      BY <1>5, <3>2
  <2>2. U = Seq(S)
    <3> HIDE DEF U
    <3>1. U \in SUBSET Seq(S)
      BY DEF U
    <3>2. QED
      BY <2>1, <3>1, ByLength
  <2>3. QED
    BY <2>2
<1> DEFINE sol == [n \in Nat |-> CHOOSE g \in G : Solves(g, n)]
           f == [s \in Seq(S) |-> sol[Len(s) + 1][s]]
<1>6. \A n \in Nat : sol[n] \in G /\ Solves(sol[n], n)
  BY <1>4
<1> HIDE DEF sol
<1>7. f \in G
  BY <1>3, <1>6
<1>8. ASSUME NEW s \in Seq(S) PROVE f[s] = F[s][f]
  <2> DEFINE k == Len(s) + 1
  <2>1. k \in Nat /\ Len(s) < k
    BY <1>3
  <2>2. f[s] = F[s][sol[k]]
    BY <1>6, <2>1
  <2>3. ASSUME NEW t \in Seq(S), Len(t) < Len(s) PROVE f[t] = sol[k][t]
    <3> DEFINE j == Len(t) + 1
    <3>1. j \in Nat /\ Len(t) < j /\ Len(t) < k
      BY <1>3, <2>1, <2>3
    <3>2. sol[j][t] = sol[k][t]
      <4> HIDE DEF j, k, G, Solves
      <4>1. sol[j] \in G /\ sol[k] \in G /\ Solves(sol[j], j) /\ Solves(sol[k], k)
        BY <1>6, <2>1, <3>1
      <4>2. QED
        BY <1>5, <2>1, <3>1, <4>1
    <3>3. QED
      BY <3>2
  <2>4. F[s][f] = F[s][sol[k]]
    <3> HIDE DEF f, k
    <3>1. QED
      BY <1>1, <1>6, <1>7, <2>1, <2>3
  <2>5. QED
    BY <2>2, <2>4
<1>9. QED
  BY <1>7, <1>8

-----------------------------------------------------------------------------
(* The digits of a number to the base K.                                   *)
LEMMA Digits ==
  ASSUME NEW n \in Nat
  PROVE  /\ n \div K \in Nat /\ n % K \in Byte /\ n = (n \div K) * K + (n % K)
         /\ n \div (K * K) \in Nat /\ n \div K = (n \div (K * K)) * K + ((n \div K) % K)
         /\ (n \div K) % K \in Byte
         /\ n \div (K * K * K) \in Nat
         /\ n \div (K * K) = (n \div (K * K * K)) * K + ((n \div (K * K)) % K)
         /\ (n \div (K * K)) % K \in Byte
<1>1. \A m \in Nat : m \div 256 \in Nat /\ m % 256 \in 0..255
  OBVIOUS
<1>2. \A m \in Nat : m = (m \div 256) * 256 + (m % 256)
  OBVIOUS
<1>3. \A m \in Nat : m \div K \in Nat /\ m % K \in Byte /\ m = (m \div K) * K + (m % K)
  BY <1>1, <1>2 DEF K, Byte
<1>4. n \div (K * K) = (n \div K) \div K /\ n \div (K * K * K) = (n \div (K * K)) \div K
  BY DEF K
<1>5. QED
  BY <1>3, <1>4

(* A decoded length.                                                       *)
Length(v, s) == [is |-> "length", value |-> v, size |-> s]

(* Fewer bytes than the first announces are no length yet.                 *)
LEMMA ShortAsksForMore ==
  ASSUME NEW s \in Seq(Byte), PrefixSize(s[1]) = Len(s), NEW i \in 0..(Len(s) - 1)
  PROVE  Decode(SubSeq(s, 1, i)).is = "more"
<1>1. Len(s) \in Nat /\ \A k \in 1..i : s[k] \in Byte
  BY LenProperties, ElementOfSeq
<1>2. CASE i = 0
  <2>1. SubSeq(s, 1, i) = <<>>
    BY <1>2, SubSeqEmpty
  <2>2. QED
    BY <2>1 DEF Decode
<1>3. CASE i # 0
  <2>1. Len(SubSeq(s, 1, i)) = i /\ SubSeq(s, 1, i)[1] = s[1] /\ SubSeq(s, 1, i) \in Seq(Byte)
    BY <1>1, <1>3, SubSeqProperties
  <2>2. SubSeq(s, 1, i) # <<>>
    BY <1>3, <2>1, EmptySeq
  <2>3. PrefixSize(s[1]) # 0 /\ PrefixSize(s[1]) > i
    BY <1>1, <1>3
  <2>4. QED
    BY <2>1, <2>2, <2>3 DEF Decode
<1>4. QED
  BY <1>2, <1>3

(* The forms are sequences of bytes, as long as they announce.             *)
LEMMA FormsAnnounce ==
  /\ \A a \in 0..127 : a \in Byte /\ PrefixSize(a) = 1
  /\ \A a \in 0..63 : 128 + a \in Byte /\ PrefixSize(128 + a) = 2
  /\ \A a \in 0..31 : 192 + a \in Byte /\ PrefixSize(192 + a) = 3
  /\ \A a \in 0..15 : 224 + a \in Byte /\ PrefixSize(224 + a) = 4
  /\ 240 \in Byte /\ PrefixSize(240) = 5
<1>1. \A a \in 0..127 : a \in Byte /\ PrefixSize(a) = 1
  BY DEF Byte, PrefixSize
<1>2. \A a \in 0..63 : 128 + a \in Byte /\ PrefixSize(128 + a) = 2
  BY DEF Byte, PrefixSize
<1>3. \A a \in 0..31 : 192 + a \in Byte /\ PrefixSize(192 + a) = 3
  BY DEF Byte, PrefixSize
<1>4. \A a \in 0..15 : 224 + a \in Byte /\ PrefixSize(224 + a) = 4
  BY DEF Byte, PrefixSize
<1>5. 240 \in Byte /\ PrefixSize(240) = 5
  BY DEF Byte, PrefixSize
<1>6. QED
  BY <1>1, <1>2, <1>3, <1>4, <1>5

(* A form: its bytes, and what it says.                                    *)
IsForm(s, n) ==
  s \in Seq(Byte) /\ PrefixSize(s[1]) = Len(s) /\ Decode(s) = Length(n, Len(s))

(* What the five forms of a length say.                                    *)
LEMMA FormOfOne ==
  ASSUME NEW p \in Byte, PrefixSize(p) = 1
  PROVE  IsForm(<<p>>, p)
<1>1. <<p>> \in Seq(Byte) /\ Len(<<p>>) = 1
  OBVIOUS
<1>2. Decode(<<p>>) = Length(p, 1)
  BY DEF Decode, Length
<1>3. QED
  BY <1>1, <1>2 DEF IsForm

LEMMA FormOfTwo ==
  ASSUME NEW p \in Byte, NEW x \in Byte, PrefixSize(p) = 2, NEW n,
         n = (p - 128) * K + x
  PROVE  IsForm(<<p, x>>, n)
<1>1. <<p, x>> \in Seq(Byte) /\ Len(<<p, x>>) = 2
  OBVIOUS
<1>2. Decode(<<p, x>>) = Length((p - 128) * K + x, 2)
  BY DEF Decode, Length
<1>3. QED
  BY <1>1, <1>2 DEF IsForm

LEMMA FormOfThree ==
  ASSUME NEW p \in Byte, NEW x \in Byte, NEW y \in Byte, PrefixSize(p) = 3, NEW n,
         n = ((p - 192) * K + x) * K + y
  PROVE  IsForm(<<p, x, y>>, n)
<1>1. <<p, x, y>> \in Seq(Byte) /\ Len(<<p, x, y>>) = 3
  OBVIOUS
<1>2. Decode(<<p, x, y>>) = Length(((p - 192) * K + x) * K + y, 3)
  BY DEF Decode, Length
<1>3. QED
  BY <1>1, <1>2 DEF IsForm

LEMMA FormOfFour ==
  ASSUME NEW p \in Byte, NEW x \in Byte, NEW y \in Byte, NEW z \in Byte,
         PrefixSize(p) = 4, NEW n, n = (((p - 224) * K + x) * K + y) * K + z
  PROVE  IsForm(<<p, x, y, z>>, n)
<1>1. <<p, x, y, z>> \in Seq(Byte) /\ Len(<<p, x, y, z>>) = 4
  OBVIOUS
<1>2. Decode(<<p, x, y, z>>) = Length((((p - 224) * K + x) * K + y) * K + z, 4)
  BY DEF Decode, Length
<1>3. QED
  BY <1>1, <1>2 DEF IsForm

LEMMA FormOfFive ==
  ASSUME NEW p \in Byte, NEW w \in Byte, NEW x \in Byte, NEW y \in Byte,
         NEW z \in Byte, PrefixSize(p) = 5, NEW n, n = ((w * K + x) * K + y) * K + z
  PROVE  IsForm(<<p, w, x, y, z>>, n)
<1>1. <<p, w, x, y, z>> \in Seq(Byte) /\ Len(<<p, w, x, y, z>>) = 5
  OBVIOUS
<1>2. Decode(<<p, w, x, y, z>>) = Length(((w * K + x) * K + y) * K + z, 5)
  BY DEF Decode, Length
<1>3. QED
  BY <1>1, <1>2 DEF IsForm

LEMMA Encodes ==
  ASSUME NEW n, Encodable(n)
  PROVE  IsForm(EncodeLength(n), n)
<1> DEFINE a == n \div K
           b == n \div (K * K)
           d == n \div (K * K * K)
           z == n % K
           y == a % K
           x == b % K
<1>1. /\ a \in Nat /\ b \in Nat /\ d \in Nat /\ x \in Byte /\ y \in Byte /\ z \in Byte
      /\ n = a * K + z /\ a = b * K + y /\ b = d * K + x
  BY Digits DEF Encodable
<1>2. /\ n \in Nat
      /\ EncodeLength(n) =
           CASE n < 128 -> <<n>>
             [] 128 <= n /\ n < 16384 -> <<128 + a, z>>
             [] 16384 <= n /\ n < 2097152 -> <<192 + b, y, z>>
             [] 2097152 <= n /\ n < 268435456 -> <<224 + d, x, y, z>>
             [] OTHER -> <<240, d, x, y, z>>
  BY DEF EncodeLength, Encodable
<1>top. d \in Int /\ 0 <= d /\ d < 256
  BY <1>1 DEF Encodable, K
<1> HIDE DEF a, b, d, x, y, z
<1>3. x \in Byte /\ y \in Byte /\ z \in Byte
  BY <1>1
<1>4. /\ x \in Int /\ 0 <= x /\ x < 256 /\ y \in Int /\ 0 <= y /\ y < 256
      /\ z \in Int /\ 0 <= z /\ z < 256
      /\ n = a * 256 + z /\ a = b * 256 + y /\ b = d * 256 + x
      /\ a \in Int /\ 0 <= a /\ b \in Int /\ 0 <= b /\ d \in Int /\ 0 <= d
  BY <1>1, <1>2 DEF K, Byte
<1>5. CASE n < 128
  <2>1. n \in 0..127 /\ EncodeLength(n) = <<n>>
    BY <1>2, <1>5
  <2>2. n \in Byte /\ PrefixSize(n) = 1
    BY <2>1, FormsAnnounce
  <2>3. QED
    BY <2>1, <2>2, FormOfOne
<1>6. CASE 128 <= n /\ n < 16384
  <2> DEFINE p == 128 + a
  <2>1. a \in 0..63
    BY <1>4, <1>6
  <2>2. p \in Byte /\ PrefixSize(p) = 2 /\ p - 128 = a
    BY <1>1, <2>1, FormsAnnounce
  <2>3. EncodeLength(n) = <<p, z>>
    BY <1>2, <1>6, SMT
  <2> HIDE DEF p
  <2>4. n = (p - 128) * K + z
    BY <1>1, <2>2
  <2>5. QED
    BY <1>3, <2>2, <2>3, <2>4, FormOfTwo
<1>7. CASE 16384 <= n /\ n < 2097152
  <2> DEFINE p == 192 + b
  <2>1. b \in 0..31
    BY <1>4, <1>7
  <2>2. p \in Byte /\ PrefixSize(p) = 3 /\ p - 192 = b
    BY <1>1, <2>1, FormsAnnounce
  <2>3. EncodeLength(n) = <<p, y, z>>
    BY <1>2, <1>7, SMT
  <2> HIDE DEF p
  <2>4. n = ((p - 192) * K + y) * K + z
    BY <1>1, <2>2
  <2>5. QED
    BY <1>3, <2>2, <2>3, <2>4, FormOfThree
<1>8. CASE 2097152 <= n /\ n < 268435456
  <2> DEFINE p == 224 + d
  <2>1. d \in 0..15
    BY <1>4, <1>8
  <2>2. p \in Byte /\ PrefixSize(p) = 4 /\ p - 224 = d
    BY <1>1, <2>1, FormsAnnounce
  <2>3. EncodeLength(n) = <<p, x, y, z>>
    BY <1>2, <1>8, SMT
  <2> HIDE DEF p
  <2>4. n = (((p - 224) * K + x) * K + y) * K + z
    BY <1>1, <2>2
  <2>5. QED
    BY <1>3, <2>2, <2>3, <2>4, FormOfFour
<1>9. CASE 268435456 <= n
  <2> DEFINE p == 240
  <2>1. 0 <= d /\ d < 256
    BY <1>top
  <2>2. d \in Byte
    BY <1>1, <2>1 DEF Byte
  <2>3. p \in Byte /\ PrefixSize(p) = 5
    BY FormsAnnounce
  <2>4. EncodeLength(n) = <<p, d, x, y, z>>
    BY <1>2, <1>9, SMT
  <2> HIDE DEF p
  <2>5. n = ((d * K + x) * K + y) * K + z
    BY <1>1
  <2>6. QED
    BY <1>3, <2>2, <2>3, <2>4, <2>5, FormOfFive
<1>10. n \in Nat
  BY <1>2
<1>11. QED
  BY <1>5, <1>6, <1>7, <1>8, <1>9, <1>10, SMT

(* A length comes back from the wire as it went, from exactly the bytes it
   was written to, and never from fewer, for every length that
   encodeLength does not refuse.                                           *)
THEOREM LengthsComeBack ==
  \A n : Encodable(n) => EncodeLength(n) \in Seq(Byte) /\ LengthInverts(n)
<1>1. SUFFICES ASSUME NEW n, Encodable(n)
               PROVE  EncodeLength(n) \in Seq(Byte) /\ LengthInverts(n)
  OBVIOUS
<1>2. IsForm(EncodeLength(n), n)
  BY <1>1, Encodes
<1>3. \A i \in 0..(Len(EncodeLength(n)) - 1) :
        Decode(SubSeq(EncodeLength(n), 1, i)).is = "more"
  BY <1>2, ShortAsksForMore DEF IsForm
<1>4. QED
  BY <1>2, <1>3 DEF LengthInverts, IsForm, Length

-----------------------------------------------------------------------------
(* What a buffer begins with.                                              *)
Bytes == Seq(Byte)

Size(b) == Decode(b).size + Decode(b).value

Whole(b) == Decode(b).is = "length" /\ Size(b) <= Len(b)

Word(b) == SubSeq(b, Decode(b).size + 1, Size(b))

After(b) == Rest(b, Size(b))

LEMMA BytesFacts ==
  ASSUME NEW b \in Bytes
  PROVE  /\ Len(b) \in Nat /\ (b # <<>> => Len(b) # 0) /\ (b = <<>> => Len(b) = 0)
         /\ \A i \in 1..Len(b) : b[i] \in Nat /\ b[i] \in Byte
<1>1. Len(b) \in Nat /\ \A i \in 1..Len(b) : b[i] \in Byte
  BY LenProperties, ElementOfSeq DEF Bytes
<1>2. (b # <<>> => Len(b) # 0) /\ (b = <<>> => Len(b) = 0)
  BY EmptySeq DEF Bytes
<1>3. \A x \in Byte : x \in Nat
  BY DEF Byte
<1>4. QED
  BY <1>1, <1>2, <1>3

LEMMA PrefixSizes ==
  ASSUME NEW a \in Byte
  PROVE  /\ PrefixSize(a) \in 0..5
         /\ PrefixSize(a) = 2 => a >= 128
         /\ PrefixSize(a) = 3 => a >= 192
         /\ PrefixSize(a) = 4 => a >= 224
<1>1. a \in Int /\ 0 <= a /\ a <= 255
  BY DEF Byte
<1>2. \/ a < 128 /\ PrefixSize(a) = 1
      \/ 128 <= a /\ a <= 191 /\ PrefixSize(a) = 2
      \/ 192 <= a /\ a <= 223 /\ PrefixSize(a) = 3
      \/ 224 <= a /\ a <= 239 /\ PrefixSize(a) = 4
      \/ 240 <= a /\ a <= 247 /\ PrefixSize(a) = 5
      \/ 248 <= a /\ PrefixSize(a) = 0
  BY <1>1 DEF PrefixSize
<1>3. QED
  BY <1>1, <1>2

LEMMA DecodeTyped ==
  ASSUME NEW b \in Bytes
  PROVE  /\ Decode(b).is \in {"more", "bad", "length"}
         /\ Decode(b).value \in Nat /\ Decode(b).size \in Nat
         /\ Decode(b).is = "length" => Decode(b).size # 0 /\ Decode(b).size <= Len(b)
<1> DEFINE size == PrefixSize(b[1])
<1>1. CASE b = <<>>
  BY <1>1 DEF Decode
<1>2. CASE b # <<>>
  <2>1. Len(b) \in Nat /\ Len(b) # 0 /\ b[1] \in Byte
    BY <1>2, BytesFacts
  <2>2. /\ size \in 0..5
        /\ size = 2 => b[1] >= 128
        /\ size = 3 => b[1] >= 192
        /\ size = 4 => b[1] >= 224
    BY <2>1, PrefixSizes
  <2> HIDE DEF size
  <2>3. CASE size = 0 \/ size > Len(b)
    BY <1>2, <2>3 DEF Decode, size
  <2>4. ASSUME size # 0, ~(size > Len(b)) PROVE
          /\ Decode(b).is = "length" /\ Decode(b).size = size
          /\ Decode(b).value = 
               CASE size = 1 -> b[1]
                 [] size = 2 -> (b[1] - 128) * K + b[2]
                 [] size = 3 -> ((b[1] - 192) * K + b[2]) * K + b[3]
                 [] size = 4 -> (((b[1] - 224) * K + b[2]) * K + b[3]) * K + b[4]
                 [] OTHER -> ((b[2] * K + b[3]) * K + b[4]) * K + b[5]
    BY <1>2, <2>4 DEF Decode, size
  <2>5. ASSUME size # 0, ~(size > Len(b)) PROVE Decode(b).value \in Nat
    <3>1. \A i \in 1..size : b[i] \in Nat
      BY <2>1, <2>2, <2>5, BytesFacts
    <3>2. CASE size = 1
      BY <2>4, <2>5, <3>1, <3>2
    <3>3. CASE size = 2
      <4>1. b[1] \in Nat /\ b[2] \in Nat /\ b[1] - 128 \in Nat
        BY <2>2, <3>1, <3>3
      <4>2. QED
        BY <2>4, <2>5, <3>3, <4>1 DEF K
    <3>4. CASE size = 3
      <4>1. b[1] - 192 \in Nat /\ b[2] \in Nat /\ b[3] \in Nat
        BY <2>2, <3>1, <3>4
      <4>2. QED
        BY <2>4, <2>5, <3>4, <4>1 DEF K
    <3>5. CASE size = 4
      <4>1. b[1] - 224 \in Nat /\ b[2] \in Nat /\ b[3] \in Nat /\ b[4] \in Nat
        BY <2>2, <3>1, <3>5
      <4>2. Decode(b).value = (((b[1] - 224) * K + b[2]) * K + b[3]) * K + b[4]
        BY <2>4, <2>5, <3>5
      <4>3. QED
        BY <3>5, <4>1, <4>2 DEF K
    <3>6. CASE size = 5
      <4>1. b[2] \in Nat /\ b[3] \in Nat /\ b[4] \in Nat /\ b[5] \in Nat
        BY <3>1, <3>6
      <4>2. Decode(b).value = ((b[2] * K + b[3]) * K + b[4]) * K + b[5]
        BY <2>4, <2>5, <3>6
      <4>3. QED
        BY <4>1, <4>2 DEF K
    <3>7. QED
      BY <2>2, <2>5, <3>2, <3>3, <3>4, <3>5, <3>6
  <2>6. CASE size # 0 /\ ~(size > Len(b))
    BY <2>1, <2>2, <2>4, <2>5, <2>6
  <2>7. QED
    BY <2>3, <2>6
<1>3. QED
  BY <1>1, <1>2

(* Bytes that come later change nothing about what is there.               *)
LEMMA DecodeGrows ==
  ASSUME NEW b \in Bytes, NEW c \in Bytes, Decode(b).is # "more"
  PROVE  Decode(b \o c) = Decode(b)
<1> DEFINE s == b \o c
           size == PrefixSize(b[1])
<1>1. b # <<>>
  BY DEF Decode
<1>2. Len(b) \in Nat /\ Len(b) # 0 /\ b[1] \in Byte
  BY <1>1, BytesFacts
<1>3. /\ s \in Bytes /\ Len(s) = Len(b) + Len(c) /\ Len(c) \in Nat
      /\ \A i \in 1..Len(b) : s[i] = b[i]
  BY ConcatProperties, BytesFacts DEF Bytes
<1> HIDE DEF s
<1> SUFFICES Decode(s) = Decode(b)
  BY DEF s
<1>4. s # <<>> /\ s[1] = b[1]
  BY <1>2, <1>3, BytesFacts
<1>5. size \in 0..5
  BY <1>2 DEF PrefixSize, Byte
<1>6. ~(size > Len(b))
  BY <1>1, <1>5 DEF Decode
<1> HIDE DEF size
<1>7. ~(size > Len(s)) /\ \A i \in 1..size : s[i] = b[i]
  BY <1>2, <1>3, <1>5, <1>6
<1>8. CASE size = 0
  BY <1>1, <1>4, <1>8 DEF Decode, size
<1>9. CASE size # 0
  <2>1. Decode(s) =
          [is |-> "length", size |-> size, value |->
               CASE size = 1 -> s[1]
                 [] size = 2 -> (s[1] - 128) * K + s[2]
                 [] size = 3 -> ((s[1] - 192) * K + s[2]) * K + s[3]
                 [] size = 4 -> (((s[1] - 224) * K + s[2]) * K + s[3]) * K + s[4]
                 [] OTHER -> ((s[2] * K + s[3]) * K + s[4]) * K + s[5]]
    BY <1>4, <1>7, <1>9 DEF Decode, size
  <2>2. Decode(b) =
          [is |-> "length", size |-> size, value |->
               CASE size = 1 -> b[1]
                 [] size = 2 -> (b[1] - 128) * K + b[2]
                 [] size = 3 -> ((b[1] - 192) * K + b[2]) * K + b[3]
                 [] size = 4 -> (((b[1] - 224) * K + b[2]) * K + b[3]) * K + b[4]
                 [] OTHER -> ((b[2] * K + b[3]) * K + b[4]) * K + b[5]]
    BY <1>1, <1>6, <1>9 DEF Decode, size
  <2>3. CASE size = 1
    BY <1>4, <2>1, <2>2, <2>3
  <2>4. CASE size = 2
    <3>1. s[1] = b[1] /\ s[2] = b[2]
      BY <1>7, <2>4
    <3>2. QED
      BY <2>1, <2>2, <2>4, <3>1
  <2>5. CASE size = 3
    <3>1. s[1] = b[1] /\ s[2] = b[2] /\ s[3] = b[3]
      BY <1>7, <2>5
    <3>2. QED
      BY <2>1, <2>2, <2>5, <3>1
  <2>6. CASE size = 4
    <3>1. s[1] = b[1] /\ s[2] = b[2] /\ s[3] = b[3] /\ s[4] = b[4]
      BY <1>7, <2>6
    <3>2. QED
      BY <2>1, <2>2, <2>6, <3>1
  <2>7. CASE size = 5
    <3>1. s[2] = b[2] /\ s[3] = b[3] /\ s[4] = b[4] /\ s[5] = b[5]
      BY <1>7, <2>7
    <3>2. QED
      BY <2>1, <2>2, <2>7, <3>1
  <2>8. QED
    BY <1>5, <1>9, <2>3, <2>4, <2>5, <2>6, <2>7
<1>10. QED
  BY <1>8, <1>9

(* The sizes of a word and of what follows it.                             *)
LEMMA RestTyped ==
  ASSUME NEW S, NEW s \in Seq(S), NEW n \in 0..Len(s)
  PROVE  /\ Rest(s, n) \in Seq(S) /\ Len(Rest(s, n)) = Len(s) - n
         /\ \A i \in 1..Len(s) - n : Rest(s, n)[i] = s[n + i]
         /\ SubSeq(s, 1, n) \in Seq(S) /\ Len(SubSeq(s, 1, n)) = n
         /\ s = SubSeq(s, 1, n) \o Rest(s, n)
<1> DEFINE m == n + 1
           k == Len(s)
           r == SubSeq(s, m, k)
           p == SubSeq(s, 1, n)
<1>1. k \in Nat /\ \A i \in 1..k : s[i] \in S
  BY LenProperties, ElementOfSeq
<1>2. m \in Int /\ n \in Int /\ m >= 1 /\ n <= k /\ n >= 0 /\ 1 \in Int
  BY <1>1
<1>3. m = n + 1
  OBVIOUS
<1> HIDE DEF m, k
<1>4. \A i \in m..k : s[i] \in S
  BY <1>1, <1>2
<1>5. r \in Seq(S) /\ Len(r) = (IF m <= k THEN k - m + 1 ELSE 0)
        /\ \A i \in 1..k - m + 1 : r[i] = s[m + i - 1]
  BY <1>1, <1>2, <1>4, SubSeqProperties
<1>6. \A i \in 1..n : s[i] \in S
  BY <1>1, <1>2
<1>7. p \in Seq(S) /\ Len(p) = (IF 1 <= n THEN n - 1 + 1 ELSE 0)
        /\ \A i \in 1..n - 1 + 1 : p[i] = s[1 + i - 1]
  BY <1>2, <1>6, SubSeqProperties
<1> HIDE DEF r, p
<1>8. Len(r) = k - n /\ \A i \in 1..k - n : r[i] = s[n + i]
  <2>1. k - m + 1 = k - n
    BY <1>1, <1>2, <1>3
  <2>2. \A i \in 1..k - n : r[i] = s[m + i - 1]
    BY <1>5, <2>1
  <2>3. \A i \in 1..k - n : m + i - 1 = n + i
    BY <1>1, <1>2, <1>3
  <2>4. QED
    BY <1>1, <1>2, <1>3, <1>5, <2>2, <2>3
<1>9. Len(p) = n /\ \A i \in 1..n : p[i] = s[i]
  BY <1>2, <1>7
<1>10. p \o r \in Seq(S) /\ Len(p \o r) = k
        /\ \A i \in 1..k : (p \o r)[i] = s[i]
  <2>1. p \o r \in Seq(S) /\ Len(p \o r) = Len(p) + Len(r)
         /\ \A i \in 1..Len(p) + Len(r) : (p \o r)[i] =
               IF i <= Len(p) THEN p[i] ELSE r[i - Len(p)]
    BY <1>5, <1>7, ConcatProperties
  <2>2. Len(p) + Len(r) = k
    BY <1>1, <1>2, <1>8, <1>9
  <2>3. ASSUME NEW i \in 1..k PROVE (p \o r)[i] = s[i]
    <3>1. CASE i <= n
      BY <1>1, <1>2, <1>9, <2>1, <2>2, <3>1
    <3>2. CASE ~(i <= n)
      <4> DEFINE j == i - n
      <4>1. j \in 1..k - n /\ n + j = i
        BY <1>1, <1>2, <3>2
      <4> HIDE DEF j
      <4>2. r[j] = s[i]
        BY <1>8, <4>1
      <4>3. (p \o r)[i] = r[j]
        BY <1>9, <2>1, <2>2, <3>2 DEF j
      <4>4. QED
        BY <4>2, <4>3
    <3>3. QED
      BY <3>1, <3>2
  <2>4. QED
    BY <2>1, <2>2, <2>3
<1>11. s = p \o r
  BY <1>10, SeqEqual DEF k
<1>12. QED
  BY <1>5, <1>7, <1>8, <1>9, <1>11 DEF Rest, r, p, m, k

(* A word in front takes bytes away, and what is left is shorter.          *)
LEMMA WholeShrinks ==
  ASSUME NEW b \in Bytes, Whole(b)
  PROVE  /\ Size(b) \in 0..Len(b) /\ After(b) \in Bytes /\ Word(b) \in Bytes
         /\ Len(After(b)) < Len(b) /\ Len(After(b)) = Len(b) - Size(b)
<1>1. Len(b) \in Nat
  BY BytesFacts
<1>2. /\ Decode(b).size \in Nat /\ Decode(b).value \in Nat /\ Decode(b).size # 0
      /\ Size(b) = Decode(b).size + Decode(b).value /\ Size(b) <= Len(b)
  BY DecodeTyped DEF Whole, Size
<1>3. Size(b) \in 0..Len(b) /\ Size(b) # 0
  BY <1>1, <1>2
<1>4. After(b) \in Bytes /\ Len(After(b)) = Len(b) - Size(b)
  BY <1>3, RestTyped DEF After, Bytes
<1>5. Word(b) \in Bytes
  <2> DEFINE m == Decode(b).size + 1
             n == Size(b)
  <2>1. m \in Int /\ n \in Int /\ \A i \in m..n : i \in 1..Len(b)
    BY <1>1, <1>2, <1>3
  <2> HIDE DEF m, n
  <2>2. \A i \in m..n : b[i] \in Byte
    BY <2>1, BytesFacts
  <2>3. SubSeq(b, m, n) \in Seq(Byte)
    BY <2>1, <2>2, SubSeqProperties
  <2>4. QED
    BY <2>3 DEF Word, Bytes, m, n
<1>6. QED
  BY <1>1, <1>3, <1>4, <1>5

-----------------------------------------------------------------------------
(* The cut of a buffer, unfolded once.                                     *)
Cut == [words : Seq(Bytes), rest : Bytes, bad : BOOLEAN]

Onto(w, cut) == [words |-> <<w>> \o cut.words, rest |-> cut.rest, bad |-> cut.bad]

Left(b) == [words |-> <<>>, rest |-> b, bad |-> Decode(b).is = "bad"]

LEMMA OntoTyped ==
  /\ \A w \in Bytes, cut \in Cut : Onto(w, cut) \in Cut
  /\ \A b \in Bytes : Left(b) \in Cut
<1>1. ASSUME NEW w \in Bytes, NEW cut \in Cut PROVE Onto(w, cut) \in Cut
  <2>1. <<w>> \in Seq(Bytes) /\ cut.words \in Seq(Bytes)
    BY DEF Cut
  <2>2. <<w>> \o cut.words \in Seq(Bytes)
    BY <2>1, ConcatProperties
  <2>3. QED
    BY <2>2 DEF Onto, Cut
<1>2. ASSUME NEW b \in Bytes PROVE Left(b) \in Cut
  <2>1. <<>> \in Seq(Bytes)
    BY EmptySeq
  <2>2. (Decode(b).is = "bad") \in BOOLEAN
    OBVIOUS
  <2>3. QED
    BY <2>1, <2>2 DEF Left, Cut
<1>3. QED
  BY <1>1, <1>2

LEMMA WordsReplaced ==
  ASSUME NEW A, NEW B, NEW C, NEW c \in [words : A, rest : B, bad : C], NEW e
  PROVE  [c EXCEPT !.words = e] = [words |-> e, rest |-> c.rest, bad |-> c.bad]
  OBVIOUS

LEMMA ScanUnfolds ==
  /\ Scan \in [Bytes -> Cut]
  /\ \A b \in Bytes : Scan[b] = IF Whole(b) THEN Onto(Word(b), Scan[After(b)]) ELSE Left(b)
<1> DEFINE Step(g, b) == IF Whole(b) THEN Onto(Word(b), g[After(b)]) ELSE Left(b)
           F == [b \in Bytes |-> [g \in [Bytes -> Cut] |-> Step(g, b)]]
<1>1. \A b \in Bytes, g \in [Bytes -> Cut] : Step(g, b) \in Cut
  BY WholeShrinks, OntoTyped
<1>2. F \in [Bytes -> [[Bytes -> Cut] -> Cut]]
  BY <1>1
<1>3. \A b \in Bytes, g \in [Bytes -> Cut] : F[b][g] = Step(g, b)
  OBVIOUS
<1>4. \A b \in Bytes, g, h \in [Bytes -> Cut] :
        (\A c \in Bytes : Len(c) < Len(b) => g[c] = h[c]) => F[b][g] = F[b][h]
  BY WholeShrinks
<1>5. Left(<<>>) \in Cut
  <2>1. <<>> \in Bytes
    BY EmptySeq DEF Bytes
  <2>2. QED
    BY <2>1, OntoTyped
<1>6. PICK f \in [Bytes -> Cut] : \A b \in Bytes : f[b] = F[b][f]
  <2> HIDE DEF F, Step
  <2>1. F \in [Seq(Byte) -> [[Seq(Byte) -> Cut] -> Cut]]
    BY <1>2 DEF Bytes
  <2>2. \A b \in Seq(Byte), g, h \in [Seq(Byte) -> Cut] :
          (\A c \in Seq(Byte) : Len(c) < Len(b) => g[c] = h[c]) => F[b][g] = F[b][h]
    BY <1>4 DEF Bytes
  <2>3. Descends(F, Byte, Cut)
    BY <2>1, <2>2 DEF Descends
  <2>4. Solution(F, Byte, Cut)
    BY <1>5, <2>3, RecursionByLength
  <2>5. QED
    BY <2>4 DEF Solution, Bytes
<1>7. ASSUME NEW g, NEW b \in Bytes, Whole(b) => g[After(b)] \in Cut
      PROVE  (LET h == Decode(b)
                  end == h.size + h.value
              IN  IF h.is = "length" /\ end <= Len(b)
                  THEN [g[Rest(b, end)] EXCEPT !.words = <<SubSeq(b, h.size + 1, end)>> \o @]
                  ELSE [words |-> <<>>, rest |-> b, bad |-> h.is = "bad"])
               = Step(g, b)
  <2> SUFFICES (IF Whole(b)
                THEN [g[After(b)] EXCEPT !.words = <<Word(b)>> \o @]
                ELSE Left(b)) = Step(g, b)
    BY DEF Whole, After, Word, Left, Size
  <2>1. CASE Whole(b)
    <3> DEFINE c == g[After(b)]
               e == <<Word(b)>> \o c.words
    <3>1. c \in [words : Seq(Bytes), rest : Bytes, bad : BOOLEAN]
      BY <1>7, <2>1 DEF Cut
    <3>2. [c EXCEPT !.words = e] = Onto(Word(b), c)
      <4> HIDE DEF c
      <4>1. [c EXCEPT !.words = e] = [words |-> e, rest |-> c.rest, bad |-> c.bad]
        <5> HIDE DEF e
        <5>1. QED
          BY <3>1, WordsReplaced
      <4>2. QED
        BY <4>1 DEF Onto
    <3>3. QED
      BY <2>1, <3>2
  <2>2. CASE ~Whole(b)
    BY <2>2
  <2>3. QED
    BY <2>1, <2>2
<1>8. f = [b \in Bytes |-> Step(f, b)]
  BY <1>3, <1>6
<1>9. \A b \in Bytes : Whole(b) => f[After(b)] \in Cut
  BY <1>6, WholeShrinks
<1> HIDE DEF Step, F
<1>10. f = [buffer \in Seq(Byte) |->
             LET h == Decode(buffer)
                 end == h.size + h.value
             IN  IF h.is = "length" /\ end <= Len(buffer)
                 THEN [f[Rest(buffer, end)] EXCEPT
                         !.words = <<SubSeq(buffer, h.size + 1, end)>> \o @]
                 ELSE [words |-> <<>>, rest |-> buffer, bad |-> h.is = "bad"]]
  BY <1>7, <1>8, <1>9 DEF Bytes
<1>11. Scan = [buffer \in Seq(Byte) |->
             LET h == Decode(buffer)
                 end == h.size + h.value
             IN  IF h.is = "length" /\ end <= Len(buffer)
                 THEN [Scan[Rest(buffer, end)] EXCEPT
                         !.words = <<SubSeq(buffer, h.size + 1, end)>> \o @]
                 ELSE [words |-> <<>>, rest |-> buffer, bad |-> h.is = "bad"]]
  BY <1>10 DEF Scan
<1>12. \A b \in Bytes : (Whole(b) => Scan[After(b)] \in Cut) => Scan[b] = Step(Scan, b)
  <2> SUFFICES ASSUME NEW b \in Bytes, Whole(b) => Scan[After(b)] \in Cut
               PROVE  Scan[b] = Step(Scan, b)
    OBVIOUS
  <2>1. Scan[b] =
          (LET h == Decode(b)
               end == h.size + h.value
           IN  IF h.is = "length" /\ end <= Len(b)
               THEN [Scan[Rest(b, end)] EXCEPT !.words = <<SubSeq(b, h.size + 1, end)>> \o @]
               ELSE [words |-> <<>>, rest |-> b, bad |-> h.is = "bad"])
    <3> USE <1>11
    <3>1. QED
      BY DEF Bytes
  <2>2. QED
    BY <1>7, <2>1
<1> DEFINE T == {b \in Bytes : Scan[b] \in Cut}
<1>13. T = Bytes
  <2>1. ASSUME NEW b \in Bytes, \A c \in Bytes : Len(c) < Len(b) => c \in T
        PROVE  b \in T
    <3>1. Whole(b) => Scan[After(b)] \in Cut
      BY <2>1, WholeShrinks
    <3>2. Scan[b] = Step(Scan, b)
      BY <1>12, <3>1
    <3>3. Step(Scan, b) \in Cut
      BY <3>1, WholeShrinks, OntoTyped DEF Step
    <3>4. QED
      BY <3>2, <3>3
  <2>2. T \in SUBSET Bytes
    OBVIOUS
  <2> HIDE DEF T
  <2>3. QED
    BY <2>1, <2>2, ByLength DEF Bytes
<1>14. \A b \in Bytes : Scan[b] = Step(Scan, b)
  BY <1>12, <1>13, WholeShrinks
<1>15. Scan = [b \in Bytes |-> Scan[b]]
  BY <1>11 DEF Bytes
<1>16. QED
  BY <1>13, <1>14, <1>15 DEF Step

LEMMA ScanTyped ==
  ASSUME NEW b \in Bytes
  PROVE  /\ Scan[b] \in Cut /\ Scan[b].words \in Seq(Bytes) /\ Scan[b].rest \in Bytes
         /\ Scan[b].bad \in BOOLEAN
         /\ Scan[b] = [words |-> Scan[b].words, rest |-> Scan[b].rest, bad |-> Scan[b].bad]
<1>1. Scan[b] \in Cut
  BY ScanUnfolds
<1>2. QED
  BY <1>1 DEF Cut

LEMMA ScanOfWhole ==
  ASSUME NEW b \in Bytes, Whole(b)
  PROVE  /\ Scan[b].words = <<Word(b)>> \o Scan[After(b)].words
         /\ Scan[b].rest = Scan[After(b)].rest /\ Scan[b].bad = Scan[After(b)].bad
BY ScanUnfolds DEF Onto

LEMMA ScanOfLeft ==
  ASSUME NEW b \in Bytes, ~Whole(b)
  PROVE  Scan[b].words = <<>> /\ Scan[b].rest = b /\ (Scan[b].bad <=> Decode(b).is = "bad")
<1>1. Scan[b] = Left(b)
  BY ScanUnfolds
<1>2. Left(b).words = <<>> /\ Left(b).rest = b
  BY DEF Left
<1>3. Left(b).bad = (Decode(b).is = "bad")
  BY DEF Left
<1>4. QED
  BY <1>1, <1>2, <1>3

(* Nothing whole is left.                                                  *)
LEMMA ScanIsDone ==
  ASSUME NEW b \in Bytes
  PROVE  ~Whole(Scan[b].rest) /\ (Scan[b].bad <=> Decode(Scan[b].rest).is = "bad")
<1> DEFINE Done(c) == ~Whole(Scan[c].rest) /\ (Scan[c].bad <=> Decode(Scan[c].rest).is = "bad")
           T == {c \in Bytes : Done(c)}
<1>1. ASSUME NEW c \in Bytes, \A d \in Bytes : Len(d) < Len(c) => d \in T
      PROVE  c \in T
  <2>1. CASE Whole(c)
    <3>1. Done(After(c))
      BY <1>1, <2>1, WholeShrinks
    <3>2. QED
      BY <2>1, <3>1, ScanOfWhole
  <2>2. CASE ~Whole(c)
    BY <2>2, ScanOfLeft
  <2>3. QED
    BY <2>1, <2>2
<1>2. T = Bytes
  <2>1. T \in SUBSET Bytes
    OBVIOUS
  <2> HIDE DEF T
  <2>2. QED
    BY <1>1, <2>1, ByLength DEF Bytes
<1>3. QED
  BY <1>2

-----------------------------------------------------------------------------
(* What comes later is appended to what is left.                           *)
LEMMA RestOfConcat ==
  ASSUME NEW S, NEW s \in Seq(S), NEW t \in Seq(S), NEW n \in 0..Len(s)
  PROVE  Rest(s \o t, n) = Rest(s, n) \o t
<1> DEFINE c == s \o t
           k == Len(s)
           l == Len(t)
           a == Rest(c, n)
           r == Rest(s, n)
           d == r \o t
<1>1. k \in Nat /\ l \in Nat
  BY LenProperties
<1>2. c \in Seq(S) /\ Len(c) = k + l
       /\ \A i \in 1..k + l : c[i] = IF i <= k THEN s[i] ELSE t[i - k]
  BY ConcatProperties
<1> HIDE DEF c
<1>3. n \in 0..Len(c)
  BY <1>1, <1>2
<1>4. a \in Seq(S) /\ Len(a) = k + l - n /\ \A i \in 1..k + l - n : a[i] = c[n + i]
  <2>1. a \in Seq(S) /\ Len(a) = Len(c) - n /\ \A i \in 1..Len(c) - n : a[i] = c[n + i]
    <3>1. c \in Seq(S)
      BY <1>2
    <3>2. QED
      BY <1>3, <3>1, RestTyped, Zenon
  <2>2. Len(c) - n = k + l - n
    BY <1>2
  <2>3. QED
    BY <2>1, <2>2
<1>5. r \in Seq(S) /\ Len(r) = k - n /\ \A i \in 1..k - n : r[i] = s[n + i]
  BY RestTyped
<1> HIDE DEF a, r
<1>6. d \in Seq(S) /\ Len(d) = Len(r) + l
       /\ \A i \in 1..Len(r) + l : d[i] = IF i <= Len(r) THEN r[i] ELSE t[i - Len(r)]
  BY <1>5, ConcatProperties
<1> HIDE DEF d, k, l
<1>7. Len(d) = k + l - n /\ n \in Nat /\ n <= k
  BY <1>1, <1>5, <1>6
<1>8. ASSUME NEW i \in 1..k + l - n PROVE a[i] = d[i]
  <2> DEFINE j == n + i
  <2>1. j \in 1..k + l /\ a[i] = c[j] /\ i \in 1..Len(r) + l
    BY <1>1, <1>4, <1>5, <1>7
  <2>2. CASE i <= k - n
    <3>1. j <= k /\ i \in 1..k - n
      BY <1>1, <1>7, <2>2
    <3>2. c[j] = s[j] /\ r[i] = s[j]
      BY <1>2, <1>5, <2>1, <3>1
    <3>3. d[i] = r[i]
      BY <1>5, <1>6, <2>1, <2>2
    <3>4. QED
      BY <2>1, <3>2, <3>3
  <2>3. CASE ~(i <= k - n)
    <3>1. ~(j <= k) /\ j - k = i - Len(r)
      BY <1>1, <1>5, <1>7, <2>3
    <3>2. c[j] = t[j - k]
      <4> HIDE DEF j
      <4>1. QED
        BY <1>2, <2>1, <3>1
    <3>3. d[i] = t[i - Len(r)]
      BY <1>5, <1>6, <2>1, <2>3
    <3>4. QED
      BY <2>1, <3>1, <3>2, <3>3
  <2>4. QED
    BY <2>2, <2>3
<1>9. a = d
  BY <1>1, <1>4, <1>6, <1>7, <1>8, SeqEqual
<1>10. QED
  BY <1>9 DEF a, d, r, c

LEMMA WholeGrows ==
  ASSUME NEW b \in Bytes, NEW c \in Bytes, Whole(b)
  PROVE  /\ Whole(b \o c) /\ Word(b \o c) = Word(b)
         /\ After(b \o c) = After(b) \o c
<1> DEFINE s == b \o c
<1>1. s \in Bytes /\ Len(s) = Len(b) + Len(c) /\ Len(b) \in Nat /\ Len(c) \in Nat
  BY ConcatProperties, BytesFacts DEF Bytes
<1>2. Decode(s) = Decode(b) /\ Size(s) = Size(b)
  BY DecodeGrows DEF Whole, Size
<1>3. Size(b) \in 0..Len(b)
  BY WholeShrinks
<1>4. Whole(s)
  <2> HIDE DEF s
  <2>1. QED
    BY <1>1, <1>2, <1>3 DEF Whole
<1>5. After(s) = After(b) \o c
  BY <1>2, <1>3, RestOfConcat DEF After, Bytes
<1>6. Word(s) = Word(b)
  <2> DEFINE m == Decode(b).size + 1
             n == Size(b)
  <2>1. m \in Int /\ n \in Int /\ m >= 1
    BY <1>3, DecodeTyped
  <2>2. n \in 0..Len(b)
    BY <1>3
  <2> HIDE DEF m, n
  <2>3. SubSeq(s, m, n) = SubSeq(b, m, n)
    <3>1. CASE n < m
      BY <2>1, <3>1, SubSeqEmpty
    <3>2. CASE m <= n
      <4>1. m \in 1..Len(b) /\ n \in 1..Len(b)
        BY <1>1, <2>1, <2>2, <3>2
      <4>2. b \in Seq(Byte) /\ c \in Seq(Byte)
        BY DEF Bytes
      <4>3. QED
        BY <4>1, <4>2, SubSeqOfConcat1, Zenon
    <3>3. n < m \/ m <= n
      BY <2>1
    <3>4. QED
      BY <3>1, <3>2, <3>3, Zenon
  <2>4. Word(s) = SubSeq(s, m, n)
    BY <1>2 DEF Word, m, n
  <2>5. Word(b) = SubSeq(b, m, n)
    BY DEF Word, m, n
  <2>6. QED
    BY <2>3, <2>4, <2>5
<1>7. QED
  BY <1>4, <1>5, <1>6

(* Cutting the first bytes first, and then what was left with the others,
   gives the words that cutting all at once gives.                         *)
LEMMA Streaming ==
  ASSUME NEW b \in Bytes, NEW c \in Bytes
  PROVE  /\ Scan[b \o c].words = Scan[b].words \o Scan[Scan[b].rest \o c].words
         /\ Scan[b \o c].rest = Scan[Scan[b].rest \o c].rest
         /\ Scan[b \o c].bad = Scan[Scan[b].rest \o c].bad
<1> DEFINE Streams(d) ==
             /\ Scan[d \o c].words = Scan[d].words \o Scan[Scan[d].rest \o c].words
             /\ Scan[d \o c].rest = Scan[Scan[d].rest \o c].rest
             /\ Scan[d \o c].bad = Scan[Scan[d].rest \o c].bad
           T == {d \in Bytes : Streams(d)}
<1>1. ASSUME NEW d \in Bytes, \A e \in Bytes : Len(e) < Len(d) => e \in T
      PROVE  d \in T
  <2>0. \A e \in Bytes : e \o c \in Bytes
    BY ConcatProperties DEF Bytes
  <2>1. CASE Whole(d)
    <3> DEFINE a == After(d)
               w == Word(d)
               v == Scan[Scan[a].rest \o c].words
    <3>1. a \in Bytes /\ w \in Bytes /\ a \in T
      BY <1>1, <2>1, WholeShrinks
    <3>2. Whole(d \o c) /\ Word(d \o c) = w /\ After(d \o c) = a \o c
      BY <2>1, WholeGrows
    <3>3. /\ Scan[d].words = <<w>> \o Scan[a].words
          /\ Scan[d].rest = Scan[a].rest /\ Scan[d].bad = Scan[a].bad
      BY <2>1, ScanOfWhole
    <3>4. /\ Scan[d \o c].words = <<w>> \o Scan[a \o c].words
          /\ Scan[d \o c].rest = Scan[a \o c].rest /\ Scan[d \o c].bad = Scan[a \o c].bad
      BY <2>0, <3>2, ScanOfWhole
    <3>5. Streams(a)
      BY <3>1
    <3> HIDE DEF a, w
    <3>6. <<w>> \in Seq(Bytes) /\ Scan[a].words \in Seq(Bytes) /\ v \in Seq(Bytes)
      <4>1. Scan[a].words \in Seq(Bytes) /\ Scan[a].rest \in Bytes
        BY <3>1, ScanTyped
      <4>2. Scan[a].rest \o c \in Bytes
        BY <2>0, <4>1
      <4>3. v \in Seq(Bytes)
        BY <4>2, ScanTyped
      <4>4. QED
        BY <3>1, <4>1, <4>3
    <3>7. (<<w>> \o Scan[a].words) \o v = <<w>> \o (Scan[a].words \o v)
      <4> DEFINE x == <<w>>
                 y == Scan[a].words
      <4>1. x \in Seq(Bytes) /\ y \in Seq(Bytes) /\ v \in Seq(Bytes)
        BY <3>6
      <4> HIDE DEF v, x, y
      <4>2. (x \o y) \o v = x \o (y \o v)
        BY <4>1, ConcatAssociative
      <4>3. QED
        BY <4>2 DEF x, y
    <3>8. Streams(d)
      BY <3>3, <3>4, <3>5, <3>7
    <3>9. QED
      BY <3>8
  <2>2. CASE ~Whole(d)
    <3>1. Scan[d].words = <<>> /\ Scan[d].rest = d
      BY <2>2, ScanOfLeft
    <3>2. Scan[d \o c].words \in Seq(Bytes)
      BY <2>0, ScanTyped
    <3>3. Scan[d \o c].words = <<>> \o Scan[d \o c].words
      BY <3>2, ConcatEmptySeq
    <3>4. Streams(d)
      BY <3>1, <3>3
    <3>5. QED
      BY <3>4
  <2>3. QED
    BY <2>1, <2>2
<1>2. T = Bytes
  <2>1. T \in SUBSET Bytes
    OBVIOUS
  <2> HIDE DEF T
  <2>2. QED
    BY <1>1, <2>1, ByLength DEF Bytes
<1>3. QED
  BY <1>2

-----------------------------------------------------------------------------
(* What is written is what is cut.                                         *)
LEMMA RestOfFirst ==
  ASSUME NEW S, NEW s \in Seq(S), NEW t \in Seq(S)
  PROVE  Rest(s \o t, Len(s)) = t /\ Rest(s, Len(s)) = <<>>
<1> DEFINE n == Len(s)
           r == Rest(s, n)
<1>1. n \in Nat /\ n \in 0..Len(s)
  BY LenProperties
<1>2. r \in Seq(S) /\ Len(r) = 0
  <2>1. r \in Seq(S) /\ Len(r) = Len(s) - n
    BY <1>1, RestTyped
  <2>2. QED
    BY <1>1, <2>1
<1>3. r = <<>>
  <2> HIDE DEF r
  <2>1. QED
    BY <1>2, EmptySeq
<1>4. Rest(s \o t, n) = r \o t
  BY <1>1, RestOfConcat
<1>5. <<>> \o t = t
  BY ConcatEmptySeq
<1>6. QED
  BY <1>3, <1>4, <1>5

LEMMA WordIsCut ==
  ASSUME NEW w \in Bytes, Encodable(Len(w)), NEW c \in Bytes
  PROVE  /\ EncodeWord(w) \in Bytes /\ EncodeWord(w) \o c \in Bytes
         /\ Whole(EncodeWord(w) \o c)
         /\ Word(EncodeWord(w) \o c) = w /\ After(EncodeWord(w) \o c) = c
<1> DEFINE n == Len(w)
           code == EncodeLength(n)
           e == code \o w
           l == Len(code)
<1>1. code \in Bytes /\ Decode(code) = Length(n, l)
  BY Encodes DEF IsForm, Bytes
<1>2. Decode(code).is = "length" /\ Decode(code).is # "more"
  BY <1>1 DEF Length
<1>3. Decode(e) = Length(n, l)
  BY <1>1, <1>2, DecodeGrows
<1>4. /\ e \in Bytes /\ Len(e) = l + n /\ l \in Nat /\ n \in Nat
  BY <1>1, ConcatProperties, BytesFacts DEF Bytes
<1>5. Decode(e).is = "length" /\ Decode(e).size = l /\ Decode(e).value = n /\ Size(e) = l + n
  BY <1>3 DEF Length, Size
<1>6. Whole(e)
  <2> HIDE DEF e, l, n
  <2>1. QED
    BY <1>4, <1>5 DEF Whole
<1>7. Rest(e, l) = w
  BY <1>1, RestOfFirst DEF Bytes
<1>8. Word(e) = w
  <2>1. Word(e) = SubSeq(e, l + 1, Len(e))
    <3> HIDE DEF e, l, n
    <3>1. QED
      BY <1>4, <1>5 DEF Word
  <2>2. QED
    BY <1>7, <2>1 DEF Rest
<1>9. After(e) = <<>>
  <2>1. Size(e) = Len(e)
    BY <1>4, <1>5
  <2>2. QED
    <3> HIDE DEF e
    <3>1. QED
      BY <1>4, <2>1, RestOfFirst DEF After, Bytes
<1>10. e = EncodeWord(w)
  BY DEF EncodeWord
<1> HIDE DEF e
<1>11. Whole(e \o c) /\ Word(e \o c) = w /\ After(e \o c) = <<>> \o c
  BY <1>4, <1>6, <1>8, <1>9, WholeGrows
<1>12. <<>> \o c = c /\ e \o c \in Bytes
  BY <1>4, ConcatEmptySeq, ConcatProperties DEF Bytes
<1>13. QED
  BY <1>4, <1>10, <1>11, <1>12

LEMMA LengthBytes ==
  ASSUME NEW n \in Nat
  PROVE  EncodeLength(n) \in Seq(Nat)
<1> DEFINE a == n \div K
           b == n \div (K * K)
           d == n \div (K * K * K)
           z == n % K
           y == a % K
           x == b % K
<1>1. a \in Nat /\ b \in Nat /\ d \in Nat /\ x \in Byte /\ y \in Byte /\ z \in Byte
  BY Digits
<1>2. \A v \in Byte : v \in Nat
  BY DEF Byte
<1>3. EncodeLength(n) =
           CASE n < 128 -> <<n>>
             [] 128 <= n /\ n < 16384 -> <<128 + a, z>>
             [] 16384 <= n /\ n < 2097152 -> <<192 + b, y, z>>
             [] 2097152 <= n /\ n < 268435456 -> <<224 + d, x, y, z>>
             [] OTHER -> <<240, d, x, y, z>>
  BY DEF EncodeLength
<1>4. x \in Nat /\ y \in Nat /\ z \in Nat
  BY <1>1, <1>2
<1> HIDE DEF a, b, d, x, y, z
<1>5. /\ <<n>> \in Seq(Nat) /\ <<240, d, x, y, z>> \in Seq(Nat)
      /\ <<128 + a, z>> \in Seq(Nat) /\ <<192 + b, y, z>> \in Seq(Nat)
      /\ <<224 + d, x, y, z>> \in Seq(Nat)
  <2> DEFINE p == 128 + a
             q == 192 + b
             r == 224 + d
  <2>1. p \in Nat /\ q \in Nat /\ r \in Nat
    BY <1>1
  <2> HIDE DEF p, q, r
  <2>2. <<n>> \in Seq(Nat) /\ <<240, d, x, y, z>> \in Seq(Nat) /\ <<p, z>> \in Seq(Nat)
    BY <1>1, <1>4, <2>1
  <2>3. <<q, y, z>> \in Seq(Nat) /\ <<r, x, y, z>> \in Seq(Nat)
    BY <1>1, <1>4, <2>1
  <2>4. QED
    BY <2>2, <2>3 DEF p, q, r
<1>6. CASE n < 128
  BY <1>3, <1>5, <1>6
<1>7. CASE 128 <= n /\ n < 16384
  BY <1>3, <1>5, <1>7
<1>8. CASE 16384 <= n /\ n < 2097152
  BY <1>3, <1>5, <1>8
<1>9. CASE 2097152 <= n /\ n < 268435456
  BY <1>3, <1>5, <1>9
<1>10. CASE 268435456 <= n
  BY <1>3, <1>5, <1>10
<1>11. QED
  BY <1>6, <1>7, <1>8, <1>9, <1>10

LEMMA EncodeUnfolds ==
  \A words \in Seq(Bytes) :
    EncodeSentence[words] =
      IF words = <<>> THEN EncodeLength(0)
      ELSE EncodeWord(Head(words)) \o EncodeSentence[Tail(words)]
<1> DEFINE R == Seq(Nat)
           Step(g, s) == IF s = <<>> THEN EncodeLength(0)
                         ELSE EncodeWord(Head(s)) \o g[Tail(s)]
           F == [s \in Seq(Bytes) |-> [g \in [Seq(Bytes) -> R] |-> Step(g, s)]]
<1>1. ASSUME NEW s \in Seq(Bytes), NEW g \in [Seq(Bytes) -> R] PROVE Step(g, s) \in R
  <2>1. CASE s = <<>>
    BY <2>1, LengthBytes
  <2>2. CASE s # <<>>
    <3> DEFINE w == Head(s)
    <3>1. w \in Bytes /\ Tail(s) \in Seq(Bytes)
      BY <2>2, HeadTailProperties
    <3> HIDE DEF w
    <3>2. w \in Seq(Nat) /\ Len(w) \in Nat
      <4>1. Byte \subseteq Nat
        BY DEF Byte
      <4>2. QED
        BY <3>1, <4>1, SeqMonotonic, LenProperties DEF Bytes
    <3>3. EncodeWord(w) \in Seq(Nat)
      BY <3>2, LengthBytes, ConcatProperties DEF EncodeWord
    <3>4. g[Tail(s)] \in Seq(Nat)
      BY <3>1
    <3>5. EncodeWord(w) \o g[Tail(s)] \in Seq(Nat)
      BY <3>3, <3>4, ConcatProperties
    <3>6. QED
      BY <2>2, <3>5 DEF w
  <2>3. QED
    BY <2>1, <2>2
<1>2. F \in [Seq(Bytes) -> [[Seq(Bytes) -> R] -> R]]
  BY <1>1
<1>3. \A s \in Seq(Bytes), g \in [Seq(Bytes) -> R] : F[s][g] = Step(g, s)
  OBVIOUS
<1>4. \A s \in Seq(Bytes), g, h \in [Seq(Bytes) -> R] :
        (\A t \in Seq(Bytes) : Len(t) < Len(s) => g[t] = h[t]) => F[s][g] = F[s][h]
  <2> SUFFICES ASSUME NEW s \in Seq(Bytes), NEW g \in [Seq(Bytes) -> R],
                      NEW h \in [Seq(Bytes) -> R],
                      \A t \in Seq(Bytes) : Len(t) < Len(s) => g[t] = h[t]
               PROVE  Step(g, s) = Step(h, s)
    BY <1>3
  <2>1. CASE s = <<>>
    BY <2>1
  <2>2. CASE s # <<>>
    <3>1. Tail(s) \in Seq(Bytes) /\ Len(Tail(s)) < Len(s)
      BY <2>2, HeadTailProperties, LenProperties
    <3>2. QED
      BY <3>1
  <2>3. QED
    BY <2>1, <2>2
<1>5. PICK f \in [Seq(Bytes) -> R] : \A s \in Seq(Bytes) : f[s] = F[s][f]
  <2> HIDE DEF F, R
  <2>1. Descends(F, Bytes, R)
    BY <1>2, <1>4 DEF Descends
  <2>2. R # {}
    <3>1. <<>> \in R
      BY EmptySeq DEF R
    <3>2. QED
      BY <3>1
  <2>3. Solution(F, Bytes, R)
    BY <2>1, <2>2, RecursionByLength
  <2>4. QED
    BY <2>3 DEF Solution
<1>6. f = [s \in Seq(Bytes) |-> Step(f, s)]
  BY <1>3, <1>5
<1>7. f = [words \in Seq(Seq(Byte)) |->
             IF words = <<>> THEN EncodeLength(0)
             ELSE EncodeWord(Head(words)) \o f[Tail(words)]]
  BY <1>6 DEF Bytes
<1>8. EncodeSentence = [words \in Seq(Seq(Byte)) |->
             IF words = <<>> THEN EncodeLength(0)
             ELSE EncodeWord(Head(words)) \o EncodeSentence[Tail(words)]]
  BY <1>7 DEF EncodeSentence
<1>9. QED
  <2> USE <1>8
  <2>1. QED
    BY DEF Bytes

(* A sentence as the callers write it.                                     *)
Proper(words) ==
  /\ words \in Seq(Bytes)
  /\ \A i \in 1..Len(words) : words[i] # <<>> /\ Encodable(Len(words[i]))

LEMMA EmptyScans ==
  /\ <<>> \in Bytes /\ ~Whole(<<>>)
  /\ Scan[<<>>].words = <<>> /\ Scan[<<>>].rest = <<>> /\ Scan[<<>>].bad = FALSE
<1>1. <<>> \in Bytes
  BY EmptySeq DEF Bytes
<1>2. Decode(<<>>).is = "more"
  BY DEF Decode
<1>3. ~Whole(<<>>)
  BY <1>2 DEF Whole
<1>4. Scan[<<>>].bad \in BOOLEAN /\ ~Scan[<<>>].bad
  BY <1>1, <1>2, <1>3, ScanOfLeft, ScanTyped
<1>5. QED
  BY <1>1, <1>3, <1>4, ScanOfLeft

LEMMA SentenceScans ==
  ASSUME NEW words \in Seq(Bytes), Proper(words)
  PROVE  /\ EncodeSentence[words] \in Bytes
         /\ Scan[EncodeSentence[words]].words = Append(words, <<>>)
         /\ Scan[EncodeSentence[words]].rest = <<>>
         /\ Scan[EncodeSentence[words]].bad = FALSE
<1> DEFINE Scans(s) == /\ EncodeSentence[s] \in Bytes
                       /\ Scan[EncodeSentence[s]].words = Append(s, <<>>)
                       /\ Scan[EncodeSentence[s]].rest = <<>>
                       /\ Scan[EncodeSentence[s]].bad = FALSE
           T == {s \in Seq(Bytes) : Proper(s) => Scans(s)}
<1>1. ASSUME NEW s \in Seq(Bytes), \A t \in Seq(Bytes) : Len(t) < Len(s) => t \in T
      PROVE  s \in T
  <2> SUFFICES ASSUME Proper(s) PROVE Scans(s)
    OBVIOUS
  <2>1. CASE s = <<>>
    <3> DEFINE e == EncodeWord(<<>>)
    <3>1. <<>> \in Bytes /\ Len(<<>>) = 0 /\ Encodable(0)
      BY EmptyScans DEF Encodable, K
    <3>2. e \in Bytes /\ Whole(e \o <<>>) /\ Word(e \o <<>>) = <<>> /\ After(e \o <<>>) = <<>>
      BY <3>1, WordIsCut
    <3>3. e \o <<>> = e
      <4> HIDE DEF e
      <4>1. QED
        BY <3>2, ConcatEmptySeq DEF Bytes
    <3>4. e = EncodeLength(0)
      <4>1. EncodeLength(0) \in Seq(Byte)
        BY <3>1, Encodes DEF IsForm
      <4>2. EncodeLength(0) \o <<>> = EncodeLength(0)
        BY <4>1, ConcatEmptySeq
      <4>3. QED
        BY <3>1, <4>2 DEF EncodeWord
    <3>5. EncodeSentence[s] = e
      BY <2>1, <3>4, EncodeUnfolds
    <3> HIDE DEF e
    <3>6. Whole(e) /\ Word(e) = <<>> /\ After(e) = <<>>
      BY <3>2, <3>3
    <3>7. Scan[e].words = <<<<>>>> \o <<>> /\ Scan[e].rest = <<>> /\ Scan[e].bad = FALSE
      BY <3>2, <3>6, ScanOfWhole, EmptyScans
    <3>8. <<<<>>>> \o <<>> = <<<<>>>>
      <4>1. <<<<>>>> \in Seq(Bytes)
        BY <3>1
      <4>2. QED
        BY <4>1, ConcatEmptySeq
    <3>9. Append(s, <<>>) = <<<<>>>>
      BY <2>1
    <3>10. QED
      BY <3>2, <3>5, <3>7, <3>8, <3>9
  <2>2. CASE s # <<>>
    <3> DEFINE w == Head(s)
               t == Tail(s)
               c == EncodeSentence[t]
               b == EncodeWord(w) \o c
    <3>1. /\ w \in Bytes /\ t \in Seq(Bytes) /\ Len(t) = Len(s) - 1 /\ Len(s) \in Nat
          /\ Len(s) # 0 /\ w = s[1] /\ \A i \in 1..Len(t) : t[i] = s[i + 1]
      BY <2>2, HeadTailProperties, LenProperties, EmptySeq
    <3>2. Encodable(Len(w))
      BY <3>1 DEF Proper
    <3>3. Proper(t)
      <4> HIDE DEF t
      <4>1. \A i \in 1..Len(t) : i + 1 \in 1..Len(s)
        BY <3>1
      <4>2. QED
        BY <3>1, <4>1 DEF Proper
    <3>4. Scans(t)
      <4>1. Len(t) < Len(s)
        BY <3>1
      <4>2. t \in T
        BY <1>1, <3>1, <4>1
      <4>3. QED
        BY <3>3, <4>2
    <3>5. EncodeSentence[s] = b
      BY <2>2, EncodeUnfolds
    <3>6. b \in Bytes /\ Whole(b) /\ Word(b) = w /\ After(b) = c
      <4>1. c \in Bytes /\ w \in Bytes
        BY <3>1, <3>4
      <4> HIDE DEF w, c
      <4>2. QED
        BY <3>2, <4>1, WordIsCut
    <3>7. Scan[b].words = <<w>> \o Scan[c].words /\ Scan[b].rest = Scan[c].rest
            /\ Scan[b].bad = Scan[c].bad
      <4> HIDE DEF b, c, w
      <4>1. QED
        BY <3>6, ScanOfWhole
    <3>8. <<w>> \o Append(t, <<>>) = Append(s, <<>>)
      <4> DEFINE l == <<w>> \o Append(t, <<>>)
                 r == Append(s, <<>>)
                 a == Append(t, <<>>)
                 k == Len(s)
      <4>1. <<>> \in Bytes
        BY EmptyScans
      <4>2. a \in Seq(Bytes) /\ Len(a) = Len(t) + 1 /\ (\A i \in 1..Len(t) : a[i] = t[i])
              /\ a[Len(t) + 1] = <<>>
        BY <3>1, <4>1, AppendProperties
      <4>3. r \in Seq(Bytes) /\ Len(r) = k + 1 /\ (\A i \in 1..k : r[i] = s[i])
              /\ r[k + 1] = <<>>
        BY <4>1, AppendProperties
      <4> HIDE DEF a, r, w, t, k
      <4>4. <<w>> \in Seq(Bytes) /\ Len(<<w>>) = 1 /\ <<w>>[1] = w
        BY <3>1
      <4>5. /\ <<w>> \o a \in Seq(Bytes) /\ Len(<<w>> \o a) = 1 + Len(a)
            /\ \A i \in 1..1 + Len(a) :
                 (<<w>> \o a)[i] = IF i <= 1 THEN <<w>>[1] ELSE a[i - 1]
        <5> DEFINE x == <<w>>
        <5>1. x \in Seq(Bytes) /\ Len(x) = 1 /\ x[1] = w
          BY <4>4
        <5> HIDE DEF x
        <5>2. /\ x \o a \in Seq(Bytes) /\ Len(x \o a) = Len(x) + Len(a)
              /\ \A i \in 1..Len(x) + Len(a) :
                   (x \o a)[i] = IF i <= Len(x) THEN x[i] ELSE a[i - Len(x)]
          BY <4>2, <5>1, ConcatProperties
        <5>3. Len(a) \in Nat
          BY <4>2, LenProperties
        <5>4. \A i \in 1..1 + Len(a) : i <= 1 => i = 1
          BY <5>3
        <5>5. QED
          BY <5>1, <5>2, <5>4 DEF x
      <4>6. k \in Nat /\ k # 0 /\ Len(t) = k - 1
        BY <3>1 DEF k
      <4>7. ASSUME NEW i \in 1..k + 1 PROVE (<<w>> \o a)[i] = r[i]
        <5>1. CASE i = 1
          <6>1. i \in 1..1 + Len(a) /\ i \in 1..k
            BY <4>2, <4>6, <5>1
          <6>2. QED
            BY <3>1, <4>3, <4>4, <4>5, <5>1, <6>1
        <5>2. CASE i # 1
          <6> DEFINE j == i - 1
          <6>1. i \in 1..1 + Len(a) /\ ~(i <= 1) /\ j \in 1..k /\ j + 1 = i
            BY <4>2, <4>6, <5>2
          <6>2. (<<w>> \o a)[i] = a[j]
            BY <4>5, <6>1
          <6> HIDE DEF j
          <6>3. CASE j = k
            BY <4>2, <4>3, <4>6, <6>1, <6>2, <6>3
          <6>4. CASE j # k
            <7>1. j \in 1..Len(t) /\ i \in 1..k
              BY <4>6, <6>1, <6>4
            <7>2. a[j] = t[j] /\ t[j] = s[i] /\ r[i] = s[i]
              BY <3>1, <4>2, <4>3, <6>1, <7>1
            <7>3. QED
              BY <6>2, <7>2
          <6>5. QED
            BY <6>3, <6>4
        <5>3. QED
          BY <5>1, <5>2
      <4>8. Len(<<w>> \o a) = Len(r) /\ Len(r) = k + 1
        BY <4>2, <4>3, <4>5, <4>6
      <4>9. <<w>> \o a = r
        BY <4>3, <4>5, <4>7, <4>8, SeqEqual
      <4>10. QED
        BY <4>9 DEF a, r, t
    <3>9. Scans(s)
      BY <3>4, <3>5, <3>6, <3>7, <3>8
    <3>10. QED
      BY <3>9
  <2>3. QED
    BY <2>1, <2>2
<1>2. T = Seq(Bytes)
  <2>1. T \in SUBSET Seq(Bytes)
    OBVIOUS
  <2> HIDE DEF T
  <2>2. QED
    BY <1>1, <2>1, ByLength
<1>3. QED
  BY <1>2

-----------------------------------------------------------------------------
(* Where the reader cuts its words: behind the last empty one.             *)
CutAt(words) ==
  LET whole == {i \in 1..Len(words) : words[i] = <<>>}
  IN  IF whole = {} THEN 0 ELSE CHOOSE i \in whole : \A j \in whole : j <= i

LEMMA CutTyped ==
  ASSUME NEW words \in Seq(Bytes)
  PROVE  /\ CutAt(words) \in 0..Len(words)
         /\ \A i \in 1..Len(words) : words[i] = <<>> => i <= CutAt(words)
<1> DEFINE whole == {i \in 1..Len(words) : words[i] = <<>>}
<1>1. Len(words) \in Nat
  BY LenProperties
<1>2. whole \in SUBSET Nat /\ \A i \in whole : i <= Len(words)
  BY <1>1
<1>3. CASE whole = {}
  <2>1. CutAt(words) = 0
    BY <1>3 DEF CutAt
  <2>2. QED
    BY <1>1, <1>3, <2>1
<1>4. CASE whole # {}
  <2>1. \E i \in whole : \A j \in whole : j <= i
    <3> HIDE DEF whole
    <3>1. QED
      BY <1>1, <1>2, <1>4, Greatest
  <2>2. CutAt(words) = CHOOSE i \in whole : \A j \in whole : j <= i
    BY <1>4 DEF CutAt
  <2>3. CutAt(words) \in whole /\ \A j \in whole : j <= CutAt(words)
    <3> HIDE DEF whole
    <3>1. QED
      BY <2>1, <2>2
  <2>4. QED
    BY <1>1, <2>3
<1>5. QED
  BY <1>3, <1>4

-----------------------------------------------------------------------------
(* What is in the reader and on the wire are the rest of what was said.    *)
WireTyped ==
  /\ said \in Seq(Bytes) /\ heard \in Seq(Bytes) /\ wire \in Bytes
  /\ reader \in [buffer : Bytes, current : Seq(Bytes)]
  /\ thrown = FALSE

Closed == said # <<>> => said[Len(said)] = <<>>

Cutting ==
  /\ ~Whole(reader.buffer)
  /\ \A i \in 1..Len(reader.current) : reader.current[i] # <<>>

Coming == Scan[reader.buffer \o wire]

Kept ==
  /\ Coming.rest = <<>> /\ Coming.bad = FALSE
  /\ heard \o (reader.current \o Coming.words) = said

WireInv == WireTyped /\ Closed /\ Cutting /\ Kept

LEMMA WordsAssociate ==
  ASSUME NEW r \in Seq(Bytes), NEW s \in Seq(Bytes), NEW t \in Seq(Bytes)
  PROVE  /\ (r \o s) \o t = r \o (s \o t)
         /\ r \o s \in Seq(Bytes) /\ s \o t \in Seq(Bytes)
BY ConcatAssociative, ConcatProperties

LEMMA BytesAssociate ==
  ASSUME NEW r \in Bytes, NEW s \in Bytes, NEW t \in Bytes
  PROVE  /\ (r \o s) \o t = r \o (s \o t)
         /\ r \o s \in Bytes /\ s \o t \in Bytes
BY ConcatAssociative, ConcatProperties DEF Bytes

LEMMA ReaderTyped ==
  ASSUME WireTyped
  PROVE  /\ reader.buffer \in Bytes /\ reader.current \in Seq(Bytes)
         /\ reader = [buffer |-> reader.buffer, current |-> reader.current]
         /\ reader.buffer \o wire \in Bytes
<1>1. reader.buffer \in Bytes /\ reader.current \in Seq(Bytes)
       /\ reader = [buffer |-> reader.buffer, current |-> reader.current] /\ wire \in Bytes
  BY DEF WireTyped
<1>2. QED
  BY <1>1, ConcatProperties DEF Bytes

LEMMA WireStarts ==
  ASSUME WireInit
  PROVE  WireInv
<1>1. /\ said = <<>> /\ wire = <<>> /\ heard = <<>> /\ thrown = FALSE
      /\ reader = [buffer |-> <<>>, current |-> <<>>]
  BY DEF WireInit, NewReader
<1>2. <<>> \in Bytes /\ <<>> \in Seq(Bytes) /\ Len(<<>>) = 0 /\ <<>> \o <<>> = <<>>
  BY EmptyScans, EmptySeq
<1>3. WireTyped /\ Closed
  BY <1>1, <1>2 DEF WireTyped, Closed
<1>4. reader.buffer = <<>> /\ reader.current = <<>> /\ Coming = Scan[<<>>]
  BY <1>1, <1>2 DEF Coming
<1>5. Cutting /\ Kept
  BY <1>1, <1>2, <1>4, EmptyScans DEF Cutting, Kept
<1>6. QED
  BY <1>3, <1>5 DEF WireInv

LEMMA SayingKeeps ==
  ASSUME WireInv, NEW words \in Sentences, Says(words)
  PROVE  WireInv'
<1> DEFINE b == reader.buffer
           e == EncodeSentence[words]
           x == Append(words, <<>>)
           cut == Coming.words
           cur == reader.current
<1>1. /\ said' = said \o x /\ wire' = wire \o e
      /\ reader' = reader /\ heard' = heard /\ thrown' = thrown
  BY DEF Says
<1>2. WireTyped /\ Closed /\ Cutting /\ Kept
  BY DEF WireInv
<1>3. words \in Seq(Bytes) /\ Proper(words)
  BY WireConstants DEF Proper, Bytes
<1>4. /\ e \in Bytes /\ Scan[e].words = x /\ Scan[e].rest = <<>> /\ Scan[e].bad = FALSE
  BY <1>3, SentenceScans
<1>5. b \in Bytes /\ cur \in Seq(Bytes) /\ b \o wire \in Bytes /\ wire \in Bytes
       /\ said \in Seq(Bytes) /\ heard \in Seq(Bytes)
  BY <1>2, ReaderTyped DEF WireTyped
<1>6. x \in Seq(Bytes) /\ x # <<>> /\ Len(x) = Len(words) + 1 /\ x[Len(words) + 1] = <<>>
       /\ Len(words) \in Nat
  BY <1>3, EmptyScans, AppendProperties, LenProperties
<1>7. cut \in Seq(Bytes)
  BY <1>5, ScanTyped DEF Coming
<1> HIDE DEF b, e, x, cut, cur
<1>8. (b \o wire) \o e = b \o wire' /\ wire' \in Bytes
  BY <1>1, <1>4, <1>5, ConcatAssociative, ConcatProperties DEF Bytes
<1>9. Coming' = Scan[(b \o wire) \o e]
  BY <1>1, <1>8 DEF Coming, b
<1>10. Coming.rest = <<>> /\ Coming.words = cut /\ heard \o (cur \o cut) = said
  BY <1>2 DEF Kept, cut, cur
<1>11. <<>> \o e = e
  BY <1>4, ConcatEmptySeq DEF Bytes
<1>12. Coming'.words = cut \o x /\ Coming'.rest = <<>> /\ Coming'.bad = FALSE
  <2> DEFINE a == b \o wire
  <2>1. a \in Bytes /\ Scan[a].words = cut /\ Scan[a].rest = <<>>
    BY <1>5, <1>10 DEF Coming, b
  <2> HIDE DEF a
  <2>2. /\ Scan[a \o e].words = cut \o Scan[e].words
        /\ Scan[a \o e].rest = Scan[e].rest /\ Scan[a \o e].bad = Scan[e].bad
    <3>1. a \in Bytes /\ e \in Bytes
      BY <1>4, <2>1
    <3>2. /\ Scan[a \o e].words = Scan[a].words \o Scan[Scan[a].rest \o e].words
          /\ Scan[a \o e].rest = Scan[Scan[a].rest \o e].rest
          /\ Scan[a \o e].bad = Scan[Scan[a].rest \o e].bad
      BY <3>1, Streaming
    <3>3. QED
      BY <1>11, <2>1, <3>2
  <2>3. Coming' = Scan[a \o e]
    BY <1>9 DEF a
  <2>4. QED
    BY <1>4, <2>2, <2>3
<1>13. heard \o (cur \o (cut \o x)) = said \o x
  <2>1. cur \o (cut \o x) = (cur \o cut) \o x
    <3>1. cur \in Seq(Bytes) /\ cut \in Seq(Bytes) /\ x \in Seq(Bytes)
      BY <1>5, <1>6, <1>7
    <3>2. (cur \o cut) \o x = cur \o (cut \o x)
      BY <3>1, WordsAssociate
    <3>3. QED
      BY <3>2
  <2>2. cur \o cut \in Seq(Bytes)
    BY <1>5, <1>7, ConcatProperties
  <2>3. heard \o ((cur \o cut) \o x) = (heard \o (cur \o cut)) \o x
    <3> DEFINE y == cur \o cut
    <3>1. heard \in Seq(Bytes) /\ y \in Seq(Bytes) /\ x \in Seq(Bytes)
      BY <1>5, <1>6, <2>2
    <3> HIDE DEF y
    <3>2. (heard \o y) \o x = heard \o (y \o x)
      BY <3>1, WordsAssociate
    <3>3. QED
      BY <3>2 DEF y
  <2>4. QED
    BY <1>10, <2>1, <2>3
<1>14. Kept'
  BY <1>1, <1>12, <1>13 DEF Kept, cur
<1>15. said' \in Seq(Bytes) /\ Len(said') = Len(said) + Len(x) /\ Len(said) \in Nat
        /\ said'[Len(said) + Len(x)] = x[Len(x)]
  <2> DEFINE k == Len(said)
             l == Len(x)
             i == k + l
  <2>1. k \in Nat /\ l \in Nat /\ l # 0 /\ i \in 1..k + l /\ ~(i <= k) /\ i - k = l
    <3>1. k \in Nat /\ l \in Nat
      BY <1>5, <1>6, LenProperties
    <3>2. l # 0
      BY <1>6
    <3>3. QED
      BY <3>1, <3>2
  <2>2. said \o x \in Seq(Bytes) /\ Len(said \o x) = k + l
         /\ \A m \in 1..k + l : (said \o x)[m] = IF m <= k THEN said[m] ELSE x[m - k]
    BY <1>5, <1>6, ConcatProperties
  <2>3. (said \o x)[i] = x[l]
    <3> HIDE DEF i, k, l
    <3>1. QED
      BY <2>1, <2>2
  <2>4. QED
    BY <1>1, <2>1, <2>2, <2>3
<1>16. Closed'
  BY <1>6, <1>15 DEF Closed
<1>17. WireTyped' /\ Cutting'
  BY <1>1, <1>2, <1>8, <1>15 DEF WireTyped, Cutting
<1>18. QED
  BY <1>14, <1>16, <1>17 DEF WireInv

LEMMA DeliveringKeeps ==
  ASSUME WireInv, NEW n \in ChunkSizes, Delivers(n)
  PROVE  WireInv'
<1> DEFINE b == reader.buffer
           cur == reader.current
           chunk == SubSeq(wire, 1, n)
           late == Rest(wire, n)
           new == b \o chunk
           s == Scan[new]
           words == cur \o s.words
           at == CutAt(words)
           out == SubSeq(words, 1, at)
           more == Rest(words, at)
           t == Scan[s.rest \o late]
<1>1. WireTyped /\ Closed /\ Cutting /\ Kept
  BY DEF WireInv
<1>2. /\ b \in Bytes /\ cur \in Seq(Bytes) /\ wire \in Bytes
      /\ said \in Seq(Bytes) /\ heard \in Seq(Bytes)
  BY <1>1, ReaderTyped DEF WireTyped
<1>3. n \in 0..Len(wire)
  <2>1. Len(wire) \in Nat /\ n \in Nat /\ n <= Len(wire)
    BY <1>2, WireConstants, BytesFacts DEF Delivers
  <2>2. QED
    BY <2>1
<1>4. chunk \in Bytes /\ late \in Bytes /\ wire = chunk \o late
  BY <1>2, <1>3, RestTyped DEF Bytes
<1>5. PushRaw(reader, chunk) = [reader |-> [buffer |-> s.rest, current |-> more],
                                out |-> out, bad |-> s.bad]
  BY DEF PushRaw, CutAt
<1>6. /\ said' = said /\ wire' = late
      /\ reader' = [buffer |-> s.rest, current |-> more]
      /\ heard' = (IF s.bad THEN heard ELSE heard \o out)
      /\ thrown' = s.bad
  <2>1. /\ said' = said /\ wire' = late
        /\ reader' = PushRaw(reader, chunk).reader
        /\ heard' = (IF PushRaw(reader, chunk).bad THEN heard
                     ELSE heard \o PushRaw(reader, chunk).out)
        /\ thrown' = PushRaw(reader, chunk).bad
    BY DEF Delivers
  <2> HIDE DEF chunk, late, s, words, out, more
  <2>2. QED
    BY <1>5, <2>1
<1>7. new \in Bytes /\ new \o late = b \o wire
  <2> HIDE DEF chunk, late
  <2>1. new \in Bytes
    BY <1>2, <1>4, ConcatProperties DEF Bytes
  <2>2. (b \o chunk) \o late = b \o (chunk \o late)
    <3>1. b \in Bytes /\ chunk \in Bytes /\ late \in Bytes
      BY <1>2, <1>4
    <3> HIDE DEF b
    <3>2. QED
      BY <3>1, BytesAssociate
  <2>3. QED
    BY <1>4, <2>1, <2>2
<1> HIDE DEF chunk, late, new
<1>8. s.words \in Seq(Bytes) /\ s.rest \in Bytes /\ s.bad \in BOOLEAN
       /\ ~Whole(s.rest) /\ (s.bad <=> Decode(s.rest).is = "bad")
  BY <1>7, ScanTyped, ScanIsDone
<1>9. Coming = Scan[new \o late]
  BY <1>7 DEF Coming, b
<1>10. Coming.words = s.words \o t.words /\ Coming.rest = t.rest /\ Coming.bad = t.bad
  BY <1>4, <1>7, <1>9, Streaming
<1>11. /\ s.words \o t.words = Coming.words /\ t.rest = <<>> /\ t.bad = FALSE
       /\ heard \o (cur \o (s.words \o t.words)) = said
  BY <1>1, <1>10 DEF Kept, cur
<1> HIDE DEF s, b, cur
<1>12. s.rest \o late \in Bytes
  BY <1>4, <1>8, ConcatProperties DEF Bytes
<1>13. t.words \in Seq(Bytes)
  BY <1>12, ScanTyped
<1>14. s.bad = FALSE
  <2> SUFFICES ASSUME s.bad PROVE FALSE
    BY <1>8
  <2> DEFINE c == s.rest \o late
  <2>1. Decode(s.rest).is = "bad"
    BY <1>8
  <2>2. Decode(c) = Decode(s.rest)
    BY <1>4, <1>8, <2>1, DecodeGrows
  <2>3. Decode(c).is = "bad"
    BY <2>1, <2>2
  <2> HIDE DEF c
  <2>4. ~Whole(c)
    BY <2>3 DEF Whole
  <2>5. Scan[c].bad
    BY <1>12, <2>3, <2>4, ScanOfLeft DEF c
  <2>6. QED
    BY <1>11, <2>5 DEF c
<1> HIDE DEF t
<1>15. words \in Seq(Bytes)
  BY <1>2, <1>8, ConcatProperties
<1> HIDE DEF words
<1>16. at \in 0..Len(words) /\ \A i \in 1..Len(words) : words[i] = <<>> => i <= at
  BY <1>15, CutTyped
<1> HIDE DEF at
<1>17. /\ out \in Seq(Bytes) /\ more \in Seq(Bytes) /\ words = out \o more
       /\ Len(more) = Len(words) - at /\ \A i \in 1..Len(words) - at : more[i] = words[at + i]
  BY <1>15, <1>16, RestTyped
<1> HIDE DEF out, more
<1>18. \A i \in 1..Len(more) : more[i] # <<>>
  <2> SUFFICES ASSUME NEW i \in 1..Len(more) PROVE more[i] # <<>>
    OBVIOUS
  <2> DEFINE j == at + i
  <2>1. Len(words) \in Nat
    BY <1>15, LenProperties
  <2>2. j \in 1..Len(words) /\ ~(j <= at)
    BY <1>16, <1>17, <2>1
  <2>3. more[i] = words[j]
    BY <1>17
  <2> HIDE DEF j
  <2>4. QED
    BY <1>16, <2>2, <2>3
<1>19. reader'.buffer = s.rest /\ reader'.current = more /\ heard' = heard \o out
        /\ thrown' = FALSE /\ said' = said /\ wire' = late
  BY <1>6, <1>14
<1>20. WireTyped'
  <2>1. heard \o out \in Seq(Bytes)
    BY <1>2, <1>17, ConcatProperties
  <2>2. reader' \in [buffer : Bytes, current : Seq(Bytes)]
    BY <1>6, <1>8, <1>17
  <2>3. QED
    BY <1>2, <1>4, <1>19, <2>1, <2>2 DEF WireTyped
<1>21. Closed' /\ Cutting'
  BY <1>1, <1>8, <1>18, <1>19 DEF Closed, Cutting
<1>22. (heard \o out) \o (more \o t.words) = said
  <2> DEFINE v == t.words
             u == s.words
  <2>1. v \in Seq(Bytes) /\ u \in Seq(Bytes) /\ words = cur \o u
         /\ heard \o (cur \o (u \o v)) = said
    BY <1>8, <1>11, <1>13 DEF words
  <2> HIDE DEF u, v
  <2>2. /\ cur \in Seq(Bytes) /\ heard \in Seq(Bytes) /\ out \in Seq(Bytes)
        /\ more \in Seq(Bytes) /\ words = out \o more
    BY <1>2, <1>17
  <2>3. (cur \o u) \o v = cur \o (u \o v)
    <3>1. cur \in Seq(Bytes) /\ u \in Seq(Bytes) /\ v \in Seq(Bytes)
      BY <2>1, <2>2
    <3>2. QED
      BY <3>1, WordsAssociate
  <2>4. (out \o more) \o v = out \o (more \o v) /\ more \o v \in Seq(Bytes)
    <3>1. out \in Seq(Bytes) /\ more \in Seq(Bytes) /\ v \in Seq(Bytes)
      BY <2>1, <2>2
    <3>2. QED
      BY <3>1, WordsAssociate
  <2> DEFINE y == more \o v
  <2>5. y \in Seq(Bytes)
    BY <2>4
  <2>6. (heard \o out) \o y = heard \o (out \o y)
    <3> HIDE DEF y
    <3>1. QED
      BY <2>2, <2>5, WordsAssociate
  <2>7. out \o y = words \o v
    BY <2>2, <2>4
  <2>8. words \o v = cur \o (u \o v)
    BY <2>1, <2>3
  <2>9. heard \o (words \o v) = said
    BY <2>1, <2>8
  <2>10. (heard \o out) \o y = said
    <3> HIDE DEF y
    <3>1. QED
      BY <2>6, <2>7, <2>9
  <2>11. QED
    BY <2>10 DEF v
<1>23. Kept'
  <2>1. Coming' = t
    BY <1>19 DEF Coming, t
  <2>2. QED
    BY <1>11, <1>19, <1>22, <2>1 DEF Kept
<1>24. QED
  BY <1>20, <1>21, <1>23 DEF WireInv

LEMMA WireInductive ==
  WireInv /\ [WireNext]_wireVars => WireInv'
<1>1. ASSUME WireInv, WireNext PROVE WireInv'
  BY <1>1, SayingKeeps, DeliveringKeeps DEF WireNext
<1>2. ASSUME WireInv, UNCHANGED wireVars PROVE WireInv'
  <2>1. /\ said' = said /\ wire' = wire /\ reader' = reader /\ heard' = heard
        /\ thrown' = thrown
    BY <1>2 DEF wireVars
  <2>2. Coming' = Coming
    BY <2>1 DEF Coming
  <2>3. QED
    BY <1>2, <2>1, <2>2 DEF WireInv, WireTyped, Closed, Cutting, Kept
<1>3. QED
  BY <1>1, <1>2

(* What is heard is a beginning of what was said.                          *)
LEMMA HeardInOrder ==
  ASSUME WireInv
  PROVE  ChunksDoNotMatter
<1> DEFINE b == reader.buffer
           cur == reader.current
           cut == Coming.words
           more == cur \o cut
<1>1. WireTyped /\ Closed /\ Cutting /\ Kept
  BY DEF WireInv
<1>2. /\ b \in Bytes /\ cur \in Seq(Bytes) /\ wire \in Bytes /\ b \o wire \in Bytes
      /\ said \in Seq(Bytes) /\ heard \in Seq(Bytes) /\ thrown = FALSE
      /\ reader = [buffer |-> b, current |-> cur]
  BY <1>1, ReaderTyped DEF WireTyped
<1>3. cut \in Seq(Bytes)
  BY <1>2, ScanTyped DEF Coming
<1>4. said = heard \o more
  BY <1>1 DEF Kept
<1> HIDE DEF cut
<1>5. more \in Seq(Bytes)
  BY <1>2, <1>3, ConcatProperties
<1>6. heard = SubSeq(said, 1, Len(heard))
  <2> DEFINE k == Len(heard)
             p == SubSeq(said, 1, k)
  <2> HIDE DEF more
  <2>1. /\ k \in Nat /\ Len(more) \in Nat /\ Len(said) = k + Len(more)
        /\ \A i \in 1..k + Len(more) : said[i] = IF i <= k THEN heard[i] ELSE more[i - k]
    BY <1>2, <1>4, <1>5, ConcatProperties, LenProperties
  <2>2. k \in 0..Len(said)
    BY <2>1
  <2>3. \A i \in 1..k : said[i] = heard[i]
    BY <2>1
  <2>4. p \in Seq(Bytes) /\ Len(p) = k /\ \A i \in 1..k : p[i] = said[i]
    <3>1. \A i \in 1..k : said[i] \in Bytes
      BY <1>2, <2>3, ElementOfSeq
    <3>2. 1 \in Int /\ k \in Int
      BY <2>1
    <3> HIDE DEF k
    <3>3. p \in Seq(Bytes) /\ Len(p) = (IF 1 <= k THEN k - 1 + 1 ELSE 0)
            /\ \A i \in 1..k - 1 + 1 : p[i] = said[1 + i - 1]
      BY <3>1, <3>2, SubSeqProperties
    <3>4. QED
      BY <2>1, <3>3
  <2> HIDE DEF p
  <2>5. heard = p
    BY <1>2, <2>3, <2>4, SeqEqual
  <2>6. QED
    BY <2>5 DEF p
<1>7. DOMAIN cur = 1..Len(cur)
  BY <1>2, LenProperties
<1>8. Scan[b].words = <<>>
  BY <1>1, <1>2, ScanOfLeft DEF Cutting
<1>9. ASSUME wire = <<>> PROVE heard = said /\ reader = NewReader
  <2>1. b \o wire = b
    BY <1>2, <1>9, ConcatEmptySeq DEF Bytes
  <2>2. Coming = Scan[b]
    BY <2>1 DEF Coming
  <2>3. cut = <<>> /\ b = <<>>
    <3>1. Coming.rest = <<>>
      BY <1>1 DEF Kept
    <3>2. Scan[b].rest = b
      BY <1>1, <1>2, ScanOfLeft DEF Cutting
    <3>3. QED
      BY <1>8, <2>2, <3>1, <3>2 DEF cut
  <2>4. said = heard \o cur
    <3>1. cur \o <<>> = cur
      BY <1>2, ConcatEmptySeq
    <3>2. QED
      BY <1>4, <2>3, <3>1
  <2>5. cur = <<>>
    <3> SUFFICES ASSUME cur # <<>> PROVE FALSE
      OBVIOUS
    <3> DEFINE k == Len(heard)
               l == Len(cur)
               i == k + l
    <3>1. k \in Nat /\ l \in Nat /\ l # 0
      BY <1>2, LenProperties, EmptySeq
    <3>2. i \in 1..k + l /\ ~(i <= k) /\ i - k = l /\ l \in 1..l /\ i # 0
      BY <3>1
    <3>3. Len(said) = k + l
          /\ \A j \in 1..k + l : said[j] = IF j <= k THEN heard[j] ELSE cur[j - k]
      BY <1>2, <2>4, ConcatProperties
    <3>4. cur[l] # <<>>
      BY <1>1, <3>2 DEF Cutting
    <3> HIDE DEF i, k, l
    <3>5. said[i] = cur[l]
      BY <3>2, <3>3
    <3>6. Len(said) = i
      BY <3>3 DEF i
    <3>7. said # <<>>
      BY <3>2, <3>6, EmptySeq
    <3>8. QED
      BY <1>1, <3>4, <3>5, <3>6, <3>7 DEF Closed
  <2>6. said = heard
    BY <1>2, <2>4, <2>5, ConcatEmptySeq
  <2>7. QED
    BY <1>2, <2>3, <2>5, <2>6 DEF NewReader
<1>10. \A i \in DOMAIN reader.current : reader.current[i] # <<>>
  BY <1>1, <1>7 DEF Cutting
<1>11. QED
  BY <1>2, <1>6, <1>8, <1>9, <1>10 DEF ChunksDoNotMatter

(* Whatever is said, and however TCP cuts the bytes into chunks: the reader
   returns the sentences that were said, in order and word for word, holds
   none back whose bytes are all there, and meets no byte it cannot read.  *)
THEOREM WireChunksDoNotMatter == WireSpec => []ChunksDoNotMatter
BY WireStarts, WireInductive, HeardInOrder, PTL DEF WireSpec

(* Every length of Lengths comes back from the wire as it went.            *)
THEOREM WireLengthsSurvive == WireSpec => []LengthsSurvive
<1>1. LengthsSurvive
  BY LengthsComeBack, WireConstants DEF LengthsSurvive
<1>2. QED
  BY <1>1, PTL
=============================================================================
