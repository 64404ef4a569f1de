----------------------------- MODULE CmpProofs -----------------------------
(***************************************************************************)
(* The MessagePack library for every layout of the markers, every width of *)
(* the fields and every backend.                                           *)
(*                                                                         *)
(* The bytes of numbers: a number, also a negative one in two's complement,*)
(* is what its bytes say, and bytes are those of the number they say.  Both*)
(* are defined by recursion over the bytes, so the proofs go by the least  *)
(* counterexample; Values, Powers and Beginnings have the recursion that   *)
(* the definitions choose.                                                 *)
(*                                                                         *)
(* The bytes of objects: Header is what stands before the data of an object*)
(* of a type.  Markers tell the types apart (AfterFixed to AfterExt), and  *)
(* cmp_read_object gives the object whose header a backend returns         *)
(* (ReadsFixed, ReadsField).                                               *)
(***************************************************************************)
EXTENDS Cmp, SequenceTheorems, WellFoundedInduction, TLAPS

-----------------------------------------------------------------------------
(* Induction over the naturals, for a set instead of a predicate.          *)

LEMMA LeastNatural ==
  ASSUME NEW T, T \subseteq Nat, T # {}
  PROVE  \E m \in T : \A k \in T : m <= k
<1>1. PICK m \in T : \A k \in T : ~(<< k, m >> \in OpToRel(<, Nat))
  BY NatLessThanWellFounded, WFMin
<1>2. \A k \in T : ~(k < m)
  BY <1>1 DEF OpToRel
<1> QED
  BY <1>2

LEMMA NatInduct ==
  ASSUME NEW T, 0 \in T, \A n \in Nat : n \in T => n + 1 \in T
  PROVE  Nat \subseteq T
<1>1. SUFFICES ASSUME Nat \ T # {} PROVE FALSE
  OBVIOUS
<1>2. PICK m \in Nat \ T : \A k \in Nat \ T : m <= k
  BY <1>1, LeastNatural
<1>3. m # 0 /\ m - 1 \in Nat
  BY <1>2
<1>4. m - 1 \in T
  BY <1>2, <1>3
<1> QED
  BY <1>2, <1>3, <1>4

-----------------------------------------------------------------------------
(* Arithmetic.                                                             *)

LEMMA Multiples ==
  ASSUME NEW p \in Nat, NEW q \in Nat, q < p, NEW b \in Nat
  PROVE  q * b + b <= p * b
<1>1. PICK d \in Nat : p = q + 1 + d
  <2>1. p - q - 1 \in Nat /\ p = q + 1 + (p - q - 1)
    OBVIOUS
  <2> QED
    BY <2>1
<1>2. (q + 1 + d) * b = q * b + b + d * b
  OBVIOUS
<1>3. d * b \in Nat /\ q * b \in Nat
  OBVIOUS
<1> QED
  BY <1>1, <1>2, <1>3

LEMMA QuotientAndRest ==
  ASSUME NEW q \in Int, NEW b \in Nat \ {0}, NEW r \in 0 .. b - 1
  PROVE  (q * b + r) \div b = q /\ (q * b + r) % b = r
<1>1. PICK m \in Int : m = q * b
  OBVIOUS
<1>2. (m + r) \div b = q
  <2> DEFINE k == (m + r) \div b
  <2>1. k \in Int /\ k * b <= m + r /\ m + r < k * b + b
    OBVIOUS
  <2>2. k < q + 1
    <3>1. SUFFICES ASSUME k >= q + 1 PROVE FALSE
      BY <2>1
    <3>2. k * b >= (q + 1) * b
      BY <2>1, <3>1
    <3> QED
      BY <1>1, <2>1, <3>2
  <2>3. k > q - 1
    <3>1. SUFFICES ASSUME k <= q - 1 PROVE FALSE
      BY <2>1
    <3>2. k * b <= (q - 1) * b
      BY <2>1, <3>1
    <3> QED
      BY <1>1, <2>1, <3>2
  <2> QED
    BY <2>1, <2>2, <2>3
<1>3. (m + r) % b = (m + r) - ((m + r) \div b) * b
  OBVIOUS
<1> QED
  BY <1>1, <1>2, <1>3

LEMMA RestOfSum ==
  ASSUME NEW w \in Int, NEW q \in Int, NEW b \in Nat \ {0}
  PROVE  (w + q * b) % b = w % b
<1>1. w = (w \div b) * b + (w % b) /\ w % b \in 0 .. b - 1 /\ w \div b \in Int
  OBVIOUS
<1>2. PICK k \in Int : k = w \div b
  BY <1>1
<1>3. PICK r \in 0 .. b - 1 : r = w % b
  BY <1>1
<1>4. w + q * b = (k + q) * b + r
  BY <1>1, <1>2, <1>3
<1>5. k + q \in Int
  OBVIOUS
<1>6. ((k + q) * b + r) % b = r
  BY <1>5, QuotientAndRest
<1> QED
  BY <1>3, <1>4, <1>6

-----------------------------------------------------------------------------
(* The layout.                                                             *)

Byte == 0 .. BYTE - 1

LEMMA LayoutFacts ==
  /\ BYTE \in Nat /\ BYTE > 64 /\ BYTE % 2 = 0 /\ BYTE = 2 * (BYTE \div 2)
  /\ W16 \in Nat /\ W32 \in Nat /\ W64 \in Nat
  /\ 1 < W16 /\ W16 < W32 /\ W32 < W64
  /\ FIXARRAY_SIZE \in Nat /\ FIXMAP_SIZE \in Nat /\ FIXSTR_SIZE \in Nat
  /\ FIXMAP_MARKER = BYTE \div 2
  /\ FIXARRAY_MARKER = FIXMAP_MARKER + FIXMAP_SIZE + 1
  /\ FIXSTR_MARKER = FIXARRAY_MARKER + FIXARRAY_SIZE + 1
  /\ NIL_MARKER = FIXSTR_MARKER + FIXSTR_SIZE + 1
  /\ NEGATIVE_FIXNUM_MARKER = NIL_MARKER + 32
  /\ NEGATIVE_FIXNUM_MARKER < BYTE
  /\ MinNfix = NEGATIVE_FIXNUM_MARKER - BYTE
  /\ FIXMAP_MARKER % (FIXMAP_SIZE + 1) = 0
  /\ FIXARRAY_MARKER % (FIXARRAY_SIZE + 1) = 0
  /\ FIXSTR_MARKER % (FIXSTR_SIZE + 1) = 0
<1>1. Len(MarkerOrder) = 32
  BY DEF MarkerOrder
<1>2. /\ BYTE \in Nat /\ BYTE % 2 = 0 /\ BYTE = 2 * (BYTE \div 2) /\ BYTE \div 2 \in Nat
  BY LayoutAssumption DEF LayoutFits
<1> QED
  BY <1>1, <1>2, LayoutAssumption DEF LayoutFits, FIXMAP_MARKER, FIXARRAY_MARKER, FIXSTR_MARKER,
     NIL_MARKER, NEGATIVE_FIXNUM_MARKER, MinNfix

-----------------------------------------------------------------------------
(* How many values n bytes have.                                           *)

\* f has the values up to n.
Powers(f, n) == f = [k \in 0 .. n |-> IF k = 0 THEN 1 ELSE f[k - 1] * BYTE]

LEMMA PowersExist ==
  ASSUME NEW n \in Nat
  PROVE  \E f : Powers(f, n)
<1> DEFINE T == {k \in Nat : \E f : Powers(f, k)}
<1>1. 0 \in T
  <2> DEFINE f == [k \in 0 .. 0 |-> 1]
  <2>1. f = [k \in 0 .. 0 |-> IF k = 0 THEN 1 ELSE f[k - 1] * BYTE]
    OBVIOUS
  <2> QED
    BY <2>1 DEF Powers
<1>2. ASSUME NEW k \in Nat, k \in T
      PROVE  k + 1 \in T
  <2>1. PICK f : f = [i \in 0 .. k |-> IF i = 0 THEN 1 ELSE f[i - 1] * BYTE]
    BY <1>2 DEF Powers
  <2> DEFINE g == [i \in 0 .. k + 1 |-> IF i = k + 1 THEN f[k] * BYTE ELSE f[i]]
  <2>2. g = [i \in 0 .. k + 1 |-> IF i = 0 THEN 1 ELSE g[i - 1] * BYTE]
    BY <2>1
  <2> HIDE DEF g
  <2>3. \E h : Powers(h, k + 1)
    BY <2>2 DEF Powers
  <2> QED
    BY <2>3
<1>3. Nat \subseteq T
  <2> HIDE DEF T
  <2> QED
    BY <1>1, <1>2, NatInduct
<1> QED
  BY <1>3

LEMMA PowersAgree ==
  ASSUME NEW n \in Nat, NEW f, Powers(f, n), NEW g, Powers(g, n + 1)
  PROVE  f[n] = g[n]
<1> DEFINE T == {k \in Nat : k <= n => f[k] = g[k]}
<1>1. /\ \A k \in 0 .. n : f[k] = IF k = 0 THEN 1 ELSE f[k - 1] * BYTE
      /\ \A k \in 0 .. n + 1 : g[k] = IF k = 0 THEN 1 ELSE g[k - 1] * BYTE
  BY Zenon DEF Powers
<1>2. 0 \in T
  BY <1>1
<1>3. ASSUME NEW k \in Nat, k \in T
      PROVE  k + 1 \in T
  BY <1>1, <1>3
<1>4. Nat \subseteq T
  <2> HIDE DEF T
  <2> QED
    BY <1>2, <1>3, NatInduct
<1> QED
  BY <1>4

LEMMA ValuesRecursion ==
  /\ Values[0] = 1
  /\ \A n \in Nat : Values[n + 1] = Values[n] * BYTE
<1> DEFINE A(n) == CHOOSE f : Powers(f, n)
           F == [n \in Nat |-> A(n)[n]]
<1>1. \A n \in Nat : Powers(A(n), n)
  BY PowersExist
<1>2. A(0)[0] = 1
  <2>1. PICK f : f = A(0) /\ Powers(f, 0)
    BY <1>1
  <2>2. f[0] = 1
    BY <2>1 DEF Powers
  <2> QED
    BY <2>1, <2>2
<1>3. ASSUME NEW n \in Nat
      PROVE  A(n + 1)[n + 1] = A(n)[n] * BYTE
  <2>1. Powers(A(n), n) /\ Powers(A(n + 1), n + 1)
    BY <1>1
  <2> HIDE DEF A
  <2>2. A(n)[n] = A(n + 1)[n]
    BY <2>1, PowersAgree
  <2>3. A(n + 1)[n + 1] = A(n + 1)[n] * BYTE
    BY <2>1 DEF Powers
  <2> QED
    BY <2>2, <2>3
<1> HIDE DEF A
<1>4. \A n \in Nat : F[n] = IF n = 0 THEN 1 ELSE F[n - 1] * BYTE
  <2>1. F[0] = 1
    BY <1>2
  <2>2. ASSUME NEW n \in Nat, n # 0 PROVE F[n] = F[n - 1] * BYTE
    <3>1. n - 1 \in Nat /\ (n - 1) + 1 = n
      BY <2>2
    <3> QED
      BY <1>3, <3>1
  <2> QED
    BY <2>1, <2>2
<1>5. F = [n \in Nat |-> IF n = 0 THEN 1 ELSE F[n - 1] * BYTE]
  BY <1>4
<1> HIDE DEF F
<1>6. Values = [n \in Nat |-> IF n = 0 THEN 1 ELSE Values[n - 1] * BYTE]
  BY <1>5 DEF Values
<1>7. Values[0] = 1
  BY <1>6
<1>8. ASSUME NEW n \in Nat PROVE Values[n + 1] = Values[n] * BYTE
  <2>1. n + 1 \in Nat /\ n + 1 # 0 /\ (n + 1) - 1 = n
    OBVIOUS
  <2> QED
    BY <1>6, <2>1
<1> QED
  BY <1>7, <1>8

LEMMA ValuesType ==
  /\ \A n \in Nat : Values[n] \in Nat \ {0}
  /\ Values[1] = BYTE
<1> DEFINE T == {n \in Nat : Values[n] \in Nat \ {0}}
<1>1. 0 \in T
  BY ValuesRecursion
<1>2. ASSUME NEW n \in Nat, n \in T
      PROVE  n + 1 \in T
  <2>1. PICK v \in Nat \ {0} : v = Values[n]
    BY <1>2
  <2>2. v * BYTE \in Nat \ {0}
    BY LayoutFacts
  <2> QED
    BY <2>1, <2>2, ValuesRecursion
<1>3. Nat \subseteq T
  <2> HIDE DEF T
  <2> QED
    BY <1>1, <1>2, NatInduct
<1> QED
  BY <1>3, ValuesRecursion, LayoutFacts

\* More bytes have more values; one more byte at least doubles them, in fact.
LEMMA ValuesGrow ==
  ASSUME NEW m \in Nat, NEW n \in Nat, m < n
  PROVE  Values[m] * BYTE <= Values[n]
<1> DEFINE T == {d \in Nat : Values[m] * BYTE <= Values[m + 1 + d]}
<1>1. 0 \in T
  <2>1. Values[m + 1] = Values[m] * BYTE /\ Values[m + 1] \in Nat
    BY ValuesRecursion, ValuesType
  <2> QED
    BY <2>1
<1>2. ASSUME NEW d \in Nat, d \in T
      PROVE  d + 1 \in T
  <2> DEFINE k == m + 1 + d
  <2>1. /\ k \in Nat /\ Values[k + 1] = Values[k] * BYTE
        /\ Values[k] \in Nat /\ Values[k + 1] \in Nat /\ Values[m] * BYTE <= Values[k]
    BY <1>2, ValuesRecursion, ValuesType
  <2>2. PICK v \in Nat : v = Values[k]
    BY <2>1
  <2>3. v <= v * BYTE
    BY LayoutFacts
  <2>4. PICK u \in Nat : u = Values[m] * BYTE
    BY ValuesType, LayoutFacts
  <2>5. u <= Values[k + 1] /\ k + 1 = m + 1 + (d + 1)
    BY <2>1, <2>2, <2>3, <2>4
  <2> QED
    BY <2>4, <2>5
<1>3. Nat \subseteq T
  <2> HIDE DEF T
  <2> QED
    BY <1>1, <1>2, NatInduct
<1>4. n - m - 1 \in Nat /\ m + 1 + (n - m - 1) = n
  OBVIOUS
<1> QED
  BY <1>3, <1>4

\* Half of the values of a field with bytes.
LEMMA ValuesEven ==
  ASSUME NEW n \in Nat \ {0}
  PROVE  Values[n] \div 2 \in Nat \ {0} /\ Values[n] = 2 * (Values[n] \div 2)
<1>1. n - 1 \in Nat /\ (n - 1) + 1 = n
  OBVIOUS
<1>2. PICK v \in Nat \ {0} : v = Values[n - 1] /\ Values[n] = v * BYTE
  BY <1>1, ValuesRecursion, ValuesType
<1>3. PICK h \in Nat : h # 0 /\ BYTE = 2 * h
  BY LayoutFacts
<1>4. v * h \in Nat \ {0} /\ v * BYTE = 2 * (v * h)
  BY <1>3
<1>5. PICK w \in Nat \ {0} : w = v * h
  BY <1>4
<1>6. Values[n] = 2 * w
  BY <1>2, <1>4, <1>5
<1> QED
  BY <1>6

-----------------------------------------------------------------------------
(* A number and its bytes.                                                 *)

\* f has the number that every beginning of the bytes is.
Beginnings(f, bytes) ==
  f = [k \in 0 .. Len(bytes) |-> IF k = 0 THEN 0 ELSE f[k - 1] * BYTE + bytes[k]]

LEMMA BeginningsExist ==
  ASSUME NEW bytes, Len(bytes) \in Nat
  PROVE  \E f : Beginnings(f, bytes)
<1> DEFINE A(f, k) == f = [i \in 0 .. k |-> IF i = 0 THEN 0 ELSE f[i - 1] * BYTE + bytes[i]]
           T == {k \in Nat : \E f : A(f, k)}
<1>1. 0 \in T
  <2> DEFINE f == [k \in 0 .. 0 |-> 0]
  <2>1. A(f, 0)
    OBVIOUS
  <2> QED
    BY <2>1
<1>2. ASSUME NEW k \in Nat, k \in T
      PROVE  k + 1 \in T
  <2>1. PICK f : A(f, k)
    BY <1>2
  <2> DEFINE g == [i \in 0 .. k + 1 |-> IF i = k + 1 THEN f[k] * BYTE + bytes[k + 1] ELSE f[i]]
  <2>2. A(g, k + 1)
    BY <2>1
  <2> HIDE DEF g, A
  <2>3. \E h : A(h, k + 1)
    BY <2>2
  <2> QED
    BY <2>3
<1>3. Nat \subseteq T
  <2> HIDE DEF T
  <2> QED
    BY <1>1, <1>2, NatInduct
<1>4. \E f : A(f, Len(bytes))
  BY <1>3
<1> QED
  BY <1>4 DEF Beginnings

LEMMA NumberRecursion ==
  ASSUME NEW bytes, Len(bytes) \in Nat
  PROVE  \E f : /\ f[0] = 0 /\ Number(bytes) = f[Len(bytes)]
                /\ \A k \in 1 .. Len(bytes) : f[k] = f[k - 1] * BYTE + bytes[k]
<1> DEFINE f == CHOOSE f : Beginnings(f, bytes)
<1>1. Beginnings(f, bytes)
  BY BeginningsExist
<1>2. Number(bytes) = f[Len(bytes)]
  BY DEF Number, Beginnings
<1> HIDE DEF f
<1>3. f = [k \in 0 .. Len(bytes) |-> IF k = 0 THEN 0 ELSE f[k - 1] * BYTE + bytes[k]]
  BY <1>1 DEF Beginnings
<1>4. f[0] = 0 /\ \A k \in 1 .. Len(bytes) : f[k] = f[k - 1] * BYTE + bytes[k]
  BY <1>3
<1> QED
  BY <1>2, <1>4

(***************************************************************************)
(* A number that has as few values as n bytes have is the number its n     *)
(* bytes are; and what n bytes are has these n bytes.                      *)
(***************************************************************************)
LEMMA BigEndianType ==
  ASSUME NEW v \in Int, NEW n \in Nat
  PROVE  /\ BigEndian(v, n) \in Seq(Byte) /\ Len(BigEndian(v, n)) = n
         /\ \A i \in 1 .. n : BigEndian(v, n)[i] = (v \div Values[n - i]) % BYTE
<1>1. ASSUME NEW i \in 1 .. n
      PROVE  (v \div Values[n - i]) % BYTE \in Byte
  <2>1. PICK p \in Nat \ {0} : p = Values[n - i]
    BY ValuesType
  <2>2. v \div p \in Int /\ BYTE \in Nat \ {0}
    BY <2>1, LayoutFacts
  <2> QED
    BY <2>1, <2>2 DEF Byte
<1> DEFINE b == BigEndian(v, n)
<1>2. b = [i \in 1 .. n |-> (v \div Values[n - i]) % BYTE]
  BY DEF BigEndian
<1> HIDE DEF b
<1>3. b \in [1 .. n -> Byte]
  BY <1>1, <1>2
<1>4. b \in Seq(Byte) /\ Len(b) = n
  BY <1>3
<1> QED
  BY <1>2, <1>4 DEF b

\* The n bytes that be16, be32 and be64 (c-msgpack.c:120-220) make of a number below
\* BYTE^n give that number again.
THEOREM NumberOfBigEndian ==
  ASSUME NEW n \in Nat, NEW v \in Int, 0 <= v, v < Values[n]
  PROVE  Number(BigEndian(v, n)) = v
<1> DEFINE b == BigEndian(v, n)
<1>1. Len(b) = n /\ \A i \in 1 .. n : b[i] = (v \div Values[n - i]) % BYTE
  BY BigEndianType
<1> HIDE DEF b
<1>2. PICK f : /\ f[0] = 0 /\ Number(b) = f[n]
               /\ \A k \in 1 .. n : f[k] = f[k - 1] * BYTE + b[k]
  BY <1>1, NumberRecursion
<1> DEFINE T == {k \in Nat : k <= n => f[k] = v \div Values[n - k]}
<1>3. 0 \in T
  <2>1. PICK p \in Nat \ {0} : p = Values[n]
    BY ValuesType
  <2>2. v \div p = 0
    BY <2>1
  <2> QED
    BY <1>2, <2>1, <2>2
<1>4. ASSUME NEW k \in Nat, k \in T, k + 1 <= n
      PROVE  f[k + 1] = v \div Values[n - (k + 1)]
  <2> DEFINE m == n - (k + 1)
  <2>1. PICK p \in Nat \ {0} : p = Values[m]
    BY <1>4, ValuesType
  <2>2. m \in Nat /\ m + 1 = n - k /\ Values[n - k] = p * BYTE
    BY <1>4, <2>1, ValuesRecursion
  <2>3. f[k] = v \div (p * BYTE)
    BY <1>4, <2>2
  <2>4. f[k + 1] = f[k] * BYTE + ((v \div p) % BYTE)
    BY <1>1, <1>2, <1>4, <2>1
  <2>5. v \div (p * BYTE) = (v \div p) \div BYTE /\ BYTE \in Nat \ {0} /\ v \div p \in Nat
    BY LayoutFacts
  <2>6. PICK q \in Nat : q = v \div p
    BY <2>5
  <2>7. (q \div BYTE) * BYTE + (q % BYTE) = q
    BY <2>5
  <2>8. f[k] = q \div BYTE /\ f[k + 1] = f[k] * BYTE + (q % BYTE)
    BY <2>3, <2>4, <2>5, <2>6
  <2> QED
    BY <2>1, <2>6, <2>7, <2>8
<1>5. Nat \subseteq T
  <2>1. \A k \in Nat : k \in T => k + 1 \in T
    BY <1>4
  <2> HIDE DEF T
  <2> QED
    BY <1>3, <2>1, NatInduct
<1>6. f[n] = v \div Values[0]
  BY <1>5
<1> QED
  BY <1>2, <1>6, ValuesRecursion DEF b

\* What the first k bytes are, and what the bytes are less what follows the first k.
LEMMA NumberBounds ==
  ASSUME NEW bytes \in Seq(Byte)
  PROVE  Number(bytes) \in Nat /\ Number(bytes) < Values[Len(bytes)]
<1> DEFINE n == Len(bytes)
<1>1. n \in Nat /\ \A k \in 1 .. n : bytes[k] \in Byte
  OBVIOUS
<1>2. PICK f : /\ f[0] = 0 /\ Number(bytes) = f[n]
               /\ \A k \in 1 .. n : f[k] = f[k - 1] * BYTE + bytes[k]
  BY <1>1, NumberRecursion
<1> DEFINE T == {k \in Nat : k <= n => f[k] \in Nat /\ f[k] < Values[k]}
<1> HIDE DEF n
<1>3. 0 \in T
  BY <1>2, ValuesRecursion
<1>4. ASSUME NEW k \in Nat, k \in T, k + 1 <= n
      PROVE  f[k + 1] \in Nat /\ f[k + 1] < Values[k + 1]
  <2>1. PICK p \in Nat : p = Values[k]
    BY ValuesType
  <2>2. PICK q \in Nat : q = f[k] /\ q < p
    BY <1>1, <1>4, <2>1 DEF n
  <2>3. PICK b \in Nat : b = bytes[k + 1] /\ b <= BYTE - 1
    BY <1>1, <1>4, LayoutFacts DEF Byte
  <2>4. f[k + 1] = q * BYTE + b /\ Values[k + 1] = p * BYTE
    BY <1>2, <1>4, <2>1, <2>2, <2>3, ValuesRecursion
  <2>5. PICK r \in Nat : r = q * BYTE
    BY LayoutFacts
  <2>6. PICK w \in Nat : w = p * BYTE
    BY LayoutFacts
  <2>7. r + BYTE <= w /\ BYTE \in Nat
    BY <2>2, <2>5, <2>6, Multiples, LayoutFacts
  <2> QED
    BY <2>3, <2>4, <2>5, <2>6, <2>7
<1>5. Nat \subseteq T
  <2>1. \A k \in Nat : k \in T => k + 1 \in T
    BY <1>4
  <2> HIDE DEF T
  <2> QED
    BY <1>3, <2>1, NatInduct
<1>6. f[n] \in Nat /\ f[n] < Values[n]
  BY <1>1, <1>5
<1> QED
  BY <1>2, <1>6 DEF n

\* Bytes are those of the number they say: the reader of a number loses nothing
\* that a writer could not restore.
THEOREM BigEndianOfNumber ==
  ASSUME NEW bytes \in Seq(Byte)
  PROVE  BigEndian(Number(bytes), Len(bytes)) = bytes
<1> DEFINE n == Len(bytes)
<1>1. n \in Nat /\ \A k \in 1 .. n : bytes[k] \in Byte
  OBVIOUS
<1>2. PICK f : /\ f[0] = 0 /\ Number(bytes) = f[n]
               /\ \A k \in 1 .. n : f[k] = f[k - 1] * BYTE + bytes[k]
  BY <1>1, NumberRecursion
<1>3. Number(bytes) \in Nat
  BY NumberBounds
<1> DEFINE v == Number(bytes)
           T == {k \in Nat : k <= n => f[n - k] = v \div Values[k]}
<1> HIDE DEF v, n
<1>4. v \in Nat /\ f[n] = v
  BY <1>2, <1>3 DEF v
<1>5. \A k \in 0 .. n : f[k] \in Nat
  <2> DEFINE U == {k \in Nat : k <= n => f[k] \in Nat}
  <2>1. 0 \in U
    BY <1>2
  <2>2. ASSUME NEW k \in Nat, k \in U, k + 1 <= n
        PROVE  f[k + 1] \in Nat
    <3>1. f[k] \in Nat /\ bytes[k + 1] \in Nat /\ BYTE \in Nat
      BY <1>1, <2>2, LayoutFacts DEF Byte
    <3>2. f[k + 1] = f[k] * BYTE + bytes[k + 1]
      BY <1>2, <2>2
    <3> QED
      BY <3>1, <3>2
  <2>3. Nat \subseteq U
    <3>1. \A k \in Nat : k \in U => k + 1 \in U
      BY <2>2
    <3> HIDE DEF U
    <3> QED
      BY <2>1, <3>1, NatInduct
  <2> QED
    BY <2>3, <1>1
<1>6. ASSUME NEW k \in 1 .. n
      PROVE  f[k] \div BYTE = f[k - 1] /\ f[k] % BYTE = bytes[k]
  <2>1. PICK q \in Nat : q = f[k - 1]
    BY <1>1, <1>5
  <2>2. PICK b \in Nat : b = bytes[k] /\ b <= BYTE - 1
    BY <1>1, LayoutFacts DEF Byte
  <2>3. f[k] = q * BYTE + b /\ BYTE \in Nat \ {0}
    BY <1>2, <2>1, <2>2, LayoutFacts
  <2>4. (q * BYTE + b) \div BYTE = q /\ (q * BYTE + b) % BYTE = b
    <3>1. q \in Int /\ BYTE \in Nat \ {0} /\ b \in 0 .. BYTE - 1
      BY <2>2, <2>3
    <3> QED
      BY <3>1, QuotientAndRest, Zenon
  <2> QED
    BY <2>1, <2>2, <2>3, <2>4
<1>7. 0 \in T
  <2>1. v \div 1 = v /\ n - 0 = n
    BY <1>1, <1>4
  <2> QED
    BY <1>4, <2>1, ValuesRecursion
<1>8. ASSUME NEW k \in Nat, k \in T, k + 1 <= n
      PROVE  f[n - (k + 1)] = v \div Values[k + 1]
  <2>1. PICK p \in Nat \ {0} : p = Values[k]
    BY ValuesType
  <2>2. Values[k + 1] = p * BYTE /\ f[n - k] = v \div p
    BY <1>1, <1>8, <2>1, ValuesRecursion
  <2>3. f[n - k] \div BYTE = f[(n - k) - 1] /\ (n - k) - 1 = n - (k + 1)
    BY <1>1, <1>6, <1>8
  <2>4. v \div (p * BYTE) = (v \div p) \div BYTE
    BY <1>4, LayoutFacts
  <2> QED
    BY <2>1, <2>2, <2>3, <2>4
<1>9. Nat \subseteq T
  <2>1. \A k \in Nat : k \in T => k + 1 \in T
    BY <1>8
  <2> HIDE DEF T
  <2> QED
    BY <1>7, <2>1, NatInduct
<1>10. ASSUME NEW i \in 1 .. n
       PROVE  (v \div Values[n - i]) % BYTE = bytes[i]
  <2>1. n - i \in Nat /\ n - i <= n /\ n - (n - i) = i
    BY <1>1
  <2>2. f[i] = v \div Values[n - i]
    BY <1>9, <2>1
  <2> QED
    BY <1>6, <2>2
<1>11. BigEndian(v, n) = [i \in 1 .. n |-> bytes[i]]
  BY <1>10 DEF BigEndian
<1>12. bytes = [i \in 1 .. n |-> bytes[i]]
  BY DEF n
<1> QED
  BY <1>11, <1>12 DEF v, n

-----------------------------------------------------------------------------
(* Signed numbers.                                                         *)

LEMMA ValuesDivide ==
  ASSUME NEW m \in Nat, NEW n \in Nat, m < n
  PROVE  \E q \in Nat : Values[n] = Values[m] * (q * BYTE)
<1> DEFINE T == {d \in Nat : \E q \in Nat : Values[m + 1 + d] = Values[m] * (q * BYTE)}
<1>1. 0 \in T
  <2>1. Values[m + 1] = Values[m] * (1 * BYTE)
    BY ValuesRecursion, LayoutFacts
  <2> QED
    BY <2>1
<1>2. ASSUME NEW d \in Nat, d \in T
      PROVE  d + 1 \in T
  <2> DEFINE k == m + 1 + d
  <2>1. k \in Nat /\ k + 1 = m + 1 + (d + 1) /\ Values[k + 1] = Values[k] * BYTE
    BY ValuesRecursion
  <2>2. PICK q \in Nat : Values[k] = Values[m] * (q * BYTE)
    BY <1>2
  <2>3. PICK p \in Nat : p = Values[m]
    BY ValuesType
  <2>4. (p * (q * BYTE)) * BYTE = p * ((q * BYTE) * BYTE) /\ q * BYTE \in Nat
    BY LayoutFacts
  <2> QED
    BY <2>1, <2>2, <2>3, <2>4
<1>3. Nat \subseteq T
  <2> HIDE DEF T
  <2> QED
    BY <1>1, <1>2, NatInduct
<1>4. n - m - 1 \in Nat /\ m + 1 + (n - m - 1) = n
  OBVIOUS
<1> QED
  BY <1>3, <1>4

\* What n bytes cannot hold does not change them.
LEMMA BigEndianWraps ==
  ASSUME NEW n \in Nat, NEW v \in Int
  PROVE  BigEndian(v + Values[n], n) = BigEndian(v, n)
<1>1. ASSUME NEW i \in 1 .. n
      PROVE  ((v + Values[n]) \div Values[n - i]) % BYTE = (v \div Values[n - i]) % BYTE
  <2>1. n - i \in Nat /\ n - i < n
    OBVIOUS
  <2>2. PICK p \in Nat \ {0} : p = Values[n - i]
    BY <2>1, ValuesType
  <2>3. PICK q \in Nat : Values[n] = p * (q * BYTE)
    BY <2>1, <2>2, ValuesDivide
  <2>4. PICK r \in Nat : r = q * BYTE
    BY LayoutFacts
  <2>5. (v + p * r) \div p = (v \div p) + r
    OBVIOUS
  <2>6. PICK w \in Int : w = v \div p
    OBVIOUS
  <2>7. (w + q * BYTE) % BYTE = w % BYTE
    <3>1. q \in Int /\ BYTE \in Nat \ {0}
      BY LayoutFacts
    <3> QED
      BY <3>1, RestOfSum, Zenon
  <2> QED
    BY <2>2, <2>3, <2>4, <2>5, <2>6, <2>7
<1> QED
  BY <1>1 DEF BigEndian

-----------------------------------------------------------------------------
(* Signed numbers.                                                         *)

\* A negative number is its two's complement in the bytes, and the cast of the
\* reader (c-msgpack.c:2176-2208) gives it back, for every number of n bytes.
THEOREM SignedOfBigEndian ==
  ASSUME NEW n \in Nat \ {0}, NEW v \in Int,
         -(Values[n] \div 2) <= v, v < Values[n] \div 2
  PROVE  AsTwosComplement(Number(BigEndian(v, n)), n) = v
<1>1. PICK h \in Nat \ {0} : h = Values[n] \div 2 /\ Values[n] = 2 * h
  BY ValuesEven
<1>2. CASE 0 <= v
  <2>1. v < Values[n]
    BY <1>1
  <2>2. Number(BigEndian(v, n)) = v
    BY <1>2, <2>1, NumberOfBigEndian
  <2> QED
    BY <1>1, <2>2 DEF AsTwosComplement
<1>3. CASE v < 0
  <2> DEFINE u == v + Values[n]
  <2>1. u \in Int /\ h <= u /\ u < Values[n] /\ 0 <= u
    BY <1>1, <1>3
  <2>2. Number(BigEndian(u, n)) = u
    BY <2>1, NumberOfBigEndian
  <2>3. BigEndian(u, n) = BigEndian(v, n)
    BY BigEndianWraps
  <2>4. AsTwosComplement(u, n) = v
    BY <1>1, <2>1 DEF AsTwosComplement
  <2> HIDE DEF u
  <2> QED
    BY <2>2, <2>3, <2>4
<1> QED
  BY <1>2, <1>3

\* Any bytes, read as a signed number, give one of its C type whose bytes they are.
THEOREM BigEndianOfSigned ==
  ASSUME NEW bytes \in Seq(Byte), bytes # << >>
  PROVE  LET n == Len(bytes)
             v == AsTwosComplement(Number(bytes), n)
         IN /\ v \in Int /\ -(Values[n] \div 2) <= v /\ v < Values[n] \div 2
            /\ BigEndian(v, n) = bytes
<1> DEFINE n == Len(bytes)
           u == Number(bytes)
           v == AsTwosComplement(u, n)
<1>1. n \in Nat \ {0} /\ u \in Nat /\ u < Values[n] /\ BigEndian(u, n) = bytes
  BY NumberBounds, BigEndianOfNumber
<1> HIDE DEF n, u
<1>2. PICK h \in Nat \ {0} : h = Values[n] \div 2 /\ Values[n] = 2 * h
  BY <1>1, ValuesEven
<1>3. CASE u < h
  BY <1>1, <1>2, <1>3 DEF AsTwosComplement, n, u
<1>4. CASE ~(u < h)
  <2>1. v = u - Values[n] /\ v \in Int /\ u = v + Values[n]
    BY <1>1, <1>2, <1>4 DEF AsTwosComplement
  <2> HIDE DEF v
  <2>2. BigEndian(v, n) = BigEndian(u, n)
    BY <1>1, <2>1, BigEndianWraps
  <2>3. -h <= v /\ v < h
    <3>1. PICK w \in Nat : w = Values[n] /\ w = 2 * h
      BY <1>2
    <3> QED
      BY <1>1, <1>4, <2>1, <3>1
  <2> QED
    BY <1>1, <1>2, <2>1, <2>2, <2>3 DEF v, n, u
<1> QED
  BY <1>3, <1>4, <1>1, <1>2

-----------------------------------------------------------------------------
(* Types and their markers.                                                *)

Fixed == {"POSITIVE_FIXNUM", "NEGATIVE_FIXNUM", "FIXMAP", "FIXARRAY", "FIXSTR", "NIL",
          "BOOLEAN"}
Counted == STR \cup BIN \cup ARRAY \cup MAP \cup ToSet(UNSIGNED)
Signed == ToSet(SIGNED)
Real == {"FLOAT", "DOUBLE"}
Marked == Counted \cup Signed \cup Real \cup FIXEXT \cup EXT

LEMMA Types ==
  /\ ToSet(UNSIGNED) = {"UINT8", "UINT16", "UINT32", "UINT64"}
  /\ Signed = {"SINT8", "SINT16", "SINT32", "SINT64"}
  /\ FIXEXT = {"FIXEXT1", "FIXEXT2", "FIXEXT4", "FIXEXT8", "FIXEXT16"}
  /\ EXT = {"EXT8", "EXT16", "EXT32"}
  /\ Counted = {"STR8", "STR16", "STR32", "BIN8", "BIN16", "BIN32", "ARRAY16", "ARRAY32",
                "MAP16", "MAP32", "UINT8", "UINT16", "UINT32", "UINT64"}
  /\ STR = {"STR8", "STR16", "STR32"} /\ BIN = {"BIN8", "BIN16", "BIN32"}
  /\ ARRAY = {"ARRAY16", "ARRAY32"} /\ MAP = {"MAP16", "MAP32"}
<1>1. ToSet(UNSIGNED) = {"UINT8", "UINT16", "UINT32", "UINT64"}
  <2>1. DOMAIN UNSIGNED = 1 .. 4
    BY DEF UNSIGNED
  <2>2. /\ UNSIGNED[1] = "UINT8" /\ UNSIGNED[2] = "UINT16"
        /\ UNSIGNED[3] = "UINT32" /\ UNSIGNED[4] = "UINT64"
    BY DEF UNSIGNED
  <2> QED
    BY <2>1, <2>2 DEF ToSet
<1>2. Signed = {"SINT8", "SINT16", "SINT32", "SINT64"}
  <2>1. DOMAIN SIGNED = 1 .. 4
    BY DEF SIGNED
  <2>2. /\ SIGNED[1] = "SINT8" /\ SIGNED[2] = "SINT16"
        /\ SIGNED[3] = "SINT32" /\ SIGNED[4] = "SINT64"
    BY DEF SIGNED
  <2> QED
    BY <2>1, <2>2 DEF ToSet, Signed
<1>3. FIXEXT = {"FIXEXT1", "FIXEXT2", "FIXEXT4", "FIXEXT8", "FIXEXT16"}
  BY DEF FIXEXT, FixextSize
<1> QED
  BY <1>1, <1>2, <1>3 DEF Counted, EXT, STR, BIN, ARRAY, MAP

LEMMA MarkerOrderIs ==
  /\ DOMAIN MarkerOrder = 1 .. 32
  /\ MarkerOrder[1] = "NIL" /\ MarkerOrder[2] = "UNUSED" /\ MarkerOrder[3] = "FALSE"
  /\ MarkerOrder[4] = "TRUE" /\ MarkerOrder[5] = "BIN8" /\ MarkerOrder[6] = "BIN16"
  /\ MarkerOrder[7] = "BIN32" /\ MarkerOrder[8] = "EXT8" /\ MarkerOrder[9] = "EXT16"
  /\ MarkerOrder[10] = "EXT32" /\ MarkerOrder[11] = "FLOAT" /\ MarkerOrder[12] = "DOUBLE"
  /\ MarkerOrder[13] = "UINT8" /\ MarkerOrder[14] = "UINT16" /\ MarkerOrder[15] = "UINT32"
  /\ MarkerOrder[16] = "UINT64" /\ MarkerOrder[17] = "SINT8" /\ MarkerOrder[18] = "SINT16"
  /\ MarkerOrder[19] = "SINT32" /\ MarkerOrder[20] = "SINT64" /\ MarkerOrder[21] = "FIXEXT1"
  /\ MarkerOrder[22] = "FIXEXT2" /\ MarkerOrder[23] = "FIXEXT4" /\ MarkerOrder[24] = "FIXEXT8"
  /\ MarkerOrder[25] = "FIXEXT16" /\ MarkerOrder[26] = "STR8" /\ MarkerOrder[27] = "STR16"
  /\ MarkerOrder[28] = "STR32" /\ MarkerOrder[29] = "ARRAY16" /\ MarkerOrder[30] = "ARRAY32"
  /\ MarkerOrder[31] = "MAP16" /\ MarkerOrder[32] = "MAP32"
BY DEF MarkerOrder

LEMMA Names ==
  ToSet(MarkerOrder) = Marked \cup {"NIL", "UNUSED", "FALSE", "TRUE"}
<1>1. ASSUME NEW i \in 1 .. 32
      PROVE  MarkerOrder[i] \in Marked \cup {"NIL", "UNUSED", "FALSE", "TRUE"}
  <2>1. \/ i \in {1, 2, 3, 4, 5, 6, 7, 8, 9, 10}
        \/ i \in {11, 12, 13, 14, 15, 16, 17, 18, 19, 20}
        \/ i \in {21, 22, 23, 24, 25, 26, 27, 28, 29, 30, 31, 32}
    OBVIOUS
  <2> QED
    BY <2>1, Types, MarkerOrderIs DEF Marked, Real
<1>2. ASSUME NEW t \in Marked \cup {"NIL", "UNUSED", "FALSE", "TRUE"}
      PROVE  \E i \in 1 .. 32 : MarkerOrder[i] = t
  BY Types, MarkerOrderIs DEF Marked, Real
<1> QED
  BY <1>1, <1>2, MarkerOrderIs DEF ToSet

\* Every marker from NIL on tells its type.
LEMMA MarkerOfType ==
  ASSUME NEW t \in ToSet(MarkerOrder)
  PROVE  /\ Marker[t] \in NIL_MARKER .. NEGATIVE_FIXNUM_MARKER - 1
         /\ MarkerOrder[Marker[t] - NIL_MARKER + 1] = t
         /\ Marker[t] \in Byte
<1> DEFINE k == CHOOSE i \in DOMAIN MarkerOrder : MarkerOrder[i] = t
<1>1. \E i \in DOMAIN MarkerOrder : MarkerOrder[i] = t
  BY DEF ToSet
<1>2. k \in DOMAIN MarkerOrder /\ MarkerOrder[k] = t
  BY <1>1
<1>3. Marker[t] = NIL_MARKER + k - 1
  BY DEF Marker
<1> HIDE DEF k
<1>4. k \in 1 .. 32 /\ NIL_MARKER \in Nat
  <2>1. FIXMAP_MARKER \in Nat
    BY LayoutFacts
  <2> QED
    BY <1>2, <2>1, MarkerOrderIs, LayoutFacts
<1> QED
  BY <1>2, <1>3, <1>4, LayoutFacts DEF Byte

LEMMA TypeOfMarker ==
  ASSUME NEW m \in NIL_MARKER .. NEGATIVE_FIXNUM_MARKER - 1
  PROVE  LET t == MarkerOrder[m - NIL_MARKER + 1]
         IN t \in ToSet(MarkerOrder) /\ Marker[t] = m
<1> DEFINE i == m - NIL_MARKER + 1
           t == MarkerOrder[i]
<1>1. NIL_MARKER \in Nat /\ i \in 1 .. 32
  BY LayoutFacts
<1>2. t \in ToSet(MarkerOrder)
  BY <1>1, MarkerOrderIs DEF ToSet
<1>3. PICK k \in 1 .. 32 : MarkerOrder[k] = t /\ Marker[t] = NIL_MARKER + k - 1
  <2>1. Marker[t] \in NIL_MARKER .. NIL_MARKER + 31 /\ MarkerOrder[Marker[t] - NIL_MARKER + 1] = t
    BY <1>2, MarkerOfType, LayoutFacts
  <2> DEFINE k == Marker[t] - NIL_MARKER + 1
  <2>2. k \in 1 .. 32 /\ Marker[t] = NIL_MARKER + k - 1
    BY <1>1, <2>1
  <2> QED
    BY <2>1, <2>2
<1>4. ASSUME NEW a \in 1 .. 32, NEW b \in 1 .. 32, MarkerOrder[a] = MarkerOrder[b]
      PROVE  a = b
  BY <1>4, MarkerOrderIs
<1>5. k = i
  BY <1>1, <1>3, <1>4
<1> QED
  BY <1>1, <1>2, <1>3, <1>5

-----------------------------------------------------------------------------
(* What an object's header is, and what cmp_read_object makes of it.       *)

\* The numbers of n bytes, signed and unsigned.
Unsigned(n) == 0 .. Values[n] - 1
Twos(n) == -(Values[n] \div 2) .. (Values[n] \div 2) - 1

\* The values an object of type t can have.
Legal(t, v) ==
  IF t = "POSITIVE_FIXNUM" THEN v \in 0 .. FIXMAP_MARKER - 1
  ELSE IF t = "NEGATIVE_FIXNUM" THEN v \in MinNfix .. -1
  ELSE IF t = "FIXMAP" THEN v \in 0 .. FIXMAP_SIZE
  ELSE IF t = "FIXARRAY" THEN v \in 0 .. FIXARRAY_SIZE
  ELSE IF t = "FIXSTR" THEN v \in 0 .. FIXSTR_SIZE
  ELSE IF t = "NIL" THEN v = 0
  ELSE IF t = "BOOLEAN" THEN v \in BOOLEAN
  ELSE IF t \in Counted THEN v \in Unsigned(Width[t])
  ELSE IF t \in Signed THEN v \in Twos(Width[t])
  ELSE IF t \in Real THEN v \in Seq(Byte) /\ Len(v) = Width[t]
  ELSE IF t \in FIXEXT THEN v \in [type : Twos(1), size : {FixextSize[t]}]
  ELSE v \in [type : Twos(1), size : Unsigned(Width[t])]

\* Its first byte.
First(t, v) ==
  IF t = "POSITIVE_FIXNUM" THEN v
  ELSE IF t = "NEGATIVE_FIXNUM" THEN v + BYTE
  ELSE IF t = "FIXMAP" THEN FIXMAP_MARKER + v
  ELSE IF t = "FIXARRAY" THEN FIXARRAY_MARKER + v
  ELSE IF t = "FIXSTR" THEN FIXSTR_MARKER + v
  ELSE IF t = "BOOLEAN" THEN Marker[IF v THEN "TRUE" ELSE "FALSE"]
  ELSE Marker[t]

\* What follows the first byte: nothing, the one field of Size bytes that the
\* value is encoded in, or a length before that field.
Size(t) == IF t \in FIXEXT \cup EXT THEN 1 ELSE Width[t]
Chunk(t, v) ==
  IF t \in Real THEN v
  ELSE BigEndian(IF t \in FIXEXT \cup EXT THEN v.type ELSE v, Size(t))
Header(t, v) ==
  << First(t, v) >> \o (IF t \in EXT THEN BigEndian(v.size, Width[t]) ELSE << >>)
                    \o (IF t \in Fixed THEN << >> ELSE Chunk(t, v))

\* The value that one field is; size is the length before it.
Decoded(t, b, size) ==
  IF t \in Real THEN b
  ELSE IF t \in Counted THEN Number(b)
  ELSE IF t \in Signed THEN AsTwosComplement(Number(b), Width[t])
  ELSE IF t \in FIXEXT THEN [type |-> AsTwosComplement(Number(b), 1), size |-> FixextSize[t]]
  ELSE [type |-> AsTwosComplement(Number(b), 1), size |-> size]

ReadErrors == {"TYPE_MARKER_READING_ERROR", "LENGTH_READING_ERROR", "DATA_READING_ERROR",
               "EXT_TYPE_READING_ERROR"}

LEMMA Widths ==
  /\ \A t \in Marked \ FIXEXT : Width[t] \in Nat \ {0} /\ Width[t] <= W64
  /\ \A t \in Marked : Size(t) \in Nat \ {0} /\ Size(t) <= W64
  /\ Width["UINT8"] = 1 /\ Width["UINT16"] = W16 /\ Width["UINT32"] = W32
  /\ Width["UINT64"] = W64
  /\ Width["SINT8"] = 1 /\ Width["SINT16"] = W16 /\ Width["SINT32"] = W32
  /\ Width["SINT64"] = W64
  /\ Width["STR8"] = 1 /\ Width["STR16"] = W16 /\ Width["STR32"] = W32
  /\ Width["BIN8"] = 1 /\ Width["BIN16"] = W16 /\ Width["BIN32"] = W32
  /\ Width["EXT8"] = 1 /\ Width["EXT16"] = W16 /\ Width["EXT32"] = W32
  /\ Width["ARRAY16"] = W16 /\ Width["ARRAY32"] = W32
  /\ Width["MAP16"] = W16 /\ Width["MAP32"] = W32
  /\ Width["FLOAT"] = W32 /\ Width["DOUBLE"] = W64
<1>1. /\ Width["UINT8"] = 1 /\ Width["UINT16"] = W16 /\ Width["UINT32"] = W32
      /\ Width["UINT64"] = W64
      /\ Width["SINT8"] = 1 /\ Width["SINT16"] = W16 /\ Width["SINT32"] = W32
      /\ Width["SINT64"] = W64
  BY DEF Width
<1>2. /\ Width["STR8"] = 1 /\ Width["STR16"] = W16 /\ Width["STR32"] = W32
      /\ Width["BIN8"] = 1 /\ Width["BIN16"] = W16 /\ Width["BIN32"] = W32
      /\ Width["EXT8"] = 1 /\ Width["EXT16"] = W16 /\ Width["EXT32"] = W32
  BY DEF Width
<1>3. /\ Width["ARRAY16"] = W16 /\ Width["ARRAY32"] = W32
      /\ Width["MAP16"] = W16 /\ Width["MAP32"] = W32
      /\ Width["FLOAT"] = W32 /\ Width["DOUBLE"] = W64
  BY DEF Width
<1>4. \A t \in Marked \ FIXEXT : Width[t] \in {1, W16, W32, W64}
  BY <1>1, <1>2, <1>3, Types DEF Marked, Real
<1>5. \A n \in {1, W16, W32, W64} : n \in Nat \ {0} /\ n <= W64
  BY LayoutFacts
<1>6. \A t \in Marked : Size(t) \in {1, W16, W32, W64}
  BY <1>4 DEF Size, Marked
<1> QED
  BY <1>1, <1>2, <1>3, <1>4, <1>5, <1>6

LEMMA Sorts ==
  /\ Fixed \cap Marked = {}
  /\ Counted \cap (Signed \cup Real \cup FIXEXT \cup EXT) = {}
  /\ Signed \cap (Real \cup FIXEXT \cup EXT) = {}
  /\ Real \cap (FIXEXT \cup EXT) = {}
  /\ FIXEXT \cap EXT = {}
<1> QED
  BY Types DEF Fixed, Marked, Real

\* A number in the low bits of a marker.
LEMMA LowBits ==
  ASSUME NEW m \in Nat, NEW k \in Nat, m % (k + 1) = 0, NEW v \in 0 .. k
  PROVE  (m + v) % (k + 1) = v
<1>1. PICK b \in Nat \ {0} : b = k + 1
  OBVIOUS
<1>2. PICK q \in Int : m = q * b
  <2>1. m = (m \div b) * b + (m % b) /\ m \div b \in Int
    BY <1>1
  <2> QED
    BY <1>1, <2>1
<1>3. (q * b + v) % b = v
  <2>1. v \in 0 .. b - 1
    BY <1>1
  <2> QED
    BY <2>1, QuotientAndRest, Zenon
<1> QED
  BY <1>1, <1>2, <1>3

LEMMA AfterFixed ==
  ASSUME NEW c, NEW t \in Fixed, NEW v, Legal(t, v)
  PROVE  First(t, v) \in Byte /\ ReadAfterMarker(c, First(t, v)) = Object(c, t, v)
<1>1. /\ FIXMAP_MARKER \in Nat /\ FIXARRAY_MARKER \in Nat /\ FIXSTR_MARKER \in Nat
      /\ NIL_MARKER \in Nat /\ MinNfix \in Int
  BY LayoutFacts
<1>2. CASE t = "POSITIVE_FIXNUM"
  <2>1. v \in Nat /\ v < FIXMAP_MARKER /\ First(t, v) = v
    BY <1>1, <1>2 DEF Legal, First
  <2>2. v < NIL_MARKER /\ v \in Byte
    BY <1>1, <2>1, LayoutFacts DEF Byte
  <2> QED
    BY <1>2, <2>1, <2>2 DEF ReadAfterMarker, ReadFix
<1>3. CASE t = "NEGATIVE_FIXNUM"
  <2>1. v \in Int /\ MinNfix <= v /\ v < 0 /\ First(t, v) = v + BYTE
    BY <1>1, <1>3 DEF Legal, First
  <2> DEFINE m == v + BYTE
  <2>2. m \in Byte /\ m >= NEGATIVE_FIXNUM_MARKER /\ ~(m < NIL_MARKER) /\ m - BYTE = v
    BY <1>1, <2>1, LayoutFacts DEF Byte
  <2> HIDE DEF m
  <2>3. ReadAfterMarker(c, m) = Object(c, "NEGATIVE_FIXNUM", v)
    BY <2>2 DEF ReadAfterMarker
  <2> QED
    BY <1>3, <2>1, <2>2, <2>3 DEF m
<1>4. CASE t = "FIXMAP"
  <2>1. v \in 0 .. FIXMAP_SIZE /\ First(t, v) = FIXMAP_MARKER + v
    BY <1>4 DEF Legal, First
  <2>2. (FIXMAP_MARKER + v) % (FIXMAP_SIZE + 1) = v
    BY <1>1, <2>1, LayoutFacts, LowBits
  <2> DEFINE m == FIXMAP_MARKER + v
  <2>3. /\ m \in Byte /\ m < NIL_MARKER /\ ~(m < FIXMAP_MARKER) /\ m < FIXARRAY_MARKER
    BY <1>1, <2>1, LayoutFacts DEF Byte
  <2>4. m % (FIXMAP_SIZE + 1) = v /\ First(t, v) = m
    BY <2>1, <2>2
  <2> HIDE DEF m
  <2> QED
    BY <1>4, <2>3, <2>4 DEF ReadAfterMarker, ReadFix
<1>5. CASE t = "FIXARRAY"
  <2>1. v \in 0 .. FIXARRAY_SIZE /\ First(t, v) = FIXARRAY_MARKER + v
    BY <1>5 DEF Legal, First
  <2>2. (FIXARRAY_MARKER + v) % (FIXARRAY_SIZE + 1) = v
    BY <1>1, <2>1, LayoutFacts, LowBits
  <2> DEFINE m == FIXARRAY_MARKER + v
  <2>3. /\ m \in Byte /\ m < NIL_MARKER /\ ~(m < FIXMAP_MARKER) /\ ~(m < FIXARRAY_MARKER)
        /\ m < FIXSTR_MARKER
    BY <1>1, <2>1, LayoutFacts DEF Byte
  <2>4. m % (FIXARRAY_SIZE + 1) = v /\ First(t, v) = m
    BY <2>1, <2>2
  <2> HIDE DEF m
  <2> QED
    BY <1>5, <2>3, <2>4 DEF ReadAfterMarker, ReadFix
<1>6. CASE t = "FIXSTR"
  <2>1. v \in 0 .. FIXSTR_SIZE /\ First(t, v) = FIXSTR_MARKER + v
    BY <1>6 DEF Legal, First
  <2>2. (FIXSTR_MARKER + v) % (FIXSTR_SIZE + 1) = v
    BY <1>1, <2>1, LayoutFacts, LowBits
  <2> DEFINE m == FIXSTR_MARKER + v
  <2>3. /\ m \in Byte /\ m < NIL_MARKER /\ ~(m < FIXMAP_MARKER) /\ ~(m < FIXARRAY_MARKER)
        /\ ~(m < FIXSTR_MARKER)
    BY <1>1, <2>1, LayoutFacts DEF Byte
  <2>4. m % (FIXSTR_SIZE + 1) = v /\ First(t, v) = m
    BY <2>1, <2>2
  <2> HIDE DEF m
  <2> QED
    BY <1>6, <2>3, <2>4 DEF ReadAfterMarker, ReadFix
<1>7. ASSUME NEW s \in {"NIL", "FALSE", "TRUE"}
      PROVE  /\ Marker[s] \in Byte /\ ~(Marker[s] < NIL_MARKER)
             /\ ~(Marker[s] >= NEGATIVE_FIXNUM_MARKER)
             /\ MarkerOrder[Marker[s] - NIL_MARKER + 1] = s
             /\ s \notin BIN \cup EXT \cup FIXEXT \cup STR \cup ARRAY \cup MAP
  <2>1. /\ Marker[s] \in NIL_MARKER .. NEGATIVE_FIXNUM_MARKER - 1 /\ Marker[s] \in Byte
        /\ MarkerOrder[Marker[s] - NIL_MARKER + 1] = s
    BY Names, MarkerOfType
  <2> QED
    BY <1>1, <2>1, LayoutFacts, Types
<1>8. CASE t = "NIL"
  <2>1. v = 0 /\ First(t, v) = Marker["NIL"]
    BY <1>8 DEF Legal, First
  <2> QED
    BY <1>7, <1>8, <2>1 DEF ReadAfterMarker
<1>9. CASE t = "BOOLEAN"
  <2>1. v \in BOOLEAN /\ First(t, v) = Marker[IF v THEN "TRUE" ELSE "FALSE"]
    BY <1>9 DEF Legal, First
  <2>2. CASE v = TRUE
    <3>1. First(t, v) = Marker["TRUE"]
      BY <2>1, <2>2
    <3> QED
      BY <1>7, <1>9, <2>2, <3>1 DEF ReadAfterMarker
  <2>3. CASE v = FALSE
    <3>1. First(t, v) = Marker["FALSE"]
      BY <2>1, <2>3
    <3> QED
      BY <1>7, <1>9, <2>3, <3>1 DEF ReadAfterMarker
  <2> QED
    BY <2>1, <2>2, <2>3
<1> QED
  BY <1>2, <1>3, <1>4, <1>5, <1>6, <1>8, <1>9 DEF Fixed

\* A byte that is no marker of a type with fields, nor the unused one, is an object.
LEMMA FixedOfByte ==
  ASSUME NEW m \in Byte,
         \A t \in Marked \cup {"UNUSED"} : m # Marker[t]
  PROVE  \E t \in Fixed : \E v : Legal(t, v) /\ First(t, v) = m
<1>1. /\ FIXMAP_MARKER \in Nat /\ FIXARRAY_MARKER \in Nat /\ FIXSTR_MARKER \in Nat
      /\ NIL_MARKER \in Nat /\ NEGATIVE_FIXNUM_MARKER \in Nat /\ MinNfix \in Int /\ m \in Nat
      /\ m < BYTE
  BY LayoutFacts DEF Byte
<1>2. CASE m < FIXMAP_MARKER
  <2>1. Legal("POSITIVE_FIXNUM", m) /\ First("POSITIVE_FIXNUM", m) = m
    BY <1>1, <1>2 DEF Legal, First
  <2> QED
    BY <2>1 DEF Fixed
<1>3. CASE m >= FIXMAP_MARKER /\ m < FIXARRAY_MARKER
  <2>1. m - FIXMAP_MARKER \in 0 .. FIXMAP_SIZE /\ FIXMAP_MARKER + (m - FIXMAP_MARKER) = m
    BY <1>1, <1>3, LayoutFacts
  <2>2. Legal("FIXMAP", m - FIXMAP_MARKER) /\ First("FIXMAP", m - FIXMAP_MARKER) = m
    BY <2>1 DEF Legal, First
  <2> QED
    BY <2>2 DEF Fixed
<1>4. CASE m >= FIXARRAY_MARKER /\ m < FIXSTR_MARKER
  <2>1. m - FIXARRAY_MARKER \in 0 .. FIXARRAY_SIZE /\ FIXARRAY_MARKER + (m - FIXARRAY_MARKER) = m
    BY <1>1, <1>4, LayoutFacts
  <2>2. Legal("FIXARRAY", m - FIXARRAY_MARKER) /\ First("FIXARRAY", m - FIXARRAY_MARKER) = m
    BY <2>1 DEF Legal, First
  <2> QED
    BY <2>2 DEF Fixed
<1>5. CASE m >= FIXSTR_MARKER /\ m < NIL_MARKER
  <2>1. m - FIXSTR_MARKER \in 0 .. FIXSTR_SIZE /\ FIXSTR_MARKER + (m - FIXSTR_MARKER) = m
    BY <1>1, <1>5, LayoutFacts
  <2>2. Legal("FIXSTR", m - FIXSTR_MARKER) /\ First("FIXSTR", m - FIXSTR_MARKER) = m
    BY <2>1 DEF Legal, First
  <2> QED
    BY <2>2 DEF Fixed
<1>6. CASE m >= NIL_MARKER /\ m < NEGATIVE_FIXNUM_MARKER
  <2>1. PICK s \in ToSet(MarkerOrder) : Marker[s] = m
    <3>1. m \in NIL_MARKER .. NEGATIVE_FIXNUM_MARKER - 1
      BY <1>1, <1>6
    <3> QED
      BY <3>1, TypeOfMarker
  <2>2. s \in {"NIL", "FALSE", "TRUE"}
    BY <2>1, Names
  <2>3. CASE s = "NIL"
    <3>1. Legal("NIL", 0) /\ First("NIL", 0) = m
      BY <2>1, <2>3 DEF Legal, First
    <3> QED
      BY <3>1 DEF Fixed
  <2>4. CASE s = "TRUE"
    <3>1. Legal("BOOLEAN", TRUE) /\ First("BOOLEAN", TRUE) = m
      BY <2>1, <2>4 DEF Legal, First
    <3> QED
      BY <3>1 DEF Fixed
  <2>5. CASE s = "FALSE"
    <3>1. Legal("BOOLEAN", FALSE) /\ First("BOOLEAN", FALSE) = m
      BY <2>1, <2>5 DEF Legal, First
    <3> QED
      BY <3>1 DEF Fixed
  <2> QED
    BY <2>2, <2>3, <2>4, <2>5
<1>7. CASE m >= NEGATIVE_FIXNUM_MARKER
  <2>1. m - BYTE \in MinNfix .. -1 /\ (m - BYTE) + BYTE = m
    BY <1>1, <1>7, LayoutFacts
  <2>2. Legal("NEGATIVE_FIXNUM", m - BYTE) /\ First("NEGATIVE_FIXNUM", m - BYTE) = m
    BY <2>1 DEF Legal, First
  <2> QED
    BY <2>2 DEF Fixed
<1> QED
  BY <1>1, <1>2, <1>3, <1>4, <1>5, <1>6, <1>7

LEMMA TakeIs ==
  ASSUME NEW c, NEW n, NEW e, NEW r, r = read(c, n)
  PROVE  /\ r.ok => /\ Take(c, n, e).ok /\ Take(c, n, e).ctx = r.ctx
                    /\ Take(c, n, e).val = r.data
         /\ ~r.ok => ~Take(c, n, e).ok /\ Take(c, n, e) = Failure(r.ctx, e)
BY DEF Take, Value, Failure

LEMMA MarkerIsNoFixed ==
  ASSUME NEW t \in Marked \cup {"UNUSED"}
  PROVE  /\ Marker[t] \in Byte /\ ~(Marker[t] < NIL_MARKER)
         /\ ~(Marker[t] >= NEGATIVE_FIXNUM_MARKER)
         /\ MarkerOrder[Marker[t] - NIL_MARKER + 1] = t
<1>1. /\ Marker[t] \in NIL_MARKER .. NEGATIVE_FIXNUM_MARKER - 1 /\ Marker[t] \in Byte
      /\ MarkerOrder[Marker[t] - NIL_MARKER + 1] = t
  BY Names, MarkerOfType
<1>2. NIL_MARKER \in Nat /\ NEGATIVE_FIXNUM_MARKER \in Nat
  BY LayoutFacts
<1> QED
  BY <1>1, <1>2

LEMMA AfterUnused ==
  ASSUME NEW c
  PROVE  ReadAfterMarker(c, Marker["UNUSED"]) = Failure(c, "INVALID_TYPE_ERROR")
<1>1. "UNUSED" \notin STR \cup BIN \cup ARRAY \cup MAP \cup FIXEXT \cup EXT
  BY Types
<1> QED
  BY <1>1, MarkerIsNoFixed DEF ReadAfterMarker

LEMMA AfterField ==
  ASSUME NEW c, NEW t \in Marked \ EXT, NEW size, NEW r, r = read(c, Size(t))
  PROVE  \E e \in ReadErrors :
           ReadAfterMarker(c, Marker[t]) =
             IF r.ok THEN Object(r.ctx, t, Decoded(t, r.data, size)) ELSE Failure(r.ctx, e)
<1> DEFINE m == Marker[t]
<1>1. /\ ~(m < NIL_MARKER) /\ ~(m >= NEGATIVE_FIXNUM_MARKER)
      /\ MarkerOrder[m - NIL_MARKER + 1] = t
  BY MarkerIsNoFixed
<1> HIDE DEF m
<1>2. t \notin {"NIL", "FALSE", "TRUE", "UNUSED"}
  BY Types DEF Marked, Real
<1>3. CASE t \in BIN
  <2>1. t \in Counted /\ Size(t) = Width[t] /\ t \notin Real
    BY <1>3, Sorts DEF Counted, Size
  <2>2. ReadAfterMarker(c, m) = ReadBinHeader(c, t)
    BY <1>1, <1>2, <1>3, Types DEF ReadAfterMarker
  <2>3. \A b : Decoded(t, b, size) = Number(b)
    BY <2>1 DEF Decoded
  <2>4. ReadBinHeader(c, t) =
          IF r.ok THEN Object(r.ctx, t, Number(r.data)) ELSE Failure(r.ctx, "LENGTH_READING_ERROR")
    BY <2>1, TakeIs DEF TakeObject, ReadBinHeader
  <2> QED
    BY <2>2, <2>3, <2>4 DEF ReadErrors, m
<1>4. CASE t \in FIXEXT
  <2> DEFINE D(b) == [type |-> AsTwosComplement(Number(b), 1), size |-> FixextSize[t]]
  <2>1. Size(t) = 1 /\ t \notin BIN \cup EXT \cup Counted \cup Signed \cup Real
    BY <1>4, Sorts DEF Counted, Size
  <2>2. ReadAfterMarker(c, m) = ReadFixextHeader(c, t)
    BY <1>1, <1>2, <1>4, Types DEF ReadAfterMarker
  <2>3. \A b : Decoded(t, b, size) = D(b)
    BY <1>4, <2>1 DEF Decoded
  <2>4. ReadFixextHeader(c, t) = TakeObject(c, t, 1, "EXT_TYPE_READING_ERROR", D)
    BY DEF ReadFixextHeader
  <2> HIDE DEF D
  <2>5. TakeObject(c, t, 1, "EXT_TYPE_READING_ERROR", D) =
          IF r.ok THEN Object(r.ctx, t, D(r.data)) ELSE Failure(r.ctx, "EXT_TYPE_READING_ERROR")
    BY <2>1, TakeIs DEF TakeObject
  <2> QED
    BY <2>2, <2>3, <2>4, <2>5 DEF ReadErrors, m
<1>5. CASE t \in STR \cup ARRAY \cup MAP
  <2>1. t \in Counted /\ Size(t) = Width[t] /\ t \notin Real \cup BIN \cup EXT \cup FIXEXT
    BY <1>5, Types, Sorts DEF Counted, Size, Real
  <2>2. ReadAfterMarker(c, m) = ReadSizeHeader(c, t)
    BY <1>1, <1>2, <1>5, <2>1 DEF ReadAfterMarker
  <2>3. \A b : Decoded(t, b, size) = Number(b)
    BY <2>1 DEF Decoded
  <2>4. ReadSizeHeader(c, t) =
          IF r.ok THEN Object(r.ctx, t, Number(r.data)) ELSE Failure(r.ctx, "DATA_READING_ERROR")
    BY <2>1, TakeIs DEF TakeObject, ReadSizeHeader
  <2> QED
    BY <2>2, <2>3, <2>4 DEF ReadErrors, m
<1>6. CASE t \in ToSet(UNSIGNED) \cup Signed \cup Real
  <2> DEFINE D(b) == IF t \in {"FLOAT", "DOUBLE"} THEN b
                     ELSE IF t \in ToSet(SIGNED) THEN AsTwosComplement(Number(b), Width[t])
                     ELSE Number(b)
  <2>1. /\ t \notin STR \cup ARRAY \cup MAP \cup BIN \cup EXT \cup FIXEXT /\ Size(t) = Width[t]
        /\ t \in Counted \/ t \in Signed \/ t \in Real
    BY <1>6, Types DEF Size, Real
  <2>2. ReadAfterMarker(c, m) = ReadNumber(c, t)
    BY <1>1, <1>2, <2>1 DEF ReadAfterMarker
  <2>3. \A b : Decoded(t, b, size) = D(b)
    BY <2>1, Sorts DEF Decoded, Real, Signed
  <2>4. ReadNumber(c, t) = TakeObject(c, t, Width[t], "DATA_READING_ERROR", D)
    BY DEF ReadNumber
  <2> HIDE DEF D
  <2>5. TakeObject(c, t, Width[t], "DATA_READING_ERROR", D) =
          IF r.ok THEN Object(r.ctx, t, D(r.data)) ELSE Failure(r.ctx, "DATA_READING_ERROR")
    BY <2>1, TakeIs DEF TakeObject
  <2> QED
    BY <2>2, <2>3, <2>4, <2>5 DEF ReadErrors, m
<1> QED
  BY <1>3, <1>4, <1>5, <1>6 DEF Marked, Counted

\* The object x of type t, read from a length, r, and a byte behind it, q.
ReadInTwo(x, r, q, t) ==
  \E e \in ReadErrors, f \in ReadErrors :
    x = IF ~r.ok THEN Failure(r.ctx, e)
        ELSE IF q.ok THEN Object(q.ctx, t, Decoded(t, q.data, Number(r.data)))
        ELSE Failure(q.ctx, f)

LEMMA AfterExt ==
  ASSUME NEW c, NEW t \in EXT
  PROVE  ReadInTwo(ReadAfterMarker(c, Marker[t]), read(c, Width[t]),
                   read(read(c, Width[t]).ctx, 1), t)
<1> DEFINE m == Marker[t]
           r == read(c, Width[t])
           q == read(r.ctx, 1)
<1> SUFFICES \E e \in ReadErrors, f \in ReadErrors :
               ReadAfterMarker(c, m) =
                 IF ~r.ok THEN Failure(r.ctx, e)
                 ELSE IF q.ok THEN Object(q.ctx, t, Decoded(t, q.data, Number(r.data)))
                 ELSE Failure(q.ctx, f)
  BY DEF ReadInTwo
<1>1. /\ ~(m < NIL_MARKER) /\ ~(m >= NEGATIVE_FIXNUM_MARKER)
      /\ MarkerOrder[m - NIL_MARKER + 1] = t
  BY MarkerIsNoFixed DEF Marked
<1> HIDE DEF m
<1>2. t \notin {"NIL", "FALSE", "TRUE", "UNUSED"} \cup BIN
  BY Types
<1>3. ReadAfterMarker(c, m) = ReadExtHeader(c, t)
  BY <1>1, <1>2, Types DEF ReadAfterMarker
<1> DEFINE D(b) == [type |-> AsTwosComplement(Number(b), 1), size |-> Number(r.data)]
           take == Take(c, Width[t], "LENGTH_READING_ERROR")
<1>4. take = IF r.ok THEN Value(r.ctx, r.data) ELSE Failure(r.ctx, "LENGTH_READING_ERROR")
  BY DEF Take
<1>5. CASE ~r.ok
  <2>1. take = Failure(r.ctx, "LENGTH_READING_ERROR") /\ ~take.ok
    BY <1>4, <1>5 DEF Failure
  <2>2. ReadExtHeader(c, t) = take
    BY <2>1 DEF ReadExtHeader
  <2> QED
    BY <1>3, <1>5, <2>1, <2>2 DEF ReadErrors, m
<1>6. CASE r.ok
  <2>1. take.ok /\ take.ctx = r.ctx /\ take.val = r.data
    BY <1>4, <1>6 DEF Value
  <2>2. ReadExtHeader(c, t) = TakeObject(r.ctx, t, 1, "EXT_TYPE_READING_ERROR", D)
    BY <2>1 DEF ReadExtHeader, TakeObject
  <2>3. \A b : Decoded(t, b, Number(r.data)) = D(b)
    BY Sorts DEF Decoded
  <2> HIDE DEF D
  <2>4. TakeObject(r.ctx, t, 1, "EXT_TYPE_READING_ERROR", D) =
          IF q.ok THEN Object(q.ctx, t, D(q.data)) ELSE Failure(q.ctx, "EXT_TYPE_READING_ERROR")
    BY TakeIs DEF TakeObject
  <2> QED
    BY <1>3, <1>6, <2>2, <2>3, <2>4 DEF ReadErrors, m
<1> QED
  BY <1>5, <1>6

-----------------------------------------------------------------------------
(***************************************************************************)
(* Decoding is the inverse of encoding: what is decoded from the field of  *)
(* an object is its value, and what is decoded from any field is a value   *)
(* that has this field.                                                    *)
(***************************************************************************)
LEMMA OneByteTwos ==
  ASSUME NEW v \in Twos(1)
  PROVE  /\ BigEndian(v, 1) \in Seq(Byte) /\ Len(BigEndian(v, 1)) = 1
         /\ AsTwosComplement(Number(BigEndian(v, 1)), 1) = v
<1>1. Values[1] \div 2 \in Nat /\ v \in Int
  BY ValuesEven DEF Twos
<1>2. -(Values[1] \div 2) <= v /\ v < Values[1] \div 2
  BY <1>1 DEF Twos
<1>3. PICK n \in Nat \ {0} : n = 1
  OBVIOUS
<1>4. BigEndian(v, n) \in Seq(Byte) /\ Len(BigEndian(v, n)) = n
  BY <1>1, BigEndianType
<1>5. AsTwosComplement(Number(BigEndian(v, n)), n) = v
  BY <1>1, <1>2, <1>3, SignedOfBigEndian
<1> QED
  BY <1>3, <1>4, <1>5

LEMMA ChunkIs ==
  ASSUME NEW t \in Marked, NEW v, Legal(t, v), NEW size, t \in EXT => size = v.size
  PROVE  /\ Chunk(t, v) \in Seq(Byte) /\ Len(Chunk(t, v)) = Size(t)
         /\ Decoded(t, Chunk(t, v), size) = v
<1>1. t \notin Fixed
  BY Sorts
<1>2. CASE t \in Counted
  <2>1. /\ t \notin Real \cup FIXEXT \cup EXT /\ v \in Unsigned(Width[t])
        /\ Size(t) = Width[t] /\ Width[t] \in Nat
    BY <1>1, <1>2, Sorts, Widths DEF Legal, Size, Fixed
  <2>2. v \in Int /\ 0 <= v /\ v < Values[Width[t]]
    BY <2>1, ValuesType DEF Unsigned
  <2>3. Chunk(t, v) = BigEndian(v, Width[t])
    BY <2>1 DEF Chunk
  <2>4. Decoded(t, Chunk(t, v), size) = Number(Chunk(t, v))
    BY <1>2, <2>1 DEF Decoded
  <2>5. PICK n \in Nat : n = Width[t]
    BY <2>1
  <2>6. /\ BigEndian(v, n) \in Seq(Byte) /\ Len(BigEndian(v, n)) = n
        /\ Number(BigEndian(v, n)) = v
    BY <2>2, <2>5, BigEndianType, NumberOfBigEndian
  <2> QED
    BY <2>1, <2>3, <2>4, <2>5, <2>6
<1>3. CASE t \in Signed
  <2>1. /\ t \notin Real \cup FIXEXT \cup EXT \cup Counted /\ v \in Twos(Width[t])
        /\ Size(t) = Width[t] /\ Width[t] \in Nat \ {0}
    BY <1>1, <1>3, Sorts, Widths DEF Legal, Size, Fixed
  <2>2. v \in Int /\ -(Values[Width[t]] \div 2) <= v /\ v < Values[Width[t]] \div 2
    BY <2>1, ValuesEven DEF Twos
  <2>3. Chunk(t, v) = BigEndian(v, Width[t])
    BY <2>1 DEF Chunk
  <2>4. Decoded(t, Chunk(t, v), size) = AsTwosComplement(Number(Chunk(t, v)), Width[t])
    BY <1>3, <2>1 DEF Decoded
  <2> QED
    BY <2>1, <2>2, <2>3, <2>4, BigEndianType, SignedOfBigEndian
<1>4. CASE t \in Real
  <2>1. /\ t \notin FIXEXT \cup EXT \cup Counted \cup Signed /\ v \in Seq(Byte)
        /\ Len(v) = Width[t] /\ Size(t) = Width[t]
    BY <1>1, <1>4, Sorts, Widths DEF Legal, Size, Fixed
  <2> QED
    BY <1>4, <2>1 DEF Chunk, Decoded
<1>5. CASE t \in FIXEXT
  <2>1. /\ t \notin Real \cup EXT \cup Counted \cup Signed /\ Size(t) = 1
        /\ v \in [type : Twos(1), size : {FixextSize[t]}]
    BY <1>1, <1>5, Sorts DEF Legal, Size, Fixed
  <2>2. Chunk(t, v) = BigEndian(v.type, 1) /\ v.type \in Twos(1)
    BY <1>5, <2>1 DEF Chunk
  <2>3. Decoded(t, Chunk(t, v), size) =
          [type |-> AsTwosComplement(Number(Chunk(t, v)), 1), size |-> FixextSize[t]]
    BY <1>5, <2>1 DEF Decoded
  <2>4. Decoded(t, Chunk(t, v), size) = [type |-> v.type, size |-> v.size]
    BY <2>1, <2>2, <2>3, OneByteTwos
  <2> QED
    BY <2>1, <2>2, <2>4, OneByteTwos
<1>6. CASE t \in EXT
  <2>1. /\ t \notin Real \cup FIXEXT \cup Counted \cup Signed /\ Size(t) = 1
        /\ v \in [type : Twos(1), size : Unsigned(Width[t])]
    BY <1>1, <1>6, Sorts DEF Legal, Size, Fixed
  <2>2. Chunk(t, v) = BigEndian(v.type, 1) /\ v.type \in Twos(1)
    BY <1>6, <2>1 DEF Chunk
  <2>3. Decoded(t, Chunk(t, v), size) =
          [type |-> AsTwosComplement(Number(Chunk(t, v)), 1), size |-> v.size]
    BY <1>6, <2>1 DEF Decoded
  <2>4. Decoded(t, Chunk(t, v), size) = [type |-> v.type, size |-> v.size]
    BY <2>1, <2>2, <2>3, OneByteTwos
  <2> QED
    BY <2>1, <2>2, <2>4, OneByteTwos
<1> QED
  BY <1>2, <1>3, <1>4, <1>5, <1>6 DEF Marked

LEMMA TwosOfByte ==
  ASSUME NEW b \in Seq(Byte), NEW n \in Nat \ {0}, Len(b) = n
  PROVE  /\ AsTwosComplement(Number(b), n) \in Twos(n)
         /\ BigEndian(AsTwosComplement(Number(b), n), n) = b
<1> DEFINE v == AsTwosComplement(Number(b), n)
<1>1. b # << >>
  OBVIOUS
<1>2. /\ v \in Int /\ -(Values[n] \div 2) <= v /\ v < Values[n] \div 2
      /\ BigEndian(v, n) = b
  BY <1>1, BigEndianOfSigned
<1>3. Values[n] \div 2 \in Nat
  BY ValuesEven
<1> QED
  BY <1>2, <1>3 DEF Twos

LEMMA DecodedIs ==
  ASSUME NEW t \in Marked, NEW b \in Seq(Byte), Len(b) = Size(t), NEW size,
         t \in EXT => size \in Unsigned(Width[t])
  PROVE  /\ Legal(t, Decoded(t, b, size)) /\ Chunk(t, Decoded(t, b, size)) = b
         /\ t \in EXT => Decoded(t, b, size).size = size
<1> DEFINE v == Decoded(t, b, size)
<1>1. t \notin Fixed
  BY Sorts
<1>2. CASE t \in Counted
  <2>1. /\ t \notin Real \cup FIXEXT \cup EXT /\ v = Number(b)
        /\ Size(t) = Width[t] /\ Width[t] \in Nat
    BY <1>1, <1>2, Sorts, Widths DEF Decoded, Size, Fixed
  <2>2. v \in Unsigned(Width[t]) /\ BigEndian(v, Width[t]) = b
    BY <2>1, NumberBounds, BigEndianOfNumber, ValuesType DEF Unsigned
  <2> HIDE DEF v
  <2> QED
    BY <1>1, <1>2, <2>1, <2>2 DEF Chunk, Legal, Fixed, v
<1>3. CASE t \in Signed
  <2>1. /\ t \notin Real \cup FIXEXT \cup EXT \cup Counted
        /\ v = AsTwosComplement(Number(b), Width[t])
        /\ Size(t) = Width[t] /\ Width[t] \in Nat \ {0}
    BY <1>1, <1>3, Sorts, Widths DEF Decoded, Size, Fixed
  <2>2. v \in Twos(Width[t]) /\ BigEndian(v, Width[t]) = b
    BY <2>1, TwosOfByte
  <2> HIDE DEF v
  <2> QED
    BY <1>1, <1>3, <2>1, <2>2 DEF Chunk, Legal, Fixed, v
<1>4. CASE t \in Real
  <2>1. /\ t \notin FIXEXT \cup EXT \cup Counted \cup Signed /\ v = b /\ Size(t) = Width[t]
    BY <1>1, <1>4, Sorts, Widths DEF Decoded, Size, Fixed
  <2> QED
    BY <1>1, <1>4, <2>1 DEF Chunk, Legal, Fixed
<1>5. CASE t \in FIXEXT
  <2>1. /\ t \notin Real \cup EXT \cup Counted \cup Signed /\ Size(t) = 1
        /\ v = [type |-> AsTwosComplement(Number(b), 1), size |-> FixextSize[t]]
    BY <1>1, <1>5, Sorts DEF Decoded, Size, Fixed
  <2>2. v.type \in Twos(1) /\ BigEndian(v.type, 1) = b
    <3>1. PICK n \in Nat \ {0} : n = 1
      OBVIOUS
    <3>2. AsTwosComplement(Number(b), n) \in Twos(n)
          /\ BigEndian(AsTwosComplement(Number(b), n), n) = b
      BY <2>1, <3>1, TwosOfByte
    <3> QED
      BY <2>1, <3>1, <3>2
  <2>3. v \in [type : Twos(1), size : {FixextSize[t]}]
    BY <2>1, <2>2
  <2> HIDE DEF v
  <2> QED
    BY <1>1, <1>5, <2>1, <2>2, <2>3 DEF Chunk, Legal, Fixed, v
<1>6. CASE t \in EXT
  <2>1. /\ t \notin Real \cup FIXEXT \cup Counted \cup Signed /\ Size(t) = 1
        /\ v = [type |-> AsTwosComplement(Number(b), 1), size |-> size]
    BY <1>1, <1>6, Sorts DEF Decoded, Size, Fixed
  <2>2. v.type \in Twos(1) /\ BigEndian(v.type, 1) = b
    <3>1. PICK n \in Nat \ {0} : n = 1
      OBVIOUS
    <3>2. AsTwosComplement(Number(b), n) \in Twos(n)
          /\ BigEndian(AsTwosComplement(Number(b), n), n) = b
      BY <2>1, <3>1, TwosOfByte
    <3> QED
      BY <2>1, <3>1, <3>2
  <2>3. v \in [type : Twos(1), size : Unsigned(Width[t])]
    BY <1>6, <2>1, <2>2
  <2> HIDE DEF v
  <2> QED
    BY <1>1, <1>6, <2>1, <2>2, <2>3 DEF Chunk, Legal, Fixed, v
<1> QED
  BY <1>2, <1>3, <1>4, <1>5, <1>6 DEF Marked

-----------------------------------------------------------------------------
(* Reading an object from its header, and a number from its object.        *)

LEMMA FirstIs ==
  ASSUME NEW t \in Marked, NEW v
  PROVE  First(t, v) = Marker[t] /\ First(t, v) \in Byte
<1>1. t \notin Fixed
  BY Sorts
<1> QED
  BY <1>1, MarkerIsNoFixed DEF First, Fixed

LEMMA CutBeforeObject ==
  ASSUME NEW c, ~read(c, 1).ok
  PROVE  ~cmp_read_object(c).ok
<1>1. ~read_type_marker(c).ok
  BY TakeIs DEF read_type_marker
<1> QED
  BY <1>1 DEF cmp_read_object

LEMMA AfterFirst ==
  ASSUME NEW c, NEW r, r = read(c, 1), r.ok
  PROVE  cmp_read_object(c) = ReadAfterMarker(r.ctx, r.data[1])
<1> DEFINE m == read_type_marker(c)
<1>1. m.ok /\ m.ctx = r.ctx /\ m.val = r.data
  BY TakeIs DEF read_type_marker
<1> QED
  BY <1>1 DEF cmp_read_object

LEMMA ReadsFixed ==
  ASSUME NEW c, NEW t \in Fixed, NEW v, Legal(t, v),
         NEW r, r = read(c, 1), r.ok, r.data = << First(t, v) >>
  PROVE  cmp_read_object(c) = Object(r.ctx, t, v)
BY AfterFirst, AfterFixed

LEMMA ReadsField ==
  ASSUME NEW c, NEW t \in Marked \ EXT, NEW v, Legal(t, v),
         NEW r, r = read(c, 1), r.ok, r.data = << First(t, v) >>,
         NEW q, q = read(r.ctx, Size(t)), q.ok, q.data = Chunk(t, v)
  PROVE  cmp_read_object(c) = Object(q.ctx, t, v)
<1>1. cmp_read_object(c) = ReadAfterMarker(r.ctx, Marker[t])
  BY AfterFirst, FirstIs
<1>2. ReadAfterMarker(r.ctx, Marker[t]) = Object(q.ctx, t, Decoded(t, q.data, 0))
  BY AfterField
<1>3. Decoded(t, q.data, 0) = v
  BY ChunkIs
<1> QED
  BY <1>1, <1>2, <1>3

\* The type in which a number without a sign is written.
UintType(v) ==
  IF v < FIXMAP_MARKER THEN "POSITIVE_FIXNUM"
  ELSE IF v < BYTE THEN "UINT8"
  ELSE IF v < Values[W16] THEN "UINT16"
  ELSE IF v < Values[W32] THEN "UINT32"
  ELSE "UINT64"

LEMMA ValuesOfFields ==
  /\ Values[1] = BYTE /\ BYTE < Values[W16] /\ Values[W16] < Values[W32]
  /\ Values[W32] < Values[W64] /\ 2 * Values[W32] <= Values[W64]
  /\ Values[W16] \in Nat /\ Values[W32] \in Nat /\ Values[W64] \in Nat
<1>1. ASSUME NEW m \in Nat, NEW n \in Nat, m < n
      PROVE  2 * Values[m] <= Values[n] /\ Values[m] < Values[n]
  <2>1. PICK v \in Nat : v = Values[m] /\ v # 0
    BY ValuesType
  <2>2. 2 * v <= v * BYTE /\ v < 2 * v
    <3>1. PICK d \in Nat : BYTE = 2 + d
      <4>1. BYTE - 2 \in Nat /\ BYTE = 2 + (BYTE - 2)
        BY LayoutFacts
      <4> QED
        BY <4>1
    <3>2. v * (2 + d) = 2 * v + v * d /\ v * d \in Nat
      OBVIOUS
    <3> QED
      BY <2>1, <3>1, <3>2
  <2>3. v * BYTE \in Nat /\ Values[n] \in Nat /\ v * BYTE <= Values[n]
    <3>1. v * BYTE \in Nat
      BY LayoutFacts
    <3>2. Values[m] * BYTE <= Values[n] /\ Values[n] \in Nat
      BY <1>1, ValuesGrow, ValuesType
    <3> QED
      BY <2>1, <3>1, <3>2
  <2> QED
    BY <2>1, <2>2, <2>3
<1>2. 1 \in Nat /\ W16 \in Nat /\ W32 \in Nat /\ W64 \in Nat /\ 1 < W16 /\ W16 < W32 /\ W32 < W64
  BY LayoutFacts
<1> QED
  BY <1>1, <1>2, ValuesType

LEMMA UintTypeIs ==
  ASSUME NEW v \in Unsigned(W64)
  PROVE  LET o == [type |-> UintType(v), as |-> v]
         IN /\ UintType(v) \in {"POSITIVE_FIXNUM"} \cup ToSet(UNSIGNED)
            /\ Legal(UintType(v), v)
            /\ AsUnsigned(o, 4) = TRUE
            /\ AsUnsigned(o, 3) = (v < Values[W32])
            /\ cmp_object_is_array(o) = FALSE
<1> DEFINE t == UintType(v)
           o == [type |-> t, as |-> v]
<1>1. /\ v \in Nat /\ v < Values[W64] /\ FIXMAP_MARKER \in Nat /\ FIXMAP_MARKER < BYTE
      /\ BYTE \in Nat
  BY ValuesOfFields, LayoutFacts DEF Unsigned
<1>2. \/ t = "POSITIVE_FIXNUM" /\ v \in 0 .. FIXMAP_MARKER - 1
      \/ t = "UINT8" /\ v \in Unsigned(1)
      \/ t = "UINT16" /\ v \in Unsigned(W16)
      \/ t = "UINT32" /\ v \in Unsigned(W32)
      \/ t = "UINT64" /\ v \in Unsigned(W64) /\ ~(v < Values[W32])
  BY <1>1, ValuesOfFields DEF UintType, Unsigned
<1>3. t # "UINT64" => v < Values[W32]
  BY <1>1, ValuesOfFields, LayoutFacts DEF UintType
<1> HIDE DEF t
<1>4. t \in {"POSITIVE_FIXNUM"} \cup ToSet(UNSIGNED) /\ Legal(t, v)
  <2>1. t = "POSITIVE_FIXNUM" \/ t \in {"UINT8", "UINT16", "UINT32", "UINT64"}
    BY <1>2
  <2>2. CASE t = "POSITIVE_FIXNUM"
    BY <1>2, <2>2 DEF Legal
  <2>3. CASE t \in {"UINT8", "UINT16", "UINT32", "UINT64"}
    <3>1. t \in Counted /\ t \in ToSet(UNSIGNED) /\ t \notin Fixed
      BY <2>3, Types DEF Fixed
    <3>2. v \in Unsigned(Width[t])
      BY <1>2, <2>3, Widths
    <3> QED
      BY <3>1, <3>2 DEF Legal, Fixed
  <2> QED
    BY <2>1, <2>2, <2>3
<1>5. /\ UNSIGNED[1] = "UINT8" /\ UNSIGNED[2] = "UINT16" /\ UNSIGNED[3] = "UINT32"
      /\ UNSIGNED[4] = "UINT64"
  BY DEF UNSIGNED
<1>6. o.type = t
  OBVIOUS
<1> HIDE DEF o
<1>7. AsUnsigned(o, 4)
  BY <1>2, <1>5, <1>6 DEF AsUnsigned, IsUnsigned
<1>8. AsUnsigned(o, 3) <=> t # "UINT64"
  <2>1. 1 .. 3 = {1, 2, 3}
    OBVIOUS
  <2>2. AsUnsigned(o, 3) <=> t \in {"POSITIVE_FIXNUM", "UINT8", "UINT16", "UINT32"}
    BY <1>5, <1>6, <2>1 DEF AsUnsigned, IsUnsigned
  <2> QED
    BY <1>2, <2>2
<1>9. ~cmp_object_is_array(o)
  BY <1>2, <1>6, Types DEF cmp_object_is_array
<1> QED
  BY <1>2, <1>3, <1>4, <1>7, <1>8, <1>9 DEF o, t, AsUnsigned, IsUnsigned, cmp_object_is_array

\* The type in which the size of an array is written.
ArrayType(n) ==
  IF n <= FIXARRAY_SIZE THEN "FIXARRAY" ELSE IF n < Values[W16] THEN "ARRAY16" ELSE "ARRAY32"

LEMMA ArrayTypeIs ==
  ASSUME NEW n \in Unsigned(W32)
  PROVE  /\ ArrayType(n) \in {"FIXARRAY"} \cup ARRAY
         /\ Legal(ArrayType(n), n)
         /\ cmp_object_is_array([type |-> ArrayType(n), as |-> n]) = TRUE
<1> DEFINE t == ArrayType(n)
<1>1. n \in Nat /\ n < Values[W32] /\ FIXARRAY_SIZE \in Nat
  BY ValuesOfFields, LayoutFacts DEF Unsigned
<1>2. \/ t = "FIXARRAY" /\ n \in 0 .. FIXARRAY_SIZE
      \/ t = "ARRAY16" /\ n \in Unsigned(W16)
      \/ t = "ARRAY32" /\ n \in Unsigned(W32)
  BY <1>1, ValuesOfFields DEF ArrayType, Unsigned
<1> HIDE DEF t
<1>3. CASE t = "FIXARRAY"
  BY <1>2, <1>3 DEF Legal, cmp_object_is_array, t
<1>4. CASE t \in {"ARRAY16", "ARRAY32"}
  <2>1. t \in Counted /\ t \in ARRAY /\ t \notin Fixed
    BY <1>4, Types DEF Fixed
  <2>2. n \in Unsigned(Width[t])
    BY <1>2, <1>4, Widths
  <2>3. Legal(t, n)
    BY <2>1, <2>2 DEF Legal, Fixed
  <2> QED
    BY <2>1, <2>3 DEF cmp_object_is_array, t
<1> QED
  BY <1>2, <1>3, <1>4

LEMMA HeaderIs ==
  ASSUME NEW t \in Fixed \cup Marked, NEW v, Legal(t, v)
  PROVE  /\ Header(t, v) \in Seq(Byte) /\ Header(t, v) # << >>
         /\ Header(t, v)[1] = First(t, v) /\ First(t, v) \in Byte
         /\ t \in Fixed => Header(t, v) = << First(t, v) >>
         /\ t \in Marked \ EXT => Header(t, v) = << First(t, v) >> \o Chunk(t, v)
         /\ t \in EXT => /\ BigEndian(v.size, Width[t]) \in Seq(Byte)
                         /\ Header(t, v) = << First(t, v) >> \o BigEndian(v.size, Width[t])
                                                             \o Chunk(t, v)
<1> DEFINE m == First(t, v)
<1>1. m \in Byte
  BY AfterFixed, FirstIs
<1>2. CASE t \in Fixed
  <2>1. t \notin Marked
    BY <1>2, Sorts
  <2>2. Header(t, v) = << m >> \o << >> \o << >>
    BY <1>2, <2>1 DEF Header, Marked
  <2> HIDE DEF m
  <2>3. << m >> \in Seq(Byte) /\ << m >> \o << >> \o << >> = << m >>
    BY <1>1
  <2> QED
    BY <1>1, <1>2, <2>1, <2>2, <2>3 DEF m, Marked
<1>3. CASE t \in Marked \ EXT
  <2>1. t \notin Fixed
    BY <1>3, Sorts
  <2> DEFINE b == Chunk(t, v)
  <2>2. b \in Seq(Byte) /\ Header(t, v) = << m >> \o << >> \o b
    BY <1>3, <2>1, ChunkIs DEF Header
  <2> HIDE DEF b, m
  <2>3. << m >> \in Seq(Byte) /\ << m >> \o << >> = << m >>
    BY <1>1
  <2>4. /\ << m >> \o b \in Seq(Byte) /\ Len(<< m >> \o b) = 1 + Len(b)
        /\ (<< m >> \o b)[1] = m
    BY <1>1, <2>2
  <2>5. << m >> \o b # << >>
    BY <2>2, <2>4
  <2> QED
    BY <1>1, <1>3, <2>1, <2>2, <2>3, <2>4, <2>5 DEF m, b
<1>4. CASE t \in EXT
  <2>1. t \notin Fixed /\ t \in Marked
    BY <1>4, Sorts DEF Marked
  <2> DEFINE b == Chunk(t, v)
             l == BigEndian(v.size, Width[t])
  <2>2. v.size \in Int /\ Width[t] \in Nat
    <3>1. t \notin Counted \cup Signed \cup Real \cup FIXEXT
      BY <1>4, Sorts
    <3>2. Width[t] \in Nat /\ v \in [type : Twos(1), size : Unsigned(Width[t])]
      BY <2>1, <3>1, Widths DEF Legal, Fixed
    <3> QED
      BY <3>2 DEF Unsigned
  <2>3. b \in Seq(Byte) /\ l \in Seq(Byte) /\ Header(t, v) = << m >> \o l \o b
    BY <1>4, <2>1, <2>2, ChunkIs, BigEndianType DEF Header
  <2> HIDE DEF b, m, l
  <2>4. /\ << m >> \o l \o b \in Seq(Byte) /\ Len(<< m >> \o l \o b) = 1 + Len(l) + Len(b)
        /\ (<< m >> \o l \o b)[1] = m
    BY <1>1, <2>3
  <2>5. << m >> \o l \o b # << >>
    BY <2>3, <2>4
  <2> QED
    BY <1>1, <1>4, <2>1, <2>3, <2>4, <2>5 DEF m, b, l
<1> QED
  BY <1>2, <1>3, <1>4
=============================================================================
