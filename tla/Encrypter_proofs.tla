-------------------------- MODULE Encrypter_proofs --------------------------
(***************************************************************************)
(* For every file, every block length and every key stream that undoes     *)
(* itself: the device gets the records of the hex file, and no damage to a *)
(* character goes unnoticed.  The checksum is a recursive function, and    *)
(* what is said of it is proved by induction over the bytes it sums.       *)
(***************************************************************************)
EXTENDS Encrypter, SequenceTheorems, WellFoundedInduction, TLAPS

(***************************************************************************)
(* Induction over the natural numbers, for a set given by what its members *)
(* satisfy.                                                                *)
(***************************************************************************)
LEMMA Least ==
  ASSUME NEW T, T \subseteq Nat, T # {}
  PROVE  \E x \in T : \A y \in T : x <= y
<1>1. OpToRel(<, Nat) = {p \in Nat \X Nat : p[1] < p[2]}
  BY Zenon DEF OpToRel
<1>2. PICK x \in T : \A y \in T : ~ (<<y, x>> \in OpToRel(<, Nat))
  BY NatLessThanWellFounded, WFMin, Zenon
<1>3. ASSUME NEW y \in T PROVE x <= y
  <2>1. x \in Nat /\ y \in Nat
    OBVIOUS
  <2>2. ~ (<<y, x>> \in {p \in Nat \X Nat : p[1] < p[2]})
    BY <1>1, <1>2, Zenon
  <2>3. ~ (y < x)
    BY <2>1, <2>2, Zenon
  <2> QED BY <2>1, <2>3
<1> QED BY <1>3

LEMMA InductionSet ==
  ASSUME NEW T, 0 \in T, \A n \in Nat : n \in T => n + 1 \in T
  PROVE  Nat \subseteq T
<1> SUFFICES ASSUME Nat \ T # {} PROVE FALSE OBVIOUS
<1>1. PICK x \in Nat \ T : \A y \in Nat \ T : x <= y
  BY Least
<1>2. x # 0 /\ x - 1 \in Nat
  BY <1>1
<1>3. x - 1 \in T
  BY <1>1, <1>2
<1>4. x - 1 + 1 = x
  BY <1>1
<1> QED BY <1>1, <1>2, <1>3, <1>4

LEMMA Mod256 ==
  ASSUME NEW x \in Int
  PROVE  x % 256 \in 0 .. 255
  OBVIOUS

LEMMA ModCancel ==
  ASSUME NEW x \in 0 .. 255, NEW y \in 0 .. 255, NEW z \in 0 .. 255, y # z
  PROVE  (x + y) % 256 # (x + z) % 256
  OBVIOUS

(***************************************************************************)
(* The checksum.  Sums(f, str, i, n) says that f holds the sums of the     *)
(* first 0, 1, ... n bytes of str from position i on.                      *)
(***************************************************************************)
NthByte(str, i, k) == str2byte(str, i + 2 * (k - 1))
HasBytes(str, i, n) == \A k \in 1 .. n : NthByte(str, i, k) \in Int

Sums(f, str, i, n) ==
  /\ f \in [0 .. n -> 0 .. 255]
  /\ f[0] = 0
  /\ \A k \in 1 .. n : f[k] = (f[k - 1] + NthByte(str, i, k)) % 256

LEMMA SumsExtended ==
  ASSUME NEW str, NEW i, NEW n \in Nat, HasBytes(str, i, n + 1), NEW f, Sums(f, str, i, n)
  PROVE  Sums([k \in 0 .. n + 1 |-> IF k = n + 1 THEN (f[n] + NthByte(str, i, n + 1)) % 256
                                                 ELSE f[k]], str, i, n + 1)
<1> DEFINE v == (f[n] + NthByte(str, i, n + 1)) % 256
           g == [k \in 0 .. n + 1 |-> IF k = n + 1 THEN v ELSE f[k]]
<1>1. f[n] \in 0 .. 255 /\ NthByte(str, i, n + 1) \in Int
  BY DEF Sums, HasBytes
<1>2. v \in 0 .. 255
  <2>1. f[n] + NthByte(str, i, n + 1) \in Int
    BY <1>1
  <2> QED BY <2>1, Mod256
<1>3. g \in [0 .. n + 1 -> 0 .. 255]
  BY <1>2 DEF Sums
<1>4. g[0] = 0
  BY DEF Sums
<1>5. ASSUME NEW k \in 1 .. n + 1
      PROVE  g[k] = (g[k - 1] + NthByte(str, i, k)) % 256
  <2>1. CASE k = n + 1
    <3>1. g[k - 1] = f[n]
      BY <2>1
    <3> QED BY <2>1, <3>1
  <2>2. CASE k # n + 1
    <3>1. k \in 1 .. n /\ k - 1 \in 0 .. n
      BY <2>2
    <3>2. g[k] = f[k] /\ g[k - 1] = f[k - 1]
      BY <2>2, <3>1
    <3> QED BY <3>1, <3>2 DEF Sums
  <2> QED BY <2>1, <2>2
<1> QED BY <1>3, <1>4, <1>5 DEF Sums

LEMMA SumsExist ==
  ASSUME NEW str, NEW i, NEW n \in Nat, HasBytes(str, i, n)
  PROVE  \E f : Sums(f, str, i, n)
<1> DEFINE T == {m \in Nat : m <= n => \E f : Sums(f, str, i, m)}
<1>1. 0 \in T
  <2>1. Sums([k \in 0 .. 0 |-> 0], str, i, 0)
    BY DEF Sums
  <2> QED BY <2>1
<1>2. ASSUME NEW m \in Nat, m \in T PROVE m + 1 \in T
  <2>1. SUFFICES ASSUME m + 1 <= n PROVE \E f : Sums(f, str, i, m + 1)
    OBVIOUS
  <2>2. HasBytes(str, i, m + 1)
    BY <2>1 DEF HasBytes
  <2>3. PICK f : Sums(f, str, i, m)
    BY <1>2, <2>1
  <2> QED BY <2>2, <2>3, SumsExtended
<1> HIDE DEF T
<1>3. n \in T
  BY <1>1, <1>2, InductionSet
<1> QED BY <1>3 DEF T

\* Texts with the same bytes have the same sums.
LEMMA SumsUnique ==
  ASSUME NEW s, NEW t, NEW i, NEW n \in Nat, NEW f, NEW g,
         Sums(f, s, i, n), Sums(g, t, i, n),
         \A k \in 1 .. n : NthByte(s, i, k) = NthByte(t, i, k)
  PROVE  \A k \in 0 .. n : f[k] = g[k]
<1> DEFINE T == {k \in Nat : k <= n => f[k] = g[k]}
<1>1. 0 \in T
  BY DEF Sums
<1>2. ASSUME NEW k \in Nat, k \in T PROVE k + 1 \in T
  <2>1. SUFFICES ASSUME k + 1 <= n PROVE f[k + 1] = g[k + 1]
    OBVIOUS
  <2>2. k + 1 \in 1 .. n /\ (k + 1) - 1 = k /\ f[k] = g[k]
    BY <1>2, <2>1
  <2> QED BY <2>2 DEF Sums
<1> HIDE DEF T
<1>3. Nat \subseteq T
  BY <1>1, <1>2, InductionSet
<1> QED BY <1>3 DEF T

LEMMA SumIs ==
  ASSUME NEW str, NEW i, NEW n \in Nat, HasBytes(str, i, n), NEW f, Sums(f, str, i, n)
  PROVE  SumFrom(str, i, n) = f[n]
<1> DEFINE D(g) == g = [k \in 0 .. n |-> IF k = 0 THEN 0
                         ELSE (g[k - 1] + str2byte(str, i + 2 * (k - 1))) % 256]
<1>1. D(f)
  BY DEF Sums, NthByte
<1>2. ASSUME NEW g, D(g) PROVE Sums(g, str, i, n)
  <2>1. g[0] = 0
    BY <1>2
  <2>2. \A k \in 1 .. n : g[k] = (g[k - 1] + NthByte(str, i, k)) % 256
    BY <1>2 DEF NthByte
  <2> DEFINE T == {k \in Nat : k <= n => g[k] \in 0 .. 255}
  <2>3. 0 \in T
    BY <2>1
  <2>4. ASSUME NEW k \in Nat, k \in T PROVE k + 1 \in T
    <3>1. SUFFICES ASSUME k + 1 <= n PROVE g[k + 1] \in 0 .. 255
      OBVIOUS
    <3>2. k + 1 \in 1 .. n /\ (k + 1) - 1 = k /\ g[k] \in 0 .. 255
      BY <2>4, <3>1
    <3>3. NthByte(str, i, k + 1) \in Int
      BY <3>2 DEF HasBytes
    <3>4. g[k + 1] = (g[k] + NthByte(str, i, k + 1)) % 256
      BY <2>2, <3>2
    <3>5. g[k] + NthByte(str, i, k + 1) \in Int
      BY <3>2, <3>3
    <3> QED BY <3>4, <3>5, Mod256
  <2> HIDE DEF T
  <2>5. Nat \subseteq T
    BY <2>3, <2>4, InductionSet
  <2>6. \A k \in 0 .. n : g[k] \in 0 .. 255
    BY <2>5 DEF T
  <2>7. g \in [0 .. n -> 0 .. 255]
    BY <1>2, <2>6
  <2> QED BY <2>1, <2>2, <2>7 DEF Sums
<1> DEFINE c == CHOOSE g : D(g)
<1>3. SumFrom(str, i, n) = c[n]
  BY DEF SumFrom
<1> HIDE DEF D
<1>4. D(c)
  BY <1>1
<1> HIDE DEF c
<1>5. Sums(c, str, i, n)
  BY <1>2, <1>4
<1>6. c[n] = f[n]
  BY <1>5, SumsUnique
<1> QED BY <1>3, <1>6
LEMMA SumAgree ==
  ASSUME NEW s, NEW t, NEW i, NEW n \in Nat, HasBytes(s, i, n),
         \A k \in 1 .. n : NthByte(s, i, k) = NthByte(t, i, k)
  PROVE  SumFrom(s, i, n) = SumFrom(t, i, n)
<1>1. HasBytes(t, i, n)
  BY DEF HasBytes
<1>2. PICK f : Sums(f, s, i, n)
  BY SumsExist
<1>3. PICK g : Sums(g, t, i, n)
  BY <1>1, SumsExist
<1>4. \A k \in 0 .. n : f[k] = g[k]
  BY <1>2, <1>3, SumsUnique
<1> QED BY <1>1, <1>2, <1>3, <1>4, SumIs

LEMMA SumNext ==
  ASSUME NEW str, NEW i, NEW n \in Nat, HasBytes(str, i, n + 1)
  PROVE  /\ SumFrom(str, i, n) \in 0 .. 255
         /\ SumFrom(str, i, n + 1) = (SumFrom(str, i, n) + NthByte(str, i, n + 1)) % 256
<1>1. HasBytes(str, i, n)
  BY DEF HasBytes
<1>2. PICK f : Sums(f, str, i, n)
  BY <1>1, SumsExist
<1> DEFINE g == [k \in 0 .. n + 1 |-> IF k = n + 1 THEN (f[n] + NthByte(str, i, n + 1)) % 256
                                                   ELSE f[k]]
<1>3. Sums(g, str, i, n + 1)
  BY <1>2, SumsExtended
<1>4. g[n + 1] = (f[n] + NthByte(str, i, n + 1)) % 256
  OBVIOUS
<1>5. n + 1 \in Nat
  OBVIOUS
<1> HIDE DEF g
<1>6. SumFrom(str, i, n + 1) = g[n + 1]
  BY <1>3, <1>5, SumIs
<1>7. SumFrom(str, i, n) = f[n] /\ f[n] \in 0 .. 255
  <2>1. f[n] \in 0 .. 255
    BY <1>2 DEF Sums
  <2> QED BY <1>1, <1>2, <2>1, SumIs
<1> QED BY <1>4, <1>6, <1>7

\* One byte replaced by another changes the sum.
LEMMA SumDiffers ==
  ASSUME NEW s, NEW t, NEW i, NEW n \in Nat, NEW k0 \in 1 .. n,
         \A k \in 1 .. n : NthByte(s, i, k) \in 0 .. 255 /\ NthByte(t, i, k) \in 0 .. 255,
         \A k \in 1 .. n : NthByte(s, i, k) = NthByte(t, i, k) <=> k # k0
  PROVE  SumFrom(s, i, n) # SumFrom(t, i, n)
<1>1. HasBytes(s, i, n) /\ HasBytes(t, i, n)
  BY DEF HasBytes
<1>2. PICK f : Sums(f, s, i, n)
  BY <1>1, SumsExist
<1>3. PICK g : Sums(g, t, i, n)
  BY <1>1, SumsExist
<1> DEFINE T == {k \in Nat : k <= n => (f[k] = g[k] <=> k < k0)}
<1>4. 0 \in T
  BY <1>2, <1>3 DEF Sums
<1>5. ASSUME NEW k \in Nat, k \in T PROVE k + 1 \in T
  <2>1. SUFFICES ASSUME k + 1 <= n PROVE f[k + 1] = g[k + 1] <=> k + 1 < k0
    OBVIOUS
  <2>2. k + 1 \in 1 .. n /\ (k + 1) - 1 = k /\ (f[k] = g[k] <=> k < k0)
    BY <1>5, <2>1
  <2> DEFINE a == NthByte(s, i, k + 1)
             b == NthByte(t, i, k + 1)
  <2>3. a \in 0 .. 255 /\ b \in 0 .. 255 /\ (a = b <=> k + 1 # k0)
    BY <2>2
  <2>4. f[k] \in 0 .. 255 /\ g[k] \in 0 .. 255
    BY <1>2, <1>3, <2>2 DEF Sums
  <2>5. f[k + 1] = (f[k] + a) % 256 /\ g[k + 1] = (g[k] + b) % 256
    BY <1>2, <1>3, <2>2 DEF Sums
  <2> HIDE DEF a, b
  <2>6. CASE k + 1 < k0
    BY <2>2, <2>3, <2>5, <2>6
  <2>7. CASE k + 1 = k0
    <3>1. f[k] = g[k] /\ a # b
      BY <2>2, <2>3, <2>7
    <3>2. a \in 0 .. 255 /\ b \in 0 .. 255 /\ a # b
      BY <2>3, <3>1
    <3>3. (f[k] + a) % 256 # (f[k] + b) % 256
      BY <2>4, <3>2, ModCancel, ZenonT(60)
    <3>4. f[k + 1] # g[k + 1]
      BY <2>5, <3>1, <3>3, Zenon
    <3>5. ~(k + 1 < k0)
      BY <2>7
    <3> QED BY <3>4, <3>5, Zenon
  <2>8. CASE k + 1 > k0
    <3>1. f[k] # g[k] /\ a = b
      BY <2>2, <2>3, <2>8
    <3>2. (a + f[k]) % 256 # (a + g[k]) % 256
      BY <2>3, <2>4, <3>1, ModCancel, ZenonT(60)
    <3>3. a + f[k] = f[k] + a /\ a + g[k] = g[k] + a
      BY <2>3, <2>4
    <3>4. f[k + 1] # g[k + 1]
      BY <2>5, <3>1, <3>2, <3>3, Zenon
    <3>5. ~(k + 1 < k0)
      BY <2>2, <2>8
    <3> QED BY <3>4, <3>5, Zenon
  <2> QED BY <2>6, <2>7, <2>8
<1> HIDE DEF T
<1>6. n \in T
  BY <1>4, <1>5, InductionSet
<1>7. f[n] # g[n]
  BY <1>6 DEF T
<1> QED BY <1>1, <1>2, <1>3, <1>7, SumIs
(***************************************************************************)
(* Digits and bytes of an accepted text.                                   *)
(***************************************************************************)
LEMMA DigitValue ==
  ASSUME NEW c, IsDigit(c)
  PROVE  Value(c) \in 0 .. 15
  BY DEF IsDigit, Value

LEMMA ByteType ==
  ASSUME NEW str, NEW p, IsDigit(str[p]), IsDigit(str[p + 1])
  PROVE  str2byte(str, p) \in 0 .. 255
<1>1. Value(str[p]) \in 0 .. 15 /\ Value(str[p + 1]) \in 0 .. 15
  BY DigitValue
<1> QED BY <1>1 DEF str2byte

LEMMA ByteSame ==
  ASSUME NEW s, NEW t, NEW p,
         IsDigit(s[p]), IsDigit(s[p + 1]), IsDigit(t[p]), IsDigit(t[p + 1])
  PROVE  str2byte(s, p) = str2byte(t, p)
           <=> Value(s[p]) = Value(t[p]) /\ Value(s[p + 1]) = Value(t[p + 1])
<1>1. /\ Value(s[p]) \in 0 .. 15 /\ Value(s[p + 1]) \in 0 .. 15
      /\ Value(t[p]) \in 0 .. 15 /\ Value(t[p + 1]) \in 0 .. 15
  BY DigitValue
<1> QED BY <1>1 DEF str2byte

\* Positions in a text of l characters with n bytes of data.
LEMMA Positions ==
  ASSUME NEW n \in Nat, NEW l \in Int, l = 2 * n + 11
  PROVE  /\ \A k \in 1 .. n + 5 : k \in Int /\ 2 * k \in 2 .. l - 1 /\ 2 * k \in 2 .. l /\ 2 * k + 1 \in 2 .. l
         /\ \A i \in 1 .. n : 10 + 2 * (i - 1) \in 2 .. l - 1
         /\ {2, 4, 6, 8} \subseteq 2 .. l - 1
  OBVIOUS

LEMMA HalfPosition ==
  ASSUME NEW n \in Nat, NEW l \in Int, l = 2 * n + 11, NEW p \in 2 .. l
  PROVE  p \div 2 \in 1 .. n + 5 /\ (p = 2 * (p \div 2) \/ p = 2 * (p \div 2) + 1)
  OBVIOUS

\* The bytes the checksum is about are the digits two by two.
LEMMA NthByteIs ==
  ASSUME NEW str, NEW k \in Int
  PROVE  NthByte(str, 2, k) = str2byte(str, 2 * k)
<1>1. 2 + 2 * (k - 1) = 2 * k
  OBVIOUS
<1> QED BY <1>1 DEF NthByte

LEMMA AcceptedText ==
  ASSUME NEW str \in Seq(Char), WellFormed(str)
  PROVE  /\ Length(str) \in Nat /\ Length(str) <= 255
         /\ Len(str) = 2 * Length(str) + 11
         /\ \A p \in 2 .. Len(str) : IsDigit(str[p])
         /\ \A p \in 2 .. Len(str) - 1 : str2byte(str, p) \in 0 .. 255
         /\ \A k \in 1 .. Length(str) + 5 : NthByte(str, 2, k) \in 0 .. 255
<1>1. \A p \in 2 .. Len(str) : IsDigit(str[p])
  BY DEF WellFormed
<1>2. Len(str) \in Nat
  OBVIOUS
<1>3. ASSUME NEW p \in 2 .. Len(str) - 1 PROVE str2byte(str, p) \in 0 .. 255
  <2>1. p \in 2 .. Len(str) /\ p + 1 \in 2 .. Len(str)
    BY <1>2
  <2> QED BY <1>1, <2>1, ByteType
<1>4. IsDigit(str[2]) /\ IsDigit(str[2 + 1]) /\ Len(str) = 2 * Length(str) + 11
  BY DEF WellFormed, IsByte, LengthPos, UtilData
<1>5. Length(str) \in Nat /\ Length(str) <= 255
  <2>1. \A x \in 0 .. 255 : x \in Nat /\ x <= 255
    OBVIOUS
  <2>2. str2byte(str, 2) \in 0 .. 255
    BY <1>4, ByteType
  <2> QED BY <2>1, <2>2, Zenon DEF Length, LengthPos
<1>6. ASSUME NEW k \in 1 .. Length(str) + 5 PROVE NthByte(str, 2, k) \in 0 .. 255
  <2>1. k \in Int /\ 2 * k \in 2 .. Len(str) - 1
    <3>1. Len(str) = 2 * Length(str) + 11
      BY <1>4
    <3> QED BY <1>2, <1>5, <3>1, Positions
  <2> QED BY <1>3, <2>1, NthByteIs
<1> QED BY <1>1, <1>3, <1>4, <1>5, <1>6

(***************************************************************************)
(* Damage.  Digits of the same value make the same record; one digit of    *)
(* another value makes another checksum.                                   *)
(***************************************************************************)
LEMMA SameValues ==
  ASSUME NEW s \in Seq(Char), NEW t \in Seq(Char), WellFormed(s), WellFormed(t),
         Len(s) = Len(t), \A p \in 2 .. Len(s) : Value(s[p]) = Value(t[p])
  PROVE  Parse(s) = Parse(t)
<1>1. \A p \in 2 .. Len(s) : IsDigit(s[p]) /\ IsDigit(t[p])
  BY AcceptedText
<1>2. Len(s) \in Nat
  OBVIOUS
<1>3. ASSUME NEW p \in 2 .. Len(s) - 1 PROVE str2byte(s, p) = str2byte(t, p)
  <2>1. p \in 2 .. Len(s) /\ p + 1 \in 2 .. Len(s)
    BY <1>2
  <2> QED BY <1>1, <2>1, ByteSame
<1>4. Length(s) \in Nat /\ Len(s) = 2 * Length(s) + 11
  BY AcceptedText
<1>p. /\ \A i \in 1 .. Length(s) : 10 + 2 * (i - 1) \in 2 .. Len(s) - 1
      /\ {2, 4, 6, 8} \subseteq 2 .. Len(s) - 1
  BY <1>2, <1>4, Positions
<1>5. Length(s) = Length(t)
  BY <1>3, <1>p DEF Length, LengthPos
<1>6. str2byte(s, TypePos) = str2byte(t, TypePos) /\ Word16(s, AddrPos) = Word16(t, AddrPos)
  BY <1>3, <1>p DEF TypePos, AddrPos, Word16
<1>7. Data(s) = Data(t)
  <2>1. ASSUME NEW i \in 1 .. Length(s)
        PROVE  str2byte(s, DataPos + 2 * (i - 1)) = str2byte(t, DataPos + 2 * (i - 1))
    <3>1. DataPos + 2 * (i - 1) \in 2 .. Len(s) - 1
      BY <1>p DEF DataPos
    <3> QED BY <1>3, <3>1
  <2> QED BY <1>5, <2>1 DEF Data
<1>8. HasOffset(s) = HasOffset(t) /\ (HasOffset(s) => Word16(s, DataPos) = Word16(t, DataPos))
  <2>1. IsByte(s, DataPos) <=> IsByte(t, DataPos)
    BY <1>1, <1>4 DEF IsByte, DataPos
  <2>2. IsByte(s, DataPos + 2) <=> IsByte(t, DataPos + 2)
    BY <1>1, <1>4 DEF IsByte, DataPos
  <2>3. HasOffset(s) => 10 \in 2 .. Len(s) - 1 /\ 12 \in 2 .. Len(s) - 1
    BY <1>2 DEF HasOffset, IsByte, DataPos
  <2>4. HasOffset(s) => Word16(s, DataPos) = Word16(t, DataPos)
    BY <1>3, <2>3 DEF Word16, DataPos
  <2> QED BY <2>1, <2>2, <2>4 DEF HasOffset
<1> DEFINE type == str2byte(s, TypePos)
<1>9. CASE type = 0
  BY <1>6, <1>7, <1>9 DEF Parse
<1>10. CASE type = 2
  BY <1>6, <1>8, <1>10 DEF Parse
<1>11. CASE type = 4
  BY <1>6, <1>8, <1>11 DEF Parse
<1>12. CASE type \notin {0, 2, 4}
  BY <1>6, <1>12 DEF Parse
<1> QED BY <1>9, <1>10, <1>11, <1>12

LEMMA OtherValue ==
  ASSUME NEW s \in Seq(Char), NEW t \in Seq(Char), WellFormed(s), WellFormed(t),
         Len(s) = Len(t), NEW p0 \in 2 .. Len(s),
         \A p \in 2 .. Len(s) : p # p0 => s[p] = t[p]
  PROVE  Value(s[p0]) = Value(t[p0])
<1> SUFFICES ASSUME Value(s[p0]) # Value(t[p0])
             PROVE  FALSE
  OBVIOUS
<1>1. \A p \in 2 .. Len(s) : IsDigit(s[p]) /\ IsDigit(t[p])
  BY AcceptedText
<1> DEFINE k0 == p0 \div 2
           n  == Length(s) + 5
<1>2. /\ Len(s) \in Int
      /\ Length(s) \in Nat /\ Len(s) = 2 * Length(s) + 11
      /\ Length(t) \in Nat /\ Len(t) = 2 * Length(t) + 11
  BY AcceptedText
<1>3. n \in Nat /\ k0 \in 1 .. n /\ (p0 = 2 * k0 \/ p0 = 2 * k0 + 1) /\ Length(t) + 5 = n
  <2>1. Length(t) = Length(s)
    <3>1. \A x, y \in Nat : 2 * x + 11 = 2 * y + 11 => x = y
      OBVIOUS
    <3> QED BY <1>2, <3>1
  <2> QED BY <1>2, <2>1, HalfPosition
<1>4. \A k \in 1 .. n : NthByte(s, 2, k) \in 0 .. 255 /\ NthByte(t, 2, k) \in 0 .. 255
  BY <1>3, AcceptedText
<1> HIDE DEF k0
<1>5. ASSUME NEW k \in 1 .. n PROVE NthByte(s, 2, k) = NthByte(t, 2, k) <=> k # k0
  <2>1. k \in Int /\ 2 * k \in 2 .. Len(s) /\ 2 * k + 1 \in 2 .. Len(s)
    BY <1>2, Positions
  <2>2. str2byte(s, 2 * k) = str2byte(t, 2 * k)
          <=> Value(s[2 * k]) = Value(t[2 * k]) /\ Value(s[2 * k + 1]) = Value(t[2 * k + 1])
    BY <1>1, <2>1, ByteSame
  <2>3. CASE k = k0
    BY <1>3, <2>2, <2>3, NthByteIs
  <2>4. CASE k # k0
    <3>1. 2 * k # p0 /\ 2 * k + 1 # p0
      BY <1>3, <2>4
    <3> QED BY <2>1, <2>2, <2>4, <3>1, NthByteIs
  <2> QED BY <2>3, <2>4
<1>6. SumFrom(s, 2, n) = 0 /\ SumFrom(t, 2, n) = 0
  BY <1>3 DEF WellFormed, LengthPos
<1>7. n \in Nat /\ k0 \in 1 .. n
  BY <1>3
<1> HIDE DEF n
<1>8. SumFrom(s, 2, n) # SumFrom(t, 2, n)
  BY <1>4, <1>5, <1>7, SumDiffers
<1> QED BY <1>6, <1>8
\* The text with one character replaced is refused or makes the same record.
LEMMA OneCharacter ==
  ASSUME NEW s \in Seq(Char), WellFormed(s), NEW i \in 1 .. Len(s), NEW c \in Char,
         WellFormed([s EXCEPT ![i] = c])
  PROVE  Parse([s EXCEPT ![i] = c]) = Parse(s)
<1> DEFINE t == [s EXCEPT ![i] = c]
<1>1. t \in Seq(Char) /\ Len(t) = Len(s)
  BY ExceptSeq
<1>2. \A p \in 1 .. Len(s) : t[p] = IF p = i THEN c ELSE s[p]
  BY ExceptSeq
<1>3. WellFormed(t)
  OBVIOUS
<1> HIDE DEF t
<1>4. \A p \in 2 .. Len(s) : p # i => s[p] = t[p]
  BY <1>2
<1>5. ASSUME NEW p \in 2 .. Len(s) PROVE Value(s[p]) = Value(t[p])
  <2>1. CASE p = i
    BY <1>1, <1>3, <1>4, <2>1, OtherValue
  <2>2. CASE p # i
    BY <1>4, <2>2
  <2> QED BY <2>1, <2>2
<1>6. Parse(s) = Parse(t)
  BY <1>1, <1>3, <1>5, SameValues
<1> QED BY <1>6 DEF t

(***************************************************************************)
(* Records.                                                                *)
(***************************************************************************)
LEMMA FunctionIsSeq ==
  ASSUME NEW S, NEW n \in Nat, NEW f \in [1 .. n -> S]
  PROVE  f \in Seq(S) /\ Len(f) = n
  OBVIOUS

RecordKinds == {"data", "eof", "offset", "start"}
Records == [kind : RecordKinds, addr : Int, data : Seq(0 .. 255)]

LEMMA ParseType ==
  ASSUME NEW str \in Seq(Char), Parse(str) # Refused
  PROVE  Parse(str) \in Records /\ (Parse(str).kind # "data" => Parse(str).data = <<>>)
<1>1. WellFormed(str)
  BY DEF Parse
<1>2. /\ Length(str) \in Nat /\ Len(str) \in Int /\ Len(str) = 2 * Length(str) + 11
      /\ \A p \in 2 .. Len(str) - 1 : str2byte(str, p) \in 0 .. 255
      /\ \A p \in 2 .. Len(str) : IsDigit(str[p])
  BY <1>1, AcceptedText
<1>3. /\ \A i \in 1 .. Length(str) : 10 + 2 * (i - 1) \in 2 .. Len(str) - 1
      /\ {2, 4, 6, 8} \subseteq 2 .. Len(str) - 1
  BY <1>2, Positions
<1>4. ASSUME NEW i \in 1 .. Length(str) PROVE str2byte(str, DataPos + 2 * (i - 1)) \in 0 .. 255
  BY <1>2, <1>3 DEF DataPos
<1>5. Data(str) \in Seq(0 .. 255)
  <2> DEFINE n == Length(str)
  <2>1. n \in Nat
    BY <1>2
  <2>2. Data(str) \in [1 .. n -> 0 .. 255]
    BY <1>4 DEF Data
  <2> HIDE DEF n
  <2> QED BY <2>1, <2>2, FunctionIsSeq
<1>6. \A x, y \in 0 .. 255 : 256 * x + y \in Int
  OBVIOUS
<1>7. \A x \in Int : 16 * x \in Int /\ 65536 * x \in Int
  OBVIOUS
<1>8. Word16(str, AddrPos) \in Int
  <2>1. str2byte(str, 4) \in 0 .. 255 /\ str2byte(str, 4 + 2) \in 0 .. 255
    BY <1>2, <1>3
  <2> QED BY <1>6, <2>1 DEF Word16, AddrPos
<1>9. HasOffset(str) => Word16(str, DataPos) \in Int
  <2>1. HasOffset(str) => str2byte(str, 10) \in 0 .. 255 /\ str2byte(str, 10 + 2) \in 0 .. 255
    BY ByteType DEF HasOffset, IsByte, DataPos
  <2> QED BY <1>6, <2>1 DEF Word16, DataPos
<1> DEFINE type == str2byte(str, TypePos)
<1>10. CASE type = 0
  <2>1. Parse(str) = Record("data", Word16(str, AddrPos), Data(str))
    BY <1>1, <1>10 DEF Parse
  <2> QED BY <1>5, <1>8, <2>1 DEF Record, Records, RecordKinds
<1>11. CASE type # 0
  <2>1. PICK k \in {"eof", "offset", "start"}, a \in Int : Parse(str) = Record(k, a, <<>>)
    <3>1. type # 0 /\ WellFormed(str)
      BY <1>1, <1>11
    <3> HIDE DEF type
    <3>2. CASE type = 1
      BY <3>1, <3>2 DEF Parse, type
    <3>3. CASE type = 2 /\ HasOffset(str)
      BY <1>7, <1>9, <3>1, <3>3 DEF Parse, type
    <3>4. CASE type = 4 /\ HasOffset(str)
      BY <1>7, <1>9, <3>1, <3>4 DEF Parse, type
    <3>5. CASE type \in {3, 5}
      BY <3>1, <3>5 DEF Parse, type
    <3> QED BY <3>1, <3>2, <3>3, <3>4, <3>5 DEF Parse, type
  <2> QED BY <2>1 DEF Record, Records, RecordKinds
<1> QED BY <1>10, <1>11
(***************************************************************************)
(* A rewritten record.                                                     *)
(***************************************************************************)
LEMMA DigitsOf ==
  ASSUME NEW d \in Seq(0 .. 255)
  PROVE  /\ Digits(d) \in Seq(0 .. 15) /\ Len(Digits(d)) = 2 * Len(d)
         /\ \A k \in 1 .. Len(d) : /\ Digits(d)[2 * k - 1] = d[k] \div 16
                                   /\ Digits(d)[2 * k] = d[k] % 16
<1> DEFINE n == 2 * Len(d)
           digit(i) == byte2str(d[(i + 1) \div 2])[IF i % 2 = 1 THEN 1 ELSE 2]
<1>1. Len(d) \in Nat /\ n \in Nat
  OBVIOUS
<1>2. ASSUME NEW b \in 0 .. 255
      PROVE  /\ byte2str(b)[1] = b \div 16 /\ byte2str(b)[2] = b % 16
             /\ b \div 16 \in 0 .. 15 /\ b % 16 \in 0 .. 15
  BY DEF byte2str
<1>3. ASSUME NEW i \in 1 .. n PROVE digit(i) \in 0 .. 15
  <2>1. (i + 1) \div 2 \in 1 .. Len(d)
    BY <1>1
  <2>2. d[(i + 1) \div 2] \in 0 .. 255
    BY <2>1, ElementOfSeq
  <2>3. /\ byte2str(d[(i + 1) \div 2])[1] \in 0 .. 15
        /\ byte2str(d[(i + 1) \div 2])[2] \in 0 .. 15
    BY <1>2, <2>2, ZenonT(60)
  <2>4. digit(i) = IF i % 2 = 1 THEN byte2str(d[(i + 1) \div 2])[1]
                   ELSE byte2str(d[(i + 1) \div 2])[2]
    BY Zenon
  <2> QED BY <2>3, <2>4
<1>4. Digits(d) = [i \in 1 .. n |-> digit(i)]
  BY DEF Digits
<1>5. ASSUME NEW k \in 1 .. Len(d)
      PROVE  digit(2 * k - 1) = d[k] \div 16 /\ digit(2 * k) = d[k] % 16
  <2>1. /\ (2 * k - 1 + 1) \div 2 = k /\ (2 * k - 1) % 2 = 1
        /\ (2 * k + 1) \div 2 = k /\ (2 * k) % 2 # 1
    BY <1>1
  <2>2. d[k] \in 0 .. 255
    BY ElementOfSeq
  <2> QED BY <1>2, <2>1, <2>2
<1>6. \A k \in 1 .. Len(d) : 2 * k - 1 \in 1 .. n /\ 2 * k \in 1 .. n
  BY <1>1
<1> HIDE DEF n, digit
<1>7. Digits(d) \in [1 .. n -> 0 .. 15]
  BY <1>3, <1>4
<1>8. Digits(d) \in Seq(0 .. 15) /\ Len(Digits(d)) = n
  BY <1>1, <1>7, FunctionIsSeq
<1> QED BY <1>4, <1>5, <1>6, <1>8 DEF n
LEMMA SmallNumbers ==
  /\ \A x \in 0 .. 255 : x \in Int /\ x \in Nat
  /\ \A x \in 0 .. 255 : x \div 16 \in 0 .. 15 /\ x % 16 \in 0 .. 15 /\ 16 * (x \div 16) + (x % 16) = x
  /\ \A x \in 0 .. 15 : IsDigit(x) /\ Value(x) = x /\ x \in Char
  BY DEF IsDigit, Value, Char, Other

\* Positions in the text of n bytes of data with and without its checksum.
LEMMA TextPositions ==
  ASSUME NEW n \in Nat
  PROVE  /\ n + 4 \in Nat /\ n + 5 \in Nat /\ (n + 4) + 1 = n + 5
         /\ \A p \in 1 .. 9 : p \in 1 .. 9 + 2 * n /\ p <= 9
         /\ \A p \in 1 .. 9 + 2 * n : p \in 1 .. 11 + 2 * n /\ p <= 9 + 2 * n
         /\ \A p \in 2 .. 11 + 2 * n : \/ p \in 1 .. 9 + 2 * n /\ p \in 2 .. 9 + 2 * n
                                       \/ p = 10 + 2 * n \/ p = 11 + 2 * n
         /\ \A p \in 2 .. 9 + 2 * n : \/ p \in 2 .. 9 /\ p \in 1 .. 9
                                      \/ p - 9 \in 1 .. 2 * n /\ p \in 1 .. 9 + 2 * n /\ ~ (p <= 9)
         /\ \A p \in 2 .. 8 + 2 * n : p \in 1 .. 9 + 2 * n /\ p + 1 \in 1 .. 9 + 2 * n
         /\ \A k \in 1 .. n : /\ 2 * k + 8 \in 1 .. 9 + 2 * n /\ ~ (2 * k + 8 <= 9) /\ (2 * k + 8) - 9 = 2 * k - 1
                              /\ 2 * k + 9 \in 1 .. 9 + 2 * n /\ ~ (2 * k + 9 <= 9) /\ (2 * k + 9) - 9 = 2 * k
                              /\ 2 * k + 8 \in 2 .. 8 + 2 * n /\ (2 * k + 8) + 1 = 2 * k + 9
         /\ \A k \in 1 .. n + 4 : /\ k \in Int /\ k \in 1 .. n + 5
                                  /\ 2 * k \in 2 .. 8 + 2 * n /\ 2 * k \in 2 .. 9 + 2 * n /\ 2 * k + 1 \in 2 .. 9 + 2 * n
         /\ \A k \in 1 .. n + 5 : k \in Int /\ 2 * k \in 2 .. 11 + 2 * n /\ 2 * k + 1 \in 2 .. 11 + 2 * n
         /\ 2 * (n + 5) = 10 + 2 * n /\ (10 + 2 * n) + 1 = 11 + 2 * n /\ n + 5 \in 1 .. n + 5
         /\ 10 + 2 * n \in 1 .. 11 + 2 * n /\ ~ (10 + 2 * n <= 9 + 2 * n) /\ (10 + 2 * n) - (9 + 2 * n) = 1
         /\ 11 + 2 * n \in 1 .. 11 + 2 * n /\ ~ (11 + 2 * n <= 9 + 2 * n) /\ (11 + 2 * n) - (9 + 2 * n) = 2
         /\ (9 + 2 * n) + 2 = 11 + 2 * n
  OBVIOUS

LEMMA ChecksumCancels ==
  ASSUME NEW s \in 0 .. 255
  PROVE  Checksum(s) \in 0 .. 255 /\ (s + Checksum(s)) % 256 = 0
  BY DEF Checksum

\* What Rewrite puts together: what str begins with, the digits of d, and
\* those of a checksum.
LEMMA RewriteParts ==
  ASSUME NEW str \in Seq(Char), Len(str) >= 9, \A p \in 2 .. 9 : IsDigit(str[p]),
         NEW d \in Seq(0 .. 255), NEW text,
         text = SubSeq(str, 1, DataPos - 1) \o Digits(d)
  PROVE  /\ text \in Seq(Char) /\ Len(text) = 9 + 2 * Len(d)
         /\ \A p \in 1 .. 9 : text[p] = str[p]
         /\ \A k \in 1 .. Len(d) : /\ text[2 * k + 8] = d[k] \div 16
                                   /\ text[2 * k + 9] = d[k] % 16
         /\ \A p \in 2 .. Len(text) : IsDigit(text[p])
         /\ SumFrom(text, LengthPos, Len(d) + 4) \in 0 .. 255
<1> DEFINE head == SubSeq(str, 1, 9)
           n    == Len(d)
<1>1. n \in Nat
  OBVIOUS
<1>2. head \in Seq(Char) /\ Len(head) = 9 /\ \A p \in 1 .. 9 : head[p] = str[p]
  <2>1. \A p \in 1 .. 9 : str[p] \in Char
    BY ElementOfSeq
  <2> QED BY <2>1, SubSeqProperties
<1>3. /\ Digits(d) \in Seq(0 .. 15) /\ Len(Digits(d)) = 2 * n
      /\ \A k \in 1 .. n : Digits(d)[2 * k - 1] = d[k] \div 16 /\ Digits(d)[2 * k] = d[k] % 16
  BY DigitsOf
<1>4. Digits(d) \in Seq(Char)
  <2>1. 0 .. 15 \subseteq Char
    BY DEF Char, Other
  <2> QED BY <1>3, <2>1, SeqMonotonic
<1>5. text = head \o Digits(d)
  BY DEF DataPos
<1> HIDE DEF head, n
<1>6. /\ text \in Seq(Char) /\ Len(text) = 9 + 2 * n
      /\ \A p \in 1 .. 9 + 2 * n : text[p] = IF p <= 9 THEN head[p] ELSE Digits(d)[p - 9]
  <2>1. /\ text \in Seq(Char) /\ Len(text) = Len(head) + Len(Digits(d))
        /\ \A p \in 1 .. Len(head) + Len(Digits(d)) :
             text[p] = IF p <= Len(head) THEN head[p] ELSE Digits(d)[p - Len(head)]
    <3> DEFINE tail == Digits(d)
    <3>1. head \in Seq(Char) /\ tail \in Seq(Char)
      BY <1>2, <1>4
    <3> HIDE DEF tail
    <3>2. /\ head \o tail \in Seq(Char) /\ Len(head \o tail) = Len(head) + Len(tail)
          /\ \A p \in 1 .. Len(head) + Len(tail) :
               (head \o tail)[p] = IF p <= Len(head) THEN head[p] ELSE tail[p - Len(head)]
      BY <3>1, ConcatProperties, Zenon
    <3> QED BY <1>5, <3>2, Zenon DEF tail
  <2> QED BY <1>2, <1>3, <2>1, Zenon
<1>7. \A p \in 1 .. 9 : text[p] = str[p]
  BY <1>1, <1>2, <1>6, TextPositions, Zenon
<1>8. ASSUME NEW k \in 1 .. n
      PROVE  text[2 * k + 8] = d[k] \div 16 /\ text[2 * k + 9] = d[k] % 16
  <2>1. /\ 2 * k + 8 \in 1 .. 9 + 2 * n /\ ~ (2 * k + 8 <= 9) /\ (2 * k + 8) - 9 = 2 * k - 1
        /\ 2 * k + 9 \in 1 .. 9 + 2 * n /\ ~ (2 * k + 9 <= 9) /\ (2 * k + 9) - 9 = 2 * k
    BY <1>1, TextPositions, Zenon
  <2> QED BY <1>3, <1>6, <2>1, Zenon
<1>9. ASSUME NEW p \in 2 .. Len(text) PROVE IsDigit(text[p])
  <2>1. CASE p \in 2 .. 9 /\ p \in 1 .. 9
    BY <1>7, <2>1, Zenon
  <2>2. CASE p - 9 \in 1 .. 2 * n /\ p \in 1 .. 9 + 2 * n /\ ~ (p <= 9)
    <3>1. text[p] = Digits(d)[p - 9]
      BY <1>6, <2>2, Zenon
    <3>2. Digits(d)[p - 9] \in 0 .. 15
      BY <1>3, <2>2, ElementOfSeq
    <3> QED BY <3>1, <3>2, SmallNumbers, Zenon
  <2> QED BY <1>1, <1>6, <2>1, <2>2, TextPositions, Zenon
<1>10. ASSUME NEW k \in 1 .. n + 4 PROVE NthByte(text, 2, k) \in 0 .. 255
  <2>1. 2 * k \in 2 .. 9 + 2 * n /\ 2 * k + 1 \in 2 .. 9 + 2 * n /\ k \in Int
    BY <1>1, TextPositions, Zenon
  <2>2. IsDigit(text[2 * k]) /\ IsDigit(text[2 * k + 1])
    BY <1>6, <1>9, <2>1, Zenon
  <2> QED BY <2>1, <2>2, ByteType, NthByteIs
<1>11. SumFrom(text, 2, n + 4) \in 0 .. 255
  <2>1. HasBytes(text, 2, n + 4) /\ n + 4 \in Nat
    BY <1>1, <1>10, SmallNumbers, TextPositions, Zenon DEF HasBytes
  <2>2. PICK f : Sums(f, text, 2, n + 4)
    BY <2>1, SumsExist
  <2>3. SumFrom(text, 2, n + 4) = f[n + 4]
    BY <2>1, <2>2, SumIs
  <2>4. n + 4 \in 0 .. n + 4
    BY <1>1
  <2> QED BY <2>2, <2>3, <2>4 DEF Sums
<1> QED BY <1>6, <1>7, <1>8, <1>9, <1>11 DEF n, LengthPos

LEMMA RewriteText ==
  ASSUME NEW str \in Seq(Char), Len(str) >= 9, \A p \in 2 .. 9 : IsDigit(str[p]),
         NEW d \in Seq(0 .. 255)
  PROVE  /\ Rewrite(str, d) \in Seq(Char) /\ Len(Rewrite(str, d)) = 2 * Len(d) + 11
         /\ \A p \in 1 .. 9 : Rewrite(str, d)[p] = str[p]
         /\ \A p \in 2 .. Len(Rewrite(str, d)) : IsDigit(Rewrite(str, d)[p])
         /\ \A k \in 1 .. Len(d) : str2byte(Rewrite(str, d), 2 * k + 8) = d[k]
         /\ SumFrom(Rewrite(str, d), LengthPos, Len(d) + 5) = 0
<1> DEFINE n == Len(d)
           text == SubSeq(str, 1, DataPos - 1) \o Digits(d)
           sum == SumFrom(text, LengthPos, n + 4)
           chk == Checksum(sum)
           out == Rewrite(str, d)
<1>1. n \in Nat
  OBVIOUS
<1>2. out = text \o byte2str(chk)
  BY DEF Rewrite
<1> HIDE DEF out, text
<1>3. /\ text \in Seq(Char) /\ Len(text) = 9 + 2 * n
      /\ \A p \in 1 .. 9 : text[p] = str[p]
      /\ \A k \in 1 .. n : text[2 * k + 8] = d[k] \div 16 /\ text[2 * k + 9] = d[k] % 16
      /\ \A p \in 2 .. Len(text) : IsDigit(text[p])
      /\ sum \in 0 .. 255
  BY RewriteParts DEF text
<1> HIDE DEF sum, n
<1>4. chk \in 0 .. 255 /\ (sum + chk) % 256 = 0
  BY <1>3, ChecksumCancels
<1> HIDE DEF chk
<1> DEFINE c1 == chk \div 16
           c2 == chk % 16
<1>5. c1 \in 0 .. 15 /\ c2 \in 0 .. 15 /\ 16 * c1 + c2 = chk
  BY <1>4
<1>6. byte2str(chk) = <<c1, c2>>
  BY DEF byte2str
<1> HIDE DEF c1, c2
<1>7. <<c1, c2>> \in Seq(Char) /\ Len(<<c1, c2>>) = 2 /\ <<c1, c2>>[1] = c1 /\ <<c1, c2>>[2] = c2
  <2>1. c1 \in Char /\ c2 \in Char
    BY <1>5 DEF Char, Other
  <2> QED BY <2>1
<1>8. /\ out \in Seq(Char) /\ Len(out) = 11 + 2 * n
      /\ \A p \in 1 .. 9 + 2 * n : out[p] = text[p]
      /\ out[10 + 2 * n] = c1 /\ out[11 + 2 * n] = c2
  <2> DEFINE tail == <<c1, c2>>
  <2>1. tail \in Seq(Char) /\ Len(tail) = 2 /\ tail[1] = c1 /\ tail[2] = c2 /\ out = text \o tail
    BY <1>2, <1>6, <1>7, Zenon
  <2> HIDE DEF tail
  <2>2. /\ out \in Seq(Char) /\ Len(out) = Len(text) + Len(tail)
        /\ \A p \in 1 .. Len(text) + Len(tail) :
             out[p] = IF p <= Len(text) THEN text[p] ELSE tail[p - Len(text)]
    BY <1>3, <2>1, ConcatProperties, ZenonT(30)
  <2>3. /\ Len(out) = 11 + 2 * n
        /\ \A p \in 1 .. 11 + 2 * n : out[p] = IF p <= 9 + 2 * n THEN text[p] ELSE tail[p - (9 + 2 * n)]
    <3>1. Len(text) = 9 + 2 * n /\ Len(text) + Len(tail) = 11 + 2 * n
      BY <1>1, <1>3, <2>1, TextPositions, Zenon
    <3> QED BY <2>2, <3>1, Zenon
  <2>4. \A p \in 1 .. 9 + 2 * n : out[p] = text[p]
    BY <1>1, <2>3, TextPositions, Zenon
  <2>5. out[10 + 2 * n] = c1 /\ out[11 + 2 * n] = c2
    <3> DEFINE p == 10 + 2 * n
               q == 11 + 2 * n
               l == 9 + 2 * n
    <3>1. p \in 1 .. q /\ ~ (p <= l) /\ p - l = 1 /\ q \in 1 .. q /\ ~ (q <= l) /\ q - l = 2
      BY <1>1, TextPositions, Zenon
    <3>2. \A x \in 1 .. q : ~ (x <= l) => out[x] = tail[x - l]
      BY <2>3, Zenon
    <3> HIDE DEF p, q, l
    <3>3. out[p] = tail[1] /\ out[q] = tail[2]
      BY <3>1, <3>2
    <3> QED BY <2>1, <3>3 DEF p, q
  <2> QED BY <2>2, <2>3, <2>4, <2>5
<1>9. ASSUME NEW p \in 2 .. 11 + 2 * n PROVE IsDigit(out[p])
  <2>1. CASE p \in 1 .. 9 + 2 * n /\ p \in 2 .. 9 + 2 * n
    BY <1>3, <1>8, <2>1, Zenon
  <2>2. CASE p = 10 + 2 * n \/ p = 11 + 2 * n
    BY <1>5, <1>8, <2>2, SmallNumbers, Zenon
  <2> QED BY <1>1, <2>1, <2>2, TextPositions, Zenon
<1>10. ASSUME NEW p \in 2 .. 8 + 2 * n PROVE str2byte(out, p) = str2byte(text, p)
  <2>1. p \in 1 .. 9 + 2 * n /\ p + 1 \in 1 .. 9 + 2 * n
    BY <1>1, TextPositions, Zenon
  <2> QED BY <1>8, <2>1, Zenon DEF str2byte
<1>11. \A x \in 0 .. 15 : Value(x) = x
  BY SmallNumbers, Zenon
<1>12. ASSUME NEW k \in 1 .. n PROVE str2byte(out, 2 * k + 8) = d[k]
  <2>1. d[k] \in 0 .. 255
    BY ElementOfSeq DEF n
  <2>2. d[k] \div 16 \in 0 .. 15 /\ d[k] % 16 \in 0 .. 15
        /\ 16 * (d[k] \div 16) + (d[k] % 16) = d[k]
    BY <2>1, SmallNumbers, Zenon
  <2>3. 2 * k + 8 \in 2 .. 8 + 2 * n /\ (2 * k + 8) + 1 = 2 * k + 9
    BY <1>1, TextPositions, Zenon
  <2>4. str2byte(text, 2 * k + 8) = 16 * Value(d[k] \div 16) + Value(d[k] % 16)
    BY <1>3, <2>3, Zenon DEF str2byte
  <2> QED BY <1>10, <1>11, <2>2, <2>3, <2>4, Zenon
<1>13. SumFrom(out, 2, n + 5) = 0
  <2>1. ASSUME NEW k \in 1 .. n + 5 PROVE NthByte(out, 2, k) \in 0 .. 255
    <3>1. 2 * k \in 2 .. 11 + 2 * n /\ 2 * k + 1 \in 2 .. 11 + 2 * n /\ k \in Int
      BY <1>1, TextPositions, Zenon
    <3> QED BY <1>9, <3>1, ByteType, NthByteIs
  <2>2. ASSUME NEW k \in 1 .. n + 4 PROVE NthByte(out, 2, k) = NthByte(text, 2, k)
    <3>1. 2 * k \in 2 .. 8 + 2 * n /\ k \in Int
      BY <1>1, TextPositions, Zenon
    <3> QED BY <1>10, <3>1, NthByteIs
  <2>3. NthByte(out, 2, (n + 4) + 1) = chk
    <3>1. 2 * (n + 5) = 10 + 2 * n /\ (10 + 2 * n) + 1 = 11 + 2 * n /\ n + 5 \in Int
          /\ (n + 4) + 1 = n + 5
      BY <1>1, TextPositions, Zenon
    <3>2. NthByte(out, 2, n + 5) = str2byte(out, 10 + 2 * n)
      BY <3>1, NthByteIs, Zenon
    <3>3. str2byte(out, 10 + 2 * n) = 16 * Value(c1) + Value(c2)
      BY <1>8, <3>1, Zenon DEF str2byte
    <3> QED BY <1>5, <1>11, <3>1, <3>2, <3>3, Zenon
  <2>4. /\ HasBytes(out, 2, n + 4) /\ HasBytes(out, 2, (n + 4) + 1)
        /\ n + 4 \in Nat /\ (n + 4) + 1 = n + 5
    BY <1>1, <2>1, SmallNumbers, TextPositions, ZenonT(30) DEF HasBytes
  <2>5. SumFrom(out, 2, n + 4) = SumFrom(text, 2, n + 4)
    BY <2>2, <2>4, SumAgree
  <2>6. SumFrom(out, 2, (n + 4) + 1) = (SumFrom(out, 2, n + 4) + NthByte(out, 2, (n + 4) + 1)) % 256
    BY <2>4, SumNext
  <2> QED BY <1>4, <2>3, <2>4, <2>5, <2>6 DEF sum, LengthPos
<1>14. \A p \in 1 .. 9 : out[p] = str[p]
  BY <1>1, <1>3, <1>8
<1> QED BY <1>8, <1>9, <1>12, <1>13, <1>14 DEF n, out, LengthPos
\* The record of a rewritten text is that of the text with its data replaced.
LEMMA RewrittenRecord ==
  ASSUME NEW str \in Seq(Char), Parse(str) # Refused, Parse(str).kind = "data",
         NEW d \in Seq(0 .. 255), Len(d) = Len(Parse(str).data)
  PROVE  /\ Rewrite(str, d) \in Seq(Char)
         /\ Parse(Rewrite(str, d)) = [Parse(str) EXCEPT !.data = d]
<1> DEFINE out == Rewrite(str, d)
           n == Len(d)
<1>1. n \in Nat
  OBVIOUS
<1>2. WellFormed(str)
  BY DEF Parse
<1>3. str2byte(str, TypePos) = 0
  BY <1>2 DEF Parse, Record, Refused
<1>4. Parse(str) = Record("data", Word16(str, AddrPos), Data(str))
  BY <1>2, <1>3 DEF Parse
<1>5. /\ Length(str) \in Nat /\ Len(str) = 2 * Length(str) + 11 /\ Len(str) \in Nat
      /\ \A p \in 2 .. Len(str) : IsDigit(str[p])
  BY <1>2, AcceptedText
<1>6. Length(str) = n
  <2>1. Len(Data(str)) = Length(str)
    BY <1>5 DEF Data
  <2> QED BY <1>4, <2>1 DEF Record
<1>7. Len(str) >= 9 /\ \A p \in 2 .. 9 : p \in 2 .. Len(str)
  BY <1>5
<1>8. /\ out \in Seq(Char) /\ Len(out) = 2 * n + 11
      /\ \A p \in 1 .. 9 : out[p] = str[p]
      /\ \A p \in 2 .. Len(out) : IsDigit(out[p])
      /\ \A k \in 1 .. n : str2byte(out, 2 * k + 8) = d[k]
      /\ SumFrom(out, LengthPos, n + 5) = 0
  <2>1. \A p \in 2 .. 9 : IsDigit(str[p])
    BY <1>5, <1>7, Zenon
  <2> QED BY <1>7, <2>1, RewriteText
<1> HIDE DEF out, n
<1>9. \A p \in 1 .. 8 : str2byte(out, p) = str2byte(str, p)
  <2>1. \A p \in 1 .. 8 : p \in 1 .. 9 /\ p + 1 \in 1 .. 9
    OBVIOUS
  <2> QED BY <1>8, <2>1, Zenon DEF str2byte
<1>10. Length(out) = n
  <2>1. 2 \in 1 .. 8
    OBVIOUS
  <2> QED BY <1>6, <1>9, <2>1, Zenon DEF Length, LengthPos
<1>11. WellFormed(out)
  <2>1. out # <<>> /\ out[1] = Colon
    <3>1. 1 \in 1 .. 9
      OBVIOUS
    <3>2. out[1] = Colon
      BY <1>2, <1>8, <3>1, Zenon DEF WellFormed
    <3> QED BY <1>1, <1>8, <3>2
  <2>2. IsByte(out, LengthPos)
    <3>1. 3 <= Len(out) /\ 2 \in 2 .. Len(out) /\ 3 \in 2 .. Len(out)
      BY <1>1, <1>8
    <3> QED BY <1>8, <3>1 DEF IsByte, LengthPos
  <2> QED BY <1>8, <1>10, <2>1, <2>2, Zenon DEF WellFormed, UtilData
<1>12. str2byte(out, TypePos) = 0 /\ Word16(out, AddrPos) = Word16(str, AddrPos)
  <2>1. {4, 6, 8} \subseteq 1 .. 8 /\ 4 + 2 = 6
    OBVIOUS
  <2> QED BY <1>3, <1>9, <2>1 DEF TypePos, AddrPos, Word16
<1>13. Data(out) = d
  <2>1. \A k \in 1 .. n : DataPos + 2 * (k - 1) = 2 * k + 8
    BY <1>1 DEF DataPos
  <2>2. Data(out) = [k \in 1 .. n |-> d[k]]
    BY <1>8, <1>10, <2>1 DEF Data
  <2>3. d = [k \in 1 .. n |-> d[k]]
    BY DEF n
  <2> QED BY <2>2, <2>3, Zenon
<1>14. Parse(out) = Record("data", Word16(str, AddrPos), d)
  BY <1>11, <1>12, <1>13 DEF Parse
<1> QED BY <1>4, <1>8, <1>14, SMTT(30) DEF Record, out
(***************************************************************************)
(* The key stream.                                                         *)
(***************************************************************************)
LEMMA DivModNat ==
  ASSUME NEW p \in Nat \ {0}, NEW x \in Nat
  PROVE  /\ x \div p \in Nat /\ x % p \in 0 .. p - 1
         /\ x = p * (x \div p) + (x % p)
  BY SMT

LEMMA DivAtLeast ==
  ASSUME NEW p \in Nat \ {0}, NEW k \in Int, NEW x \in Int, x >= k * p
  PROVE  x \div p >= k
  BY SMT

\* The block of the m-th byte is one of the blocks that n bytes fill.
LEMMA BlockOfByte ==
  ASSUME NEW p \in Nat \ {0}, NEW n \in Nat, NEW m \in Nat, m < n
  PROVE  /\ m \div p \in Nat /\ m % p \in 0 .. p - 1
         /\ (m \div p) + 1 <= (n + p - 1) \div p
<1> DEFINE q == m \div p
<1>1. q \in Nat /\ m = p * q + (m % p) /\ m % p \in 0 .. p - 1
  BY DivModNat
<1> HIDE DEF q
<1>2. p * q <= m
  BY <1>1
<1>3. (q + 1) * p <= n + p - 1 /\ q + 1 \in Int /\ n + p - 1 \in Int
  BY <1>1, <1>2
<1>4. (n + p - 1) \div p >= q + 1
  BY <1>3, DivAtLeast
<1>5. (n + p - 1) \div p \in Nat
  <2>1. n + p - 1 \in Nat
    OBVIOUS
  <2> QED BY <2>1, DivModNat
<1> QED BY <1>1, <1>4, <1>5 DEF q

LEMMA BlockSizes == BlockLen \in Nat \ {0} /\ MaxBlocks \in Nat
BY EncrypterAssumption, Zenon

LEMMA BlocksType ==
  ASSUME NEW data \in Seq(0 .. 255)
  PROVE  BlocksOf(data) \in Nat
<1>1. Len(data) + BlockLen - 1 \in Nat /\ BlockLen \in Nat \ {0}
  BY BlockSizes
<1> QED BY <1>1, DivModNat, Zenon DEF BlocksOf

LEMMA XcryptTwice ==
  ASSUME NEW ctr \in Nat, NEW data \in Seq(0 .. 255), ctr + BlocksOf(data) <= MaxBlocks
  PROVE  /\ Xcrypt(ctr, data) \in Seq(0 .. 255) /\ Len(Xcrypt(ctr, data)) = Len(data)
         /\ Xcrypt(ctr, Xcrypt(ctr, data)) = data
<1> DEFINE n == Len(data)
           key(i, b) == Crypt(ctr + ((i - 1) \div BlockLen), (i - 1) % BlockLen, b)
           out == [i \in 1 .. n |-> key(i, data[i])]
<1>1. n \in Nat
  OBVIOUS
<1>2. BlockLen \in Nat \ {0} /\ MaxBlocks \in Nat
  BY BlockSizes
<1>3. \A i \in 1 .. n : data[i] \in 0 .. 255
  BY ElementOfSeq
<1>4. ASSUME NEW i \in 1 .. n, NEW b \in 0 .. 255
      PROVE  key(i, b) \in 0 .. 255 /\ key(i, key(i, b)) = b
  <2>1. i - 1 \in Nat /\ i - 1 < n
    BY <1>1
  <2>2. /\ (i - 1) \div BlockLen \in Nat /\ (i - 1) % BlockLen \in 0 .. BlockLen - 1
        /\ ((i - 1) \div BlockLen) + 1 <= (n + BlockLen - 1) \div BlockLen
    BY <1>1, <1>2, <2>1, BlockOfByte
  <2>3. ctr + ((i - 1) \div BlockLen) \in 0 .. MaxBlocks
    <3>1. (n + BlockLen - 1) \div BlockLen \in Nat
      BY BlocksType DEF BlocksOf
    <3>2. ctr + ((n + BlockLen - 1) \div BlockLen) <= MaxBlocks
      BY DEF BlocksOf
    <3> QED BY <1>2, <2>2, <3>1, <3>2
  <2> QED BY <2>2, <2>3, EncrypterAssumption
<1>5. Xcrypt(ctr, data) = out
  BY DEF Xcrypt
<1>6. out \in [1 .. n -> 0 .. 255]
  <2> HIDE DEF n, key
  <2> QED BY <1>3, <1>4
<1>7. out \in Seq(0 .. 255) /\ Len(out) = n
  <2> HIDE DEF n, key, out
  <2> QED BY <1>1, <1>6, FunctionIsSeq
<1>8. Xcrypt(ctr, out) = [i \in 1 .. n |-> key(i, out[i])]
  BY <1>7 DEF Xcrypt
<1>9. [i \in 1 .. n |-> key(i, out[i])] = [i \in 1 .. n |-> data[i]]
  <2> HIDE DEF key
  <2>1. \A i \in 1 .. n : out[i] = key(i, data[i])
    OBVIOUS
  <2> HIDE DEF n, out
  <2>2. \A i \in 1 .. n : key(i, out[i]) = data[i]
    BY <1>3, <1>4, <2>1, ZenonT(60)
  <2> QED BY <2>2
<1>10. data = [i \in 1 .. n |-> data[i]]
  OBVIOUS
<1> QED BY <1>5, <1>7, <1>8, <1>9, <1>10

\* A record without data is not changed by the encryption.
LEMMA XcryptNothing ==
  ASSUME NEW ctr \in Nat
  PROVE  Xcrypt(ctr, <<>>) = <<>>
<1>1. Xcrypt(ctr, <<>>) = [i \in 1 .. 0 |-> Crypt(ctr + ((i - 1) \div BlockLen), (i - 1) % BlockLen, <<>>[i])]
  BY DEF Xcrypt
<1> QED BY <1>1

(***************************************************************************)
(* The invariant.  There is a counter for every record that was encrypted, *)
(* at which its key stream begins; the device has reached the one of the   *)
(* line it is sent next, and that line holds the record, encrypted.        *)
(***************************************************************************)
HexLine == [text : Seq(Char), end : LineEnds]

TypeInv ==
  /\ file \in Seq(HexLine)
  /\ encCtr \in Nat /\ devCtr \in Nat
  /\ output \in Seq(Seq(Char)) /\ written \in Seq(Seq(Char))
  /\ meant \in Seq(Records) /\ got \in Seq(Records)
  /\ Len(meant) = Len(got) + Len(output)

Counters(c) ==
  /\ c \in [1 .. Len(meant) + 1 -> Nat]
  /\ c[1] = 0 /\ c[Len(meant) + 1] = encCtr /\ c[Len(got) + 1] = devCtr
  /\ \A k \in 1 .. Len(meant) :
       c[k + 1] = c[k] + BlocksOf(meant[k].data) /\ c[k + 1] <= MaxBlocks

Encrypted(c) ==
  \A j \in 1 .. Len(output) :
    LET r == meant[Len(got) + j] IN
    Parse(output[j]) = [r EXCEPT !.data = Xcrypt(c[Len(got) + j], r.data)]

AcceptedInv == \A j \in 1 .. Len(written) : Parse(written[j]) # Refused

GotInv == \A j \in 1 .. Len(got) : got[j] = meant[j]

IInv == TypeInv /\ (\E c : Counters(c) /\ Encrypted(c)) /\ AcceptedInv /\ GotInv

LEMMA InitIInv == Init => IInv
<1> SUFFICES ASSUME Init PROVE IInv
  OBVIOUS
<1>1. TypeInv
  <2>1. file \in Seq(HexLine)
    BY EncrypterAssumption DEF Init, HexLine
  <2>2. /\ output \in Seq(Seq(Char)) /\ written \in Seq(Seq(Char))
        /\ meant \in Seq(Records) /\ got \in Seq(Records)
    BY EmptySeq, Zenon DEF Init
  <2>3. Len(meant) = Len(got) + Len(output)
    BY DEF Init
  <2> QED BY <2>1, <2>2, <2>3 DEF Init, TypeInv
<1>2. Counters([i \in 1 .. 1 |-> 0])
  BY DEF Init, Counters
<1>3. Encrypted([i \in 1 .. 1 |-> 0])
  BY DEF Init, Encrypted
<1> QED BY <1>1, <1>2, <1>3 DEF Init, IInv, AcceptedInv, GotInv

\* What the encrypter writes for a line it accepts.
LEMMA LineWritten ==
  ASSUME NEW str \in Seq(Char), Parse(str) # Refused, NEW ctr \in Nat,
         ctr + BlocksOf(Parse(str).data) <= MaxBlocks, NEW out,
         out = IF Parse(str).kind = "data" THEN Rewrite(str, Xcrypt(ctr, Parse(str).data)) ELSE str
  PROVE  /\ out \in Seq(Char)
         /\ Parse(out) = [Parse(str) EXCEPT !.data = Xcrypt(ctr, Parse(str).data)]
<1> DEFINE r == Parse(str)
           d == Xcrypt(ctr, r.data)
<1>1. r \in Records /\ (r.kind # "data" => r.data = <<>>)
  BY ParseType
<1>2. d \in Seq(0 .. 255) /\ Len(d) = Len(r.data)
  BY <1>1, XcryptTwice DEF Records
<1>3. CASE r.kind = "data"
  BY <1>2, <1>3, RewrittenRecord
<1>4. CASE r.kind # "data"
  <2>1. d = <<>> /\ out = str
    BY <1>1, <1>4, XcryptNothing
  <2> QED BY <1>1, <1>4, <2>1 DEF Records
<1> QED BY <1>3, <1>4
LEMMA CutType ==
  ASSUME NEW l \in HexLine
  PROVE  Cut(l) \in Seq(Char)
<1> DEFINE drop == CASE l.end = "crlf" -> 0 [] l.end = "lf" -> 1 [] l.end = "eof" -> 2
           keep == Len(l.text) - drop
<1>1. l.text \in Seq(Char) /\ l.end \in {"crlf", "lf", "eof"}
  BY DEF HexLine, LineEnds
<1>2. drop \in 0 .. 2
  BY <1>1
<1> HIDE DEF drop
<1>3. keep \in Int /\ keep <= Len(l.text)
  BY <1>1, <1>2
<1>4. Cut(l) = SubSeq(l.text, 1, keep)
  BY DEF Cut, drop
<1> HIDE DEF keep
<1>5. \A i \in 1 .. keep : l.text[i] \in Char
  BY <1>1, <1>3, ElementOfSeq
<1> QED BY <1>3, <1>4, <1>5, SubSeqProperties

LEMMA StepNextLine == IInv /\ NextLine => IInv'
<1> SUFFICES ASSUME IInv, NextLine PROVE IInv'
  OBVIOUS
<1> DEFINE str == Cut(Head(file))
           r   == Parse(str)
           out == IF r.kind = "data" THEN Rewrite(str, Xcrypt(encCtr, r.data)) ELSE str
           n   == Len(meant)
<1>1. TypeInv
  BY DEF IInv
<1>2. PICK c : Counters(c) /\ Encrypted(c)
  BY DEF IInv
<1>3. file # <<>> /\ file' = Tail(file) /\ devCtr' = devCtr /\ got' = got
  BY DEF NextLine
<1>4. str \in Seq(Char) /\ file' \in Seq(HexLine)
  <2>1. Head(file) \in HexLine /\ Tail(file) \in Seq(HexLine)
    BY <1>1, <1>3, HeadTailProperties DEF TypeInv
  <2> QED BY <1>3, <2>1, CutType
<1>5. n \in Nat /\ Len(got) \in Nat /\ Len(output) \in Nat /\ Len(written) \in Nat
      /\ n = Len(got) + Len(output)
  BY <1>1 DEF TypeInv
<1>6. CASE r = Refused
  <2>1. UNCHANGED <<encCtr, output, devCtr, meant, written, got>>
    BY <1>3, <1>6 DEF NextLine
  <2>2. TypeInv'
    BY <1>1, <1>4, <2>1 DEF TypeInv
  <2>3. (Counters(c) /\ Encrypted(c))'
    BY <1>2, <2>1 DEF Counters, Encrypted
  <2>4. AcceptedInv' /\ GotInv'
    BY <2>1 DEF IInv, AcceptedInv, GotInv
  <2> QED BY <2>2, <2>3, <2>4 DEF IInv
<1>7. CASE r # Refused
  <2>1. /\ encCtr + BlocksOf(r.data) <= MaxBlocks
        /\ encCtr' = encCtr + BlocksOf(r.data)
        /\ output' = Append(output, out)
        /\ meant' = Append(meant, r)
        /\ written' = Append(written, out)
    BY <1>7 DEF NextLine
  <2>2. encCtr \in Nat
    BY <1>1 DEF TypeInv
  <2>3. r \in Records /\ r.data \in Seq(0 .. 255)
    <3>1. r \in Records
      BY <1>4, <1>7, ParseType
    <3> QED BY <3>1 DEF Records
  <2>4. out \in Seq(Char) /\ Parse(out) = [r EXCEPT !.data = Xcrypt(encCtr, r.data)]
    BY <1>4, <1>7, <2>1, <2>2, LineWritten
  <2>5. BlocksOf(r.data) \in Nat
    BY <2>3, BlocksType
  <2> HIDE DEF str, r, out
  <2>6. /\ meant' \in Seq(Records) /\ Len(meant') = n + 1 /\ meant'[n + 1] = r
        /\ \A k \in 1 .. n : meant'[k] = meant[k]
    <3>1. meant \in Seq(Records) /\ r \in Records
      BY <1>1, <2>3 DEF TypeInv
    <3> QED BY <2>1, <3>1, AppendProperties, SMTT(30)
  <2>7. /\ output' \in Seq(Seq(Char)) /\ Len(output') = Len(output) + 1
        /\ output'[Len(output) + 1] = out
        /\ \A j \in 1 .. Len(output) : output'[j] = output[j]
    BY <1>1, <2>1, <2>4, AppendProperties DEF TypeInv
  <2>8. /\ written' \in Seq(Seq(Char)) /\ Len(written') = Len(written) + 1
        /\ written'[Len(written) + 1] = out
        /\ \A j \in 1 .. Len(written) : written'[j] = written[j]
    BY <1>1, <2>1, <2>4, AppendProperties DEF TypeInv
  <2> HIDE DEF n
  <2>9. TypeInv'
    <3>1. encCtr' \in Nat
      BY <2>1, <2>2, <2>5
    <3>2. Len(meant') = Len(got') + Len(output')
      BY <1>3, <1>5, <2>6, <2>7
    <3> QED BY <1>1, <1>3, <1>4, <2>6, <2>7, <2>8, <3>1, <3>2 DEF TypeInv
  <2>10. /\ c \in [1 .. n + 1 -> Nat] /\ c[1] = 0 /\ c[n + 1] = encCtr /\ c[Len(got) + 1] = devCtr
         /\ \A k \in 1 .. n : c[k + 1] = c[k] + BlocksOf(meant[k].data) /\ c[k + 1] <= MaxBlocks
    BY <1>2 DEF Counters, n
  <2>11. PICK e \in [1 .. n + 2 -> Nat] :
            e[n + 2] = encCtr + BlocksOf(r.data) /\ \A k \in 1 .. n + 1 : e[k] = c[k]
    <3> DEFINE e == [k \in 1 .. n + 2 |-> IF k = n + 2 THEN encCtr + BlocksOf(r.data) ELSE c[k]]
    <3>1. /\ e \in [1 .. n + 2 -> Nat] /\ e[n + 2] = encCtr + BlocksOf(r.data)
          /\ \A k \in 1 .. n + 1 : e[k] = c[k]
      BY <1>5, <2>2, <2>5, <2>10
    <3> HIDE DEF e
    <3> QED BY <3>1
  <2>12. Counters(e)'
    <3>1. e \in [1 .. Len(meant') + 1 -> Nat]
      BY <1>5, <2>6, <2>11
    <3>2. e[1] = 0 /\ e[Len(meant') + 1] = encCtr' /\ e[Len(got') + 1] = devCtr'
      BY <1>3, <1>5, <2>1, <2>6, <2>10, <2>11
    <3>3. ASSUME NEW k \in 1 .. Len(meant')
          PROVE  e[k + 1] = e[k] + BlocksOf(meant'[k].data) /\ e[k + 1] <= MaxBlocks
      <4>1. CASE k \in 1 .. n
        <5>1. k \in 1 .. n + 1 /\ k + 1 \in 1 .. n + 1
          BY <1>5, <4>1
        <5> QED BY <2>6, <2>10, <2>11, <4>1, <5>1
      <4>2. CASE k = n + 1
        <5>1. n + 1 \in 1 .. n + 1 /\ (n + 1) + 1 = n + 2
          BY <1>5
        <5> QED BY <2>1, <2>6, <2>10, <2>11, <4>2, <5>1
      <4> QED BY <1>5, <2>6, <4>1, <4>2
    <3> QED BY <3>1, <3>2, <3>3 DEF Counters
  <2>13. Encrypted(e)'
    <3>1. ASSUME NEW j \in 1 .. Len(output')
          PROVE  Parse(output'[j]) =
                   [meant'[Len(got) + j] EXCEPT !.data = Xcrypt(e[Len(got) + j], meant'[Len(got) + j].data)]
      <4>1. CASE j \in 1 .. Len(output)
        <5>1. Len(got) + j \in 1 .. n /\ Len(got) + j \in 1 .. n + 1
          BY <1>5, <4>1
        <5>2. Parse(output[j]) =
                [meant[Len(got) + j] EXCEPT !.data = Xcrypt(c[Len(got) + j], meant[Len(got) + j].data)]
          BY <1>2, <4>1 DEF Encrypted
        <5> QED BY <2>6, <2>7, <2>11, <4>1, <5>1, <5>2
      <4>2. CASE j = Len(output) + 1
        <5>1. Len(got) + j = n + 1 /\ n + 1 \in 1 .. n + 1
          BY <1>5, <4>2
        <5>2. e[n + 1] = encCtr
          BY <2>10, <2>11, <5>1
        <5> QED BY <2>4, <2>6, <2>7, <4>2, <5>1, <5>2
      <4> QED BY <1>5, <2>7, <4>1, <4>2
    <3> QED BY <1>3, <3>1, Zenon DEF Encrypted
  <2>14. AcceptedInv'
    <3>1. Parse(out) # Refused
      <4>1. Parse(out).kind = r.kind
        BY <2>3, <2>4 DEF Records
      <4>2. r.kind # "bad"
        BY <2>3 DEF Records, RecordKinds
      <4> QED BY <4>1, <4>2 DEF Refused
    <3>2. ASSUME NEW j \in 1 .. Len(written') PROVE Parse(written'[j]) # Refused
      <4>1. j \in 1 .. Len(written) \/ j = Len(written) + 1
        BY <1>5, <2>8
      <4> QED BY <2>8, <3>1, <4>1 DEF IInv, AcceptedInv
    <3> QED BY <3>2 DEF AcceptedInv
  <2>15. GotInv'
    <3>1. \A j \in 1 .. Len(got) : j \in 1 .. n
      BY <1>5
    <3> QED BY <1>3, <2>6, <3>1 DEF IInv, GotInv
  <2> QED BY <2>9, <2>12, <2>13, <2>14, <2>15 DEF IInv
<1> QED BY <1>6, <1>7
LEMMA StepFeedDevice == IInv /\ FeedDevice => IInv'
<1> SUFFICES ASSUME IInv, FeedDevice PROVE IInv'
  OBVIOUS
<1> DEFINE r == Parse(Head(output))
           m == Len(got) + 1
           g == [r EXCEPT !.data = Xcrypt(devCtr, r.data)]
<1>1. TypeInv
  BY DEF IInv
<1>2. PICK c : Counters(c) /\ Encrypted(c)
  BY DEF IInv
<1>3. /\ output # <<>> /\ output' = Tail(output)
      /\ got' = Append(got, g) /\ devCtr' = devCtr + BlocksOf(r.data)
      /\ UNCHANGED <<file, encCtr, meant, written>>
  BY DEF FeedDevice
<1>4. /\ Len(meant) \in Nat /\ Len(got) \in Nat /\ Len(output) \in Nat \ {0}
      /\ Len(meant) = Len(got) + Len(output) /\ m \in 1 .. Len(meant)
  <2>1. Len(output) \in Nat \ {0}
    BY <1>1, <1>3, EmptySeq DEF TypeInv
  <2> QED BY <1>1, <2>1 DEF TypeInv
<1>5. /\ c \in [1 .. Len(meant) + 1 -> Nat] /\ c[1] = 0
      /\ c[Len(meant) + 1] = encCtr /\ c[m] = devCtr
      /\ \A k \in 1 .. Len(meant) : c[k + 1] = c[k] + BlocksOf(meant[k].data) /\ c[k + 1] <= MaxBlocks
  BY <1>2 DEF Counters
<1> DEFINE p == meant[m]
<1>6. p \in Records /\ p.data \in Seq(0 .. 255)
  <2>1. p \in Records
    BY <1>1, <1>4, ElementOfSeq DEF TypeInv
  <2> QED BY <2>1 DEF Records
<1>7. r = [p EXCEPT !.data = Xcrypt(devCtr, p.data)]
  <2>1. Head(output) = output[1] /\ 1 \in 1 .. Len(output)
    BY <1>3, <1>4
  <2> QED BY <1>2, <1>5, <2>1 DEF Encrypted
<1>8. devCtr \in Nat /\ devCtr + BlocksOf(p.data) <= MaxBlocks
  BY <1>1, <1>4, <1>5 DEF TypeInv
<1> DEFINE d == Xcrypt(devCtr, p.data)
<1>9. d \in Seq(0 .. 255) /\ Len(d) = Len(p.data) /\ Xcrypt(devCtr, d) = p.data
  BY <1>6, <1>8, XcryptTwice
<1>10. r.data = d
  BY <1>6, <1>7 DEF Records
<1>11. g = p
  <2>1. g = [p EXCEPT !.data = Xcrypt(devCtr, d)]
    BY <1>6, <1>7, <1>10 DEF Records
  <2> QED BY <1>6, <1>9, <2>1 DEF Records
<1>12. BlocksOf(r.data) = BlocksOf(p.data) /\ BlocksOf(p.data) \in Nat
  BY <1>6, <1>9, <1>10, BlocksType DEF BlocksOf
<1> HIDE DEF r, g, d, p, m
<1>13. /\ got' \in Seq(Records) /\ Len(got') = m /\ got'[m] = p
       /\ \A j \in 1 .. Len(got) : got'[j] = got[j]
  BY <1>1, <1>3, <1>6, <1>11, AppendProperties DEF TypeInv, m
<1>14. /\ output' \in Seq(Seq(Char)) /\ Len(output') = Len(output) - 1
       /\ \A j \in 1 .. Len(output') : output'[j] = output[j + 1]
  BY <1>1, <1>3, HeadTailProperties DEF TypeInv
<1>15. TypeInv'
  <2>1. devCtr' \in Nat
    BY <1>3, <1>8, <1>12
  <2>2. Len(meant') = Len(got') + Len(output')
    BY <1>3, <1>4, <1>13, <1>14 DEF m
  <2> QED BY <1>1, <1>3, <1>13, <1>14, <2>1, <2>2 DEF TypeInv
<1>16. Counters(c)'
  <2>1. c[Len(got') + 1] = devCtr'
    BY <1>3, <1>4, <1>5, <1>12, <1>13 DEF p
  <2> QED BY <1>3, <1>5, <2>1 DEF Counters
<1>17. Encrypted(c)'
  <2>1. ASSUME NEW j \in 1 .. Len(output')
        PROVE  Parse(output'[j]) =
                 [meant[m + j] EXCEPT !.data = Xcrypt(c[m + j], meant[m + j].data)]
    <3>1. j + 1 \in 1 .. Len(output) /\ Len(got) + (j + 1) = m + j
      BY <1>4, <1>14 DEF m
    <3> QED BY <1>2, <1>14, <3>1 DEF Encrypted
  <2> QED BY <1>3, <1>13, <2>1 DEF Encrypted
<1>18. AcceptedInv' /\ GotInv'
  <2>1. AcceptedInv'
    BY <1>3 DEF IInv, AcceptedInv
  <2>2. ASSUME NEW j \in 1 .. Len(got') PROVE got'[j] = meant'[j]
    <3>1. j \in 1 .. Len(got) \/ j = m
      BY <1>4, <1>13 DEF m
    <3> QED BY <1>3, <1>13, <3>1 DEF IInv, GotInv, p
  <2> QED BY <2>1, <2>2 DEF GotInv
<1> QED BY <1>15, <1>16, <1>17, <1>18 DEF IInv

LEMMA StepIInv == IInv /\ [Next]_vars => IInv'
<1> SUFFICES ASSUME IInv, [Next]_vars PROVE IInv'
  OBVIOUS
<1>1. CASE NextLine
  BY <1>1, StepNextLine
<1>2. CASE FeedDevice
  BY <1>2, StepFeedDevice
<1>3. CASE UNCHANGED vars
  <2>1. PICK c : Counters(c) /\ Encrypted(c)
    BY DEF IInv
  <2>2. TypeInv' /\ AcceptedInv' /\ GotInv'
    BY <1>3 DEF IInv, TypeInv, AcceptedInv, GotInv, vars
  <2>3. Counters(c)' /\ Encrypted(c)'
    BY <1>3, <2>1 DEF Counters, Encrypted, vars
  <2> QED BY <2>2, <2>3 DEF IInv
<1> QED BY <1>1, <1>2, <1>3 DEF Next

LEMMA Invariance == Spec => []IInv
<1> QED BY InitIInv, StepIInv, PTL DEF Spec

LEMMA IInvPlaintext == IInv => DeviceGetsPlaintext
<1> SUFFICES ASSUME IInv PROVE DeviceGetsPlaintext
  OBVIOUS
<1> DEFINE n == Len(got)
<1>1. /\ got \in Seq(Records) /\ meant \in Seq(Records) /\ n \in Nat
      /\ \A i \in 1 .. n : i \in 1 .. Len(meant) /\ got[i] = meant[i]
  BY DEF IInv, TypeInv, GotInv
<1>2. \A i \in 1 .. n : meant[i] \in Records
  BY <1>1, ElementOfSeq
<1> DEFINE s == SubSeq(meant, 1, n)
<1>3. s \in Seq(Records) /\ Len(s) = n /\ \A i \in 1 .. n : s[i] = meant[i]
  BY <1>1, <1>2, SubSeqProperties
<1> HIDE DEF s
<1>4. got = s
  BY <1>1, <1>3, SeqEqual
<1> QED BY <1>4 DEF s, DeviceGetsPlaintext

LEMMA IInvDamage == IInv => DamageNoticed
<1> SUFFICES ASSUME IInv, written # <<>>,
                    NEW i \in 1 .. Len(written[Len(written)]), NEW c \in Char
             PROVE  Parse([written[Len(written)] EXCEPT ![i] = c])
                      \in {Refused, Parse(written[Len(written)])}
  BY DEF DamageNoticed
<1> DEFINE str == written[Len(written)]
<1>1. Len(written) \in 1 .. Len(written) /\ str \in Seq(Char)
  BY EmptySeq, ElementOfSeq DEF IInv, TypeInv
<1>2. Parse(str) # Refused
  BY <1>1 DEF IInv, AcceptedInv
<1>3. WellFormed(str)
  BY <1>2 DEF Parse
<1>4. i \in 1 .. Len(str)
  OBVIOUS
<1> HIDE DEF str
<1>5. Parse([str EXCEPT ![i] = c]) \in {Refused, Parse(str)}
  <2>1. CASE WellFormed([str EXCEPT ![i] = c])
    BY <1>1, <1>3, <1>4, <2>1, OneCharacter
  <2>2. CASE ~ WellFormed([str EXCEPT ![i] = c])
    <3>1. Parse([str EXCEPT ![i] = c]) = Refused
      BY <2>2 DEF Parse
    <3> QED BY <3>1
  <2> QED BY <2>1, <2>2
<1> QED BY <1>5 DEF str

(***************************************************************************)
(* The device gets the records of the hex file, with the data they had     *)
(* there, whatever their lengths and whichever lines were dropped: for     *)
(* every file and every key stream.                                        *)
(***************************************************************************)
THEOREM PlaintextHolds == Spec => []DeviceGetsPlaintext
<1> QED BY Invariance, IInvPlaintext, PTL

(***************************************************************************)
(* No character of a line the encrypter wrote can be replaced by another   *)
(* without the parser refusing the line, or making the same record of it.  *)
(***************************************************************************)
THEOREM DamageNoticedHolds == Spec => []DamageNoticed
<1> QED BY Invariance, IInvDamage, PTL
=============================================================================
