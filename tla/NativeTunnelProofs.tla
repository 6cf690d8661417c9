------------------------- MODULE NativeTunnelProofs -------------------------
(***************************************************************************)
(* Proofs about NativeTunnel, and before them about Checksum, which it     *)
(* extends.                                                                *)
(*                                                                         *)
(* Checksum, for all sizes of a byte, all words, all lengths and every bit *)
(* that ip_checksum may test: uint32_t is wide enough for the sum of a     *)
(* packet (TotalBounded), and neither a carry added nor one put off        *)
(* changes the sum modulo Base - 1 (FoldKeepsRemainder).                   *)
(*                                                                         *)
(* NativeTunnel, for any set of descriptors and any queue: IndInv says at  *)
(* which statement of the main thread the object, its reference and the    *)
(* device are there (ObjectKnown, DeviceKnown), and adds the invariant of  *)
(* the checksums.                                                          *)
(***************************************************************************)
EXTENDS NativeTunnel, FiniteSetTheorems, WellFoundedInduction, TLAPS

---------------------------------------------------------------------------
(* Checksum: the inductive invariant. *)

\* Two bytes that have been read, or one word of the pseudo header, add at
\* most Base - 1.
TotalBounded == 2 * total <= (length - left + 2 * added) * (Base - 1)

\* The check field is what Return computed.
CheckKnown == phase = "done" => sum < Base /\ check = Base - 1 - sum

ChecksumIndInv ==
  /\ ChecksumTypeOK
  /\ SumIsCongruent
  /\ TotalBounded
  /\ CheckKnown

---------------------------------------------------------------------------
(* Arithmetic. *)

LEMMA ProductOfNat ==
  ASSUME NEW a \in Nat, NEW b \in Nat
  PROVE  a * b \in Nat
OBVIOUS

LEMMA ProductMonotonic ==
  ASSUME NEW a \in Nat, NEW b \in Nat, NEW n \in Nat, a <= b
  PROVE  a * n <= b * n
<1>1. b - a \in Nat
  OBVIOUS
<1>2. (b - a) * n \in Nat
  BY <1>1, ProductOfNat
<1>3. b * n = a * n + (b - a) * n
  OBVIOUS
<1>4. a * n \in Nat /\ b * n \in Nat
  BY ProductOfNat
<1> QED
  BY <1>2, <1>3, <1>4

LEMMA DivMod ==
  ASSUME NEW x \in Int, NEW n \in Nat \ {0}
  PROVE  /\ x \div n \in Int
         /\ (x % n) \in Nat /\ (x % n) < n
         /\ x = (x \div n) * n + (x % n)
OBVIOUS

\* A multiple of n leaves the remainder 0.
LEMMA MultipleRemainder ==
  ASSUME NEW q \in Int, NEW n \in Nat \ {0}
  PROVE  (q * n) % n = 0
<1> DEFINE x == q * n
           d == x \div n
<1>1. x \in Int
  OBVIOUS
<1>2. /\ d \in Int /\ (x % n) \in Nat /\ (x % n) < n
      /\ q * n = d * n + (x % n)
  BY <1>1, DivMod
<1>3. (q - d) * n = (x % n) /\ q - d \in Int
  <2>1. (q - d) * n = q * n - d * n
    BY <1>2
  <2>2. q * n \in Int /\ d * n \in Int
    BY <1>2
  <2> QED
    BY <1>2, <2>1, <2>2
<1> HIDE DEF d, x
<1>4. ~(q - d >= 1)
  <2>1. q - d >= 1 => 1 * n <= (q - d) * n
    BY <1>3, ProductMonotonic
  <2> QED
    BY <1>2, <1>3, <2>1
<1>5. ~(q - d <= -1)
  <2>1. ASSUME q - d <= -1 PROVE 1 * n <= (d - q) * n
    <3>1. d - q \in Nat /\ 1 <= d - q
      BY <1>2, <2>1
    <3> QED
      BY <3>1, ProductMonotonic
  <2>2. (d - q) * n = -((q - d) * n)
    BY <1>2
  <2> QED
    BY <1>2, <1>3, <2>1, <2>2
<1>6. q - d = 0
  BY <1>3, <1>4, <1>5
<1>7. (x % n) = 0
  BY <1>3, <1>6
<1> QED
  BY <1>7 DEF x

\* Adding a multiple of n leaves a remainder of 0 as it is.
LEMMA AddMultiple ==
  ASSUME NEW x \in Int, NEW q \in Int, NEW n \in Nat \ {0}, x % n = 0
  PROVE  (x + q * n) % n = 0
<1>1. x \div n \in Int /\ x = (x \div n) * n
  BY DivMod
<1>2. x + q * n = (x \div n + q) * n
  <2> DEFINE d == x \div n
  <2>1. d \in Int /\ x = d * n
    BY <1>1
  <2> HIDE DEF d
  <2>2. x + q * n = (d + q) * n
    BY <2>1
  <2> QED
    BY <2>2 DEF d
<1>3. x \div n + q \in Int
  BY <1>1
<1> QED
  BY <1>2, <1>3, MultipleRemainder

LEMMA Bases ==
  /\ ByteBase \in Nat \ {0} /\ Base \in Nat \ {0} /\ Base - 1 \in Nat \ {0}
  /\ ByteBase * ByteBase = Base
  /\ Base >= 16 /\ SumBase = Base * Base /\ SumBase \in Nat \ {0} /\ SumBase >= Base
  /\ 2 * (ByteBase - 1) <= Base - 1
<1>1. ByteBase \in Nat /\ ByteBase >= 4
  BY ChecksumAssumption
<1>2. \A n \in Nat : n >= 4 => /\ n * n \in Nat /\ n * n >= 4 * n /\ 4 * n >= 16
  <2> SUFFICES ASSUME NEW n \in Nat, n >= 4
               PROVE  n * n \in Nat /\ n * n >= 4 * n /\ 4 * n >= 16
    OBVIOUS
  <2>1. 4 * n <= n * n
    BY ProductMonotonic
  <2> QED
    BY <2>1, ProductOfNat
<1>3. Base \in Nat /\ Base >= 16 /\ Base >= 4 * ByteBase
  BY <1>1, <1>2 DEF Base
<1>4. SumBase \in Nat /\ SumBase >= 4 * Base
  BY <1>2, <1>3 DEF SumBase
<1> QED
  BY <1>1, <1>3, <1>4 DEF Base, SumBase

\* The carries add up to a smaller number with the same remainder.
LEMMA FoldKeepsRemainder ==
  ASSUME NEW s \in 0..(SumBase - 1)
  PROVE  /\ Fold(s) \in Nat /\ Fold(s) <= s
         /\ Fold(s) = 0 => s = 0
         /\ s - Fold(s) = (s \div Base) * (Base - 1)
         /\ s \div Base \in Nat
<1> DEFINE q == s \div Base
           r == s % Base
<1>1. s \in Nat /\ Base \in Nat \ {0}
  BY Bases
<1>2. q \in Int /\ r \in Nat /\ s = q * Base + r /\ r < Base
  BY <1>1, DivMod
<1>3. Fold(s) = r + q
  BY DEF Fold
<1>4. q \in Nat
  BY <1>1
<1> HIDE DEF q, r
<1>5. q * Base = q * (Base - 1) + q
  BY <1>1, <1>4
<1>6. q * (Base - 1) \in Nat
  BY <1>4, Bases, ProductOfNat
<1>7. s - Fold(s) = q * (Base - 1)
  BY <1>1, <1>2, <1>3, <1>4, <1>5, <1>6
<1>8. q = 0 => q * Base = 0
  BY <1>1
<1>9. Fold(s) = 0 => s = 0
  BY <1>1, <1>2, <1>3, <1>4, <1>8
<1> QED
  BY <1>1, <1>2, <1>3, <1>4, <1>6, <1>7, <1>9 DEF q

\* htons of a word is a word.
LEMMA SwapIsWord ==
  ASSUME NEW w \in 0..(Base - 1)
  PROVE  Swap(w) \in 0..(Base - 1)
<1> DEFINE q == w \div ByteBase
           r == w % ByteBase
<1>1. w \in Nat /\ w < Base /\ ByteBase \in Nat \ {0} /\ ByteBase * ByteBase = Base /\ Base \in Nat
  BY Bases
<1>2. q \in Int /\ r \in Nat /\ w = q * ByteBase + r /\ r < ByteBase
  BY <1>1, DivMod
<1>3. q \in Nat
  BY <1>1
<1>4. Swap(w) = r * ByteBase + q
  BY DEF Swap
<1> HIDE DEF q, r
<1>5. ~(q >= ByteBase)
  <2>1. q >= ByteBase => ByteBase * ByteBase <= q * ByteBase
    BY <1>1, <1>3, ProductMonotonic
  <2>2. q * ByteBase \in Nat
    BY <1>1, <1>3, ProductOfNat
  <2> QED
    BY <1>1, <1>2, <2>1, <2>2
<1>6. r * ByteBase <= (ByteBase - 1) * ByteBase
  <2>1. r <= ByteBase - 1 /\ ByteBase - 1 \in Nat
    BY <1>1, <1>2
  <2> QED
    BY <1>1, <1>2, <2>1, ProductMonotonic
<1>7. (ByteBase - 1) * ByteBase = Base - ByteBase
  BY <1>1
<1>8. r * ByteBase \in Nat
  BY <1>1, <1>2, ProductOfNat
<1> QED
  BY <1>1, <1>3, <1>4, <1>5, <1>6, <1>7, <1>8

\* uint32_t is wide enough: the longest packet's sum is less than SumBase.
LEMMA BoundIsSmall ==
  ASSUME NEW n \in Nat, n <= Base - 1 + 12
  PROVE  n * (Base - 1) < 2 * SumBase
<1> DEFINE b == Base
<1>1. b \in Nat /\ b >= 16 /\ SumBase = b * b /\ b - 1 \in Nat /\ b + 11 \in Nat
  BY Bases
<1>2. n * (b - 1) <= (b + 11) * (b - 1)
  BY <1>1, ProductMonotonic
<1> HIDE DEF b
<1>3. (b + 11) * (b - 1) = b * b + 10 * b - 11
  BY <1>1
<1>4. 16 * b <= b * b
  BY <1>1, ProductMonotonic
<1>5. b * b \in Nat /\ n * (b - 1) \in Nat
  BY <1>1, ProductOfNat
<1>6. n * (b - 1) < 2 * SumBase
  BY <1>1, <1>2, <1>3, <1>4, <1>5
<1> QED
  BY <1>6 DEF b

---------------------------------------------------------------------------
(***************************************************************************)
(* The addition of one number v, of which grown bytes have been read, does *)
(* not overflow; carries may be added at once.                             *)
(***************************************************************************)
LEMMA AddStep ==
  ASSUME ChecksumIndInv,
         NEW v \in Nat, NEW grown \in Nat, 2 * v <= grown * (Base - 1),
         length - left + 2 * added + grown <= length + 12,
         total' = total + v,
         sum' \in {Add(v), Fold(Add(v))},
         length' - left' + 2 * added' = length - left + 2 * added + grown
  PROVE  /\ sum' \in 0..(SumBase - 1)
         /\ total' \in Nat
         /\ SumIsCongruent'
         /\ TotalBounded'
<1> DEFINE n == length - left + 2 * added
           b == Base - 1
<1>1. /\ length \in Nat /\ left \in Nat /\ left <= length /\ added \in Nat
      /\ length <= b /\ sum \in Nat /\ total \in Nat
      /\ b \in Nat \ {0} /\ SumBase \in Nat
  BY Bases DEF ChecksumIndInv, ChecksumTypeOK
<1>2. n \in Nat /\ n + grown \in Nat /\ n + grown <= b + 12
  BY <1>1
<1>3. 2 * total <= n * b
  BY DEF ChecksumIndInv, TotalBounded
<1>4. (n + grown) * b < 2 * SumBase
  BY <1>2, BoundIsSmall
<1>5. length' - left' + 2 * added' = n + grown
  OBVIOUS
<1>6. (total - sum) % b = 0 /\ sum <= total /\ (sum = 0 => total = 0)
  BY DEF ChecksumIndInv, SumIsCongruent
<1> HIDE DEF n
<1>7. 2 * (total + v) <= (n + grown) * b
  <2>1. (n + grown) * b = n * b + grown * b
    BY <1>1, <1>2
  <2>2. n * b \in Nat /\ grown * b \in Nat
    BY <1>1, <1>2, ProductOfNat
  <2> QED
    BY <1>1, <1>3, <2>1, <2>2
<1>8. TotalBounded'
  <2>1. TotalBounded' <=> 2 * total' <= (length' - left' + 2 * added') * b
    BY DEF TotalBounded
  <2> QED
    BY <1>5, <1>7, <2>1
<1>9. Add(v) = sum + v /\ sum + v \in 0..(SumBase - 1)
  <2>1. (n + grown) * b \in Nat
    BY <1>1, <1>2, ProductOfNat
  <2>2. sum + v \in Nat /\ sum + v < SumBase
    BY <1>1, <1>4, <1>6, <1>7, <2>1
  <2>3. \A x \in Nat, y \in Nat : x < y => x % y = x
    OBVIOUS
  <2>4. (sum + v) % SumBase = sum + v
    BY <1>1, <2>2, <2>3
  <2>5. Add(v) = (sum + v) % SumBase
    BY DEF Add
  <2> QED
    BY <1>1, <2>2, <2>4, <2>5
<1> DEFINE s == sum + v
<1>10. s \in 0..(SumBase - 1) /\ sum' \in {s, Fold(s)}
  BY <1>9
<1>11. PICK q \in Int : s - sum' = q * b /\ sum' \in Nat /\ sum' <= s /\ (sum' = 0 => s = 0)
  <2>1. s - s = 0 * b /\ s \in Nat
    BY <1>1
  <2>2. /\ s - Fold(s) = (s \div Base) * b /\ s \div Base \in Int
        /\ Fold(s) \in Nat /\ Fold(s) <= s /\ (Fold(s) = 0 => s = 0)
    BY <1>10, FoldKeepsRemainder
  <2> QED
    BY <1>10, <2>1, <2>2
<1>12. SumIsCongruent'
  <2>1. total' - sum' = (total - sum) + q * b
    <3>1. q * b \in Int
      BY <1>1, <1>11
    <3> QED
      BY <1>1, <1>11, <3>1
  <2>2. total - sum \in Int
    BY <1>1
  <2>3. (total' - sum') % b = 0
    BY <1>1, <1>6, <2>1, <2>2, AddMultiple
  <2>4. sum' <= total' /\ (sum' = 0 => total' = 0)
    BY <1>1, <1>6, <1>11
  <2> QED
    BY <2>3, <2>4 DEF SumIsCongruent
<1> QED
  BY <1>1, <1>8, <1>10, <1>11, <1>12

LEMMA ChecksumInitIndInv == ChecksumInit => ChecksumIndInv
<1> SUFFICES ASSUME ChecksumInit PROVE ChecksumIndInv
  OBVIOUS
<1>1. ChecksumTypeOK
  BY Bases DEF ChecksumInit, ChecksumTypeOK, Phases
<1>2. SumIsCongruent
  <2>1. (0 * (Base - 1)) % (Base - 1) = 0 /\ 0 * (Base - 1) = 0
    BY Bases, MultipleRemainder
  <2> QED
    BY <2>1 DEF ChecksumInit, SumIsCongruent
<1>3. TotalBounded
  BY Bases DEF ChecksumInit, TotalBounded
<1>4. CheckKnown
  BY DEF ChecksumInit, CheckKnown
<1> QED
  BY <1>1, <1>2, <1>3, <1>4 DEF ChecksumIndInv

(***************************************************************************)
(* The steps of the two functions and of their caller.                     *)
(***************************************************************************)
LEMMA StartIndInv ==
  ASSUME ChecksumIndInv, NEW k \in {"ip", "udp", "tcp"}, Start(k)
  PROVE  ChecksumIndInv'
<1>1. /\ length' \in 0..(Base - 1) /\ left' = length' /\ length' \in Nat
      /\ kind' = k /\ phase' = "words" /\ sum' = 0 /\ total' = 0 /\ added' = 0
      /\ check' = check /\ check \in 0..(Base - 1)
  <2>1. length' \in Lengths
    BY DEF Start
  <2> QED
    BY <2>1, ChecksumAssumption DEF Start, ChecksumIndInv, ChecksumTypeOK
<1>2. ChecksumTypeOK'
  BY <1>1, Bases DEF ChecksumTypeOK, Phases
<1>3. SumIsCongruent'
  <2>1. (0 * (Base - 1)) % (Base - 1) = 0 /\ 0 * (Base - 1) = 0
    BY Bases, MultipleRemainder
  <2> QED
    BY <1>1, <2>1 DEF SumIsCongruent
<1>4. TotalBounded'
  <2>1. TotalBounded' <=> 2 * total' <= (length' - left' + 2 * added') * (Base - 1)
    BY DEF TotalBounded
  <2>2. \A l \in Nat : 2 * 0 <= (l - l + 2 * 0) * (Base - 1)
    BY Bases
  <2> QED
    BY <1>1, <2>1, <2>2
<1>5. CheckKnown'
  BY <1>1 DEF CheckKnown
<1> QED
  BY <1>2, <1>3, <1>4, <1>5 DEF ChecksumIndInv

LEMMA AddWordIndInv ==
  ASSUME ChecksumIndInv, NEW w \in Words, AddWord(w)
  PROVE  ChecksumIndInv'
<1>1. /\ w \in Nat /\ w <= Base - 1 /\ Base - 1 \in Nat
      /\ length \in Nat /\ left \in Nat /\ left <= length /\ left > 1
      /\ added \in 0..6
  BY ChecksumAssumption, Bases DEF ChecksumIndInv, ChecksumTypeOK, AddWord
<1>2. /\ left' = left - 2 /\ left' \in 0..length
      /\ total' = total + w
      /\ sum' \in {Add(w), Fold(Add(w))}
      /\ phase = "words" /\ UNCHANGED <<kind, phase, length, added, check>>
  BY <1>1 DEF AddWord
<1>3. 2 * w <= 2 * (Base - 1) /\ 2 \in Nat
  BY <1>1
<1>4. length - left + 2 * added + 2 <= length + 12
  BY <1>1
<1>5. length' - left' + 2 * added' = length - left + 2 * added + 2
  BY <1>1, <1>2
<1>6. sum' \in 0..(SumBase - 1) /\ total' \in Nat /\ SumIsCongruent' /\ TotalBounded'
  BY <1>1, <1>2, <1>3, <1>4, <1>5, AddStep
<1>7. ChecksumTypeOK'
  BY <1>2, <1>6 DEF ChecksumIndInv, ChecksumTypeOK
<1>8. CheckKnown'
  BY <1>2 DEF CheckKnown
<1> QED
  BY <1>6, <1>7, <1>8 DEF ChecksumIndInv

LEMMA AddOddByteIndInv ==
  ASSUME ChecksumIndInv, NEW w \in Words, AddOddByte(w)
  PROVE  ChecksumIndInv'
<1>1. /\ w \in Nat /\ Base - 1 \in Nat
      /\ length \in Nat /\ left = 1 /\ left <= length /\ added \in 0..6
  BY ChecksumAssumption, Bases DEF ChecksumIndInv, ChecksumTypeOK, AddOddByte
<1> DEFINE v == w % ByteBase
<1>2. /\ left' = 0 /\ left' \in 0..length
      /\ total' = total + v
      /\ sum' \in {Add(v), Fold(Add(v))}
      /\ phase = "words" /\ UNCHANGED <<kind, phase, length, added, check>>
  BY <1>1 DEF AddOddByte
<1>3. v \in Nat /\ v <= ByteBase - 1
  BY <1>1, Bases, DivMod
<1> HIDE DEF v
<1>4. 2 * v <= 1 * (Base - 1) /\ 1 \in Nat
  BY <1>1, <1>3, Bases
<1>5. length - left + 2 * added + 1 <= length + 12
  BY <1>1
<1>6. length' - left' + 2 * added' = length - left + 2 * added + 1
  BY <1>1, <1>2
<1>7. sum' \in 0..(SumBase - 1) /\ total' \in Nat /\ SumIsCongruent' /\ TotalBounded'
  BY <1>2, <1>3, <1>4, <1>5, <1>6, AddStep
<1>8. ChecksumTypeOK'
  BY <1>2, <1>7 DEF ChecksumIndInv, ChecksumTypeOK
<1>9. CheckKnown'
  BY <1>2 DEF CheckKnown
<1> QED
  BY <1>7, <1>8, <1>9 DEF ChecksumIndInv

LEMMA AddPseudoWordIndInv ==
  ASSUME ChecksumIndInv, NEW w \in Words, AddPseudoWord(w)
  PROVE  ChecksumIndInv'
<1>1. /\ w \in 0..(Base - 1) /\ Base - 1 \in Nat
      /\ length \in 0..(Base - 1) /\ left \in Nat /\ left <= length
      /\ added \in 0..6 /\ added < 6
  BY ChecksumAssumption, Bases DEF ChecksumIndInv, ChecksumTypeOK, AddPseudoWord
<1> DEFINE v == IF added = 5 THEN Swap(length) ELSE w
<1>2. /\ added' = added + 1 /\ added' \in 0..6
      /\ total' = total + v
      /\ sum' \in {Add(v), Fold(Add(v))}
      /\ phase' \in {"carries", "pseudo"} /\ UNCHANGED <<kind, length, left, check>>
  BY <1>1 DEF AddPseudoWord
<1>3. v \in Nat /\ v <= Base - 1
  <2>1. Swap(length) \in 0..(Base - 1)
    BY <1>1, SwapIsWord
  <2> QED
    BY <1>1, <2>1
<1> HIDE DEF v
<1>4. 2 * v <= 2 * (Base - 1) /\ 2 \in Nat
  BY <1>1, <1>3
<1>5. length - left + 2 * added + 2 <= length + 12
  BY <1>1
<1>6. length' - left' + 2 * added' = length - left + 2 * added + 2
  BY <1>1, <1>2
<1>7. sum' \in 0..(SumBase - 1) /\ total' \in Nat /\ SumIsCongruent' /\ TotalBounded'
  BY <1>2, <1>3, <1>4, <1>5, <1>6, AddStep
<1>8. ChecksumTypeOK'
  BY <1>2, <1>7 DEF ChecksumIndInv, ChecksumTypeOK, Phases
<1>9. CheckKnown'
  BY <1>2 DEF CheckKnown
<1> QED
  BY <1>7, <1>8, <1>9 DEF ChecksumIndInv

LEMMA AddCarriesIndInv ==
  ASSUME ChecksumIndInv, AddCarries
  PROVE  ChecksumIndInv'
<1>1. /\ sum \in 0..(SumBase - 1) /\ total \in Nat /\ Base - 1 \in Nat \ {0}
      /\ (total - sum) % (Base - 1) = 0 /\ sum <= total /\ (sum = 0 => total = 0)
      /\ sum' = Fold(sum) /\ UNCHANGED <<kind, phase, length, left, added, check, total>>
      /\ phase = "carries"
  BY Bases DEF ChecksumIndInv, ChecksumTypeOK, SumIsCongruent, AddCarries
<1>2. /\ Fold(sum) \in Nat /\ Fold(sum) <= sum /\ (Fold(sum) = 0 => sum = 0)
      /\ sum - Fold(sum) = (sum \div Base) * (Base - 1) /\ sum \div Base \in Nat
  BY <1>1, FoldKeepsRemainder
<1>3. SumIsCongruent'
  <2> DEFINE x == total - sum
             q == sum \div Base
  <2>1. q * (Base - 1) \in Nat
    BY <1>1, <1>2, ProductOfNat
  <2>2. total' - sum' = x + q * (Base - 1)
    BY <1>1, <1>2, <2>1
  <2>3. x \in Int /\ q \in Int /\ x % (Base - 1) = 0
    BY <1>1, <1>2
  <2> HIDE DEF x, q
  <2>4. (total' - sum') % (Base - 1) = 0
    BY <1>1, <2>2, <2>3, AddMultiple
  <2>5. sum' <= total' /\ (sum' = 0 => total' = 0)
    BY <1>1, <1>2
  <2> QED
    BY <2>4, <2>5 DEF SumIsCongruent
<1>4. ChecksumTypeOK'
  <2>1. sum' \in 0..(SumBase - 1)
    BY <1>1, <1>2, Bases
  <2> QED
    BY <1>1, <2>1 DEF ChecksumIndInv, ChecksumTypeOK
<1>5. TotalBounded' /\ CheckKnown'
  BY <1>1 DEF ChecksumIndInv, TotalBounded, CheckKnown
<1> QED
  BY <1>3, <1>4, <1>5 DEF ChecksumIndInv

LEMMA ReturnIndInv ==
  ASSUME ChecksumIndInv, Return
  PROVE  ChecksumIndInv'
<1>1. /\ sum \in Nat /\ sum < Base /\ Base \in Nat
      /\ check' = Base - 1 - sum /\ phase' = "done"
      /\ UNCHANGED <<kind, length, left, added, sum, total>>
  BY Bases DEF ChecksumIndInv, ChecksumTypeOK, Return
<1>2. ChecksumTypeOK'
  <2>1. check' \in 0..(Base - 1)
    BY <1>1
  <2> QED
    BY <1>1, <2>1 DEF ChecksumIndInv, ChecksumTypeOK, Phases
<1> QED
  BY <1>1, <1>2 DEF ChecksumIndInv, SumIsCongruent, TotalBounded, CheckKnown

LEMMA ResetIndInv ==
  ASSUME ChecksumReset
  PROVE  ChecksumIndInv'
<1>1. ChecksumTypeOK'
  BY Bases DEF ChecksumReset, ChecksumTypeOK, Phases
<1>2. SumIsCongruent'
  <2>1. (0 * (Base - 1)) % (Base - 1) = 0 /\ 0 * (Base - 1) = 0
    BY Bases, MultipleRemainder
  <2> QED
    BY <2>1 DEF ChecksumReset, SumIsCongruent
<1>3. TotalBounded' /\ CheckKnown'
  BY Bases DEF ChecksumReset, TotalBounded, CheckKnown
<1> QED
  BY <1>1, <1>2, <1>3 DEF ChecksumIndInv

LEMMA CalculateIndInv ==
  ASSUME ChecksumIndInv, CalculateChecksums
  PROVE  ChecksumIndInv'
<1>1. CASE phase = "idle" /\ Start("ip")
  BY <1>1, StartIndInv
<1>2. CASE \E k \in {"udp", "tcp"} : Start(k)
  BY <1>2, StartIndInv
<1>3. CASE \E w \in Words : AddWord(w) \/ AddOddByte(w) \/ AddPseudoWord(w)
  BY <1>3, AddWordIndInv, AddOddByteIndInv, AddPseudoWordIndInv
<1>4. CASE WordsDone
  BY <1>4 DEF WordsDone, ChecksumIndInv, ChecksumTypeOK, Phases, SumIsCongruent,
              TotalBounded, CheckKnown, Base, SumBase
<1>5. CASE AddCarries
  BY <1>5, AddCarriesIndInv
<1>6. CASE Return
  BY <1>6, ReturnIndInv
<1> QED
  BY <1>1, <1>2, <1>3, <1>4, <1>5, <1>6 DEF CalculateChecksums, ChecksumStep

LEMMA IdleIndInv ==
  ASSUME ChecksumIndInv, UNCHANGED checksumVars
  PROVE  ChecksumIndInv'
BY DEF checksumVars, ChecksumIndInv, ChecksumTypeOK, SumIsCongruent, TotalBounded,
       CheckKnown, Base, SumBase

\* A word of ones: the sum with its complement.
LEMMA AcceptedWhenDone ==
  ASSUME ChecksumIndInv
  PROVE  ReceiverAccepts
<1> SUFFICES ASSUME phase = "done"
             PROVE  (total + check) % (Base - 1) = 0 /\ total + check > 0
  BY DEF ReceiverAccepts
<1> DEFINE b == Base - 1
<1>1. /\ sum \in Nat /\ total \in Nat /\ check = b - sum /\ check \in Nat
      /\ (total - sum) % b = 0 /\ sum <= total /\ b \in Nat \ {0}
  BY Bases DEF ChecksumIndInv, ChecksumTypeOK, SumIsCongruent, CheckKnown
<1> HIDE DEF b
<1>2. total + check = (total - sum) + 1 * b
  BY <1>1
<1>3. (total + check) % b = 0
  <2> DEFINE x == total - sum
  <2>1. x \in Int /\ 1 \in Int /\ x % b = 0
    BY <1>1
  <2> HIDE DEF x
  <2>2. (x + 1 * b) % b = 0
    BY <1>1, <2>1, AddMultiple
  <2> QED
    BY <1>2, <2>2 DEF x
<1>4. total + check > 0
  BY <1>1
<1> QED
  BY <1>3, <1>4 DEF b

LEMMA ChecksumNext ==
  ChecksumIndInv /\ [CalculateChecksums \/ (phase = "done" /\ ChecksumReset)]_checksumVars
    => ChecksumIndInv'
<1> QED
  BY CalculateIndInv, ResetIndInv, IdleIndInv

---------------------------------------------------------------------------
(* The theorems. *)

\* The sum fits into uint32_t and the check field into uint16_t, always.
THEOREM ChecksumTypeCorrect == ChecksumSpec => []ChecksumTypeOK
<1>1. ChecksumIndInv => ChecksumTypeOK
  BY DEF ChecksumIndInv
<1> QED
  BY <1>1, ChecksumInitIndInv, ChecksumNext, PTL DEF ChecksumSpec

\* Carries that ip_checksum adds early, on whatever bit, change nothing.
THEOREM SumIsCongruentHolds == ChecksumSpec => []SumIsCongruent
<1>1. ChecksumIndInv => SumIsCongruent
  BY DEF ChecksumIndInv
<1> QED
  BY <1>1, ChecksumInitIndInv, ChecksumNext, PTL DEF ChecksumSpec

\* The check field that calculate_checksums leaves is one a receiver accepts.
THEOREM ReceiverAcceptsHolds == ChecksumSpec => []ReceiverAccepts
<1>1. ChecksumIndInv => ReceiverAccepts
  BY AcceptedWhenDone
<1> QED
  BY <1>1, ChecksumInitIndInv, ChecksumNext, PTL DEF ChecksumSpec

---------------------------------------------------------------------------
(* NativeTunnel: the inductive invariant. *)

ObjectKnown ==
  /\ object <=> mainPc \notin {"start", "clearRef", "stopped", "failed"}
  /\ ref <=> mainPc \in {"ready", "running", "stop", "clearRef"}
  /\ mainPc \in {"start", "open", "ioctl", "init", "delete"} => pollFd = -1
  /\ mainPc \in {"setRef", "ready", "running", "stop"} => pollFd \in Fds

\* The device is open under the number that tun_alloc holds, then under that
\* of the object, and under no other.
DeviceKnown ==
  /\ mainPc = "ioctl" => fd \in Fds
  /\ \A f \in Fds :
       files[f] = "device" <=>
         \/ mainPc \in {"ioctl", "init"} /\ f = fd
         \/ mainPc \in {"setRef", "ready", "running", "stop"} /\ f = pollFd

\* A thread is in a native call only between start and join, or for good when
\* Tunnel_stop comes before the join.
CallsKnown ==
  /\ readerPc # "out" \/ writerPc # "out" => threads
  /\ threads => mainPc \in {"running", "stop", "clearRef", "stopped"}

\* A flag that poll has set is cleared before the call returns.
FlagsKnown ==
  object =>
    /\ revents => readerPc \in {"polled", "read"} /\ queued > 0
    /\ readerPc = "read" => queued > 0

IndInv ==
  /\ TypeOK
  /\ ChecksumIndInv
  /\ ObjectKnown
  /\ DeviceKnown
  /\ CallsKnown
  /\ FlagsKnown

---------------------------------------------------------------------------

(***************************************************************************)
(* A set of numbers that is not empty has a least one: of the intervals    *)
(* from 0 to its members, one contains no other.                           *)
(***************************************************************************)
LEMMA LeastNumber ==
  ASSUME NEW S \in SUBSET Nat, S # {}
  PROVE  \E m \in S : \A n \in S : m <= n
<1> DEFINE Below(n) == 0..n
           Intervals == {Below(n) : n \in S}
<1>1. Intervals \subseteq FiniteSubsetsOf(Nat) /\ Intervals # {}
  <2>1. \A n \in S : Below(n) \in SUBSET Nat /\ IsFiniteSet(Below(n))
    BY FS_Interval
  <2> QED
    BY <2>1 DEF FiniteSubsetsOf
<1>2. PICK I \in Intervals : \A J \in Intervals : <<J, I>> \notin StrictSubsetOrdering(Nat)
  BY <1>1, FS_StrictSubsetOrderingWellFounded, WFMin
<1>3. PICK m \in S : I = Below(m)
  OBVIOUS
<1>4. ASSUME NEW n \in S, n < m PROVE FALSE
  <2>1. Below(n) \subseteq Below(m) /\ Below(n) # Below(m) /\ Below(m) \in SUBSET Nat
    <3>1. m \in Below(m) /\ m \notin Below(n)
      BY <1>4
    <3> QED
      BY <1>4, <3>1
  <2>2. <<Below(n), Below(m)>> \in StrictSubsetOrdering(Nat)
    BY <2>1 DEF StrictSubsetOrdering
  <2> QED
    BY <1>2, <1>3, <2>2
<1>5. \A n \in S : m <= n
  BY <1>4
<1> QED
  BY <1>5

\* The lowest free descriptor is one of the free descriptors.
LEMMA LowestIsFree ==
  ASSUME Free # {}
  PROVE  Lowest \in Fds /\ files[Lowest] = "free"
<1>1. Free \in SUBSET Nat
  BY NativeAssumption DEF Free
<1>2. Lowest \in Free
  BY <1>1, LeastNumber DEF Lowest, Min
<1> QED
  BY <1>2 DEF Free

---------------------------------------------------------------------------
(* The steps. *)

LEMMA InitIndInv == Init => IndInv
<1> SUFFICES ASSUME Init PROVE IndInv
  OBVIOUS
<1>1. ChecksumIndInv /\ ChecksumTypeOK
  BY ChecksumInitIndInv DEF Init, ChecksumIndInv
<1>2. TypeOK
  <2>1. queued \in 0..QueueLimit
    BY NativeAssumption DEF Init
  <2>2. files \in [Fds -> {"free", "device", "other"}]
    BY DEF Init
  <2>3. writerPc = "out" <=> phase = "idle"
    BY DEF Init, ChecksumInit
  <2> QED
    BY <1>1, <2>1, <2>2, <2>3 DEF Init, TypeOK, Descriptors, MainPcs
<1>3. ObjectKnown /\ DeviceKnown /\ CallsKnown /\ FlagsKnown
  BY DEF Init, ObjectKnown, DeviceKnown, CallsKnown, FlagsKnown
<1> QED
  BY <1>1, <1>2, <1>3 DEF IndInv

(***************************************************************************)
(* One step of the main thread: Tunnel_init, the tests, Tunnel_stop.       *)
(***************************************************************************)
LEMMA MainIndInv ==
  ASSUME IndInv, NewTunnel \/ OpenFails \/ Open \/ Ioctl \/ IoctlFails \/ InitPollFd
         \/ SetRef \/ Delete \/ StartThreads \/ JoinThreads \/ Stop \/ ClearRef, UNCHANGED checksumVars
  PROVE  IndInv'
<1>1. ChecksumIndInv' /\ ChecksumTypeOK' /\ phase' = phase
  BY IdleIndInv DEF IndInv, ChecksumIndInv, checksumVars
<1>2. CASE NewTunnel
  <2>1. TypeOK'
    BY <1>1, <1>2 DEF NewTunnel, IndInv, TypeOK, ObjectKnown, DeviceKnown, MainPcs
  <2>2. ObjectKnown' /\ DeviceKnown'
    BY <1>2 DEF NewTunnel, IndInv, TypeOK, ObjectKnown, DeviceKnown
  <2>3. CallsKnown' /\ FlagsKnown'
    BY <1>2 DEF NewTunnel, IndInv, CallsKnown, FlagsKnown
  <2> QED
    BY <1>1, <2>1, <2>2, <2>3 DEF IndInv
<1>3. CASE OpenFails
  <2>1. TypeOK'
    BY <1>1, <1>3, NativeAssumption DEF OpenFails, IndInv, TypeOK, ObjectKnown, DeviceKnown, MainPcs
  <2>2. ObjectKnown' /\ DeviceKnown'
    BY <1>3, NativeAssumption DEF OpenFails, IndInv, TypeOK, ObjectKnown, DeviceKnown
  <2>3. CallsKnown' /\ FlagsKnown'
    BY <1>3 DEF OpenFails, IndInv, CallsKnown, FlagsKnown
  <2> QED
    BY <1>1, <2>1, <2>2, <2>3 DEF IndInv
<1>4. CASE Open
  <2>1. TypeOK'
    BY <1>1, <1>4, LowestIsFree
       DEF Open, IndInv, TypeOK, ObjectKnown, DeviceKnown, Descriptors, MainPcs
  <2>2. ObjectKnown' /\ DeviceKnown'
    BY <1>4, LowestIsFree DEF Open, IndInv, TypeOK, ObjectKnown, DeviceKnown, Descriptors
  <2>3. CallsKnown' /\ FlagsKnown'
    BY <1>4 DEF Open, IndInv, TypeOK, CallsKnown, FlagsKnown
  <2> QED
    BY <1>1, <2>1, <2>2, <2>3 DEF IndInv
<1>5. CASE Ioctl
  <2>1. TypeOK'
    BY <1>1, <1>5 DEF Ioctl, IndInv, TypeOK, ObjectKnown, DeviceKnown, MainPcs
  <2>2. ObjectKnown' /\ DeviceKnown'
    BY <1>5 DEF Ioctl, IndInv, TypeOK, ObjectKnown, DeviceKnown
  <2>3. CallsKnown' /\ FlagsKnown'
    BY <1>5 DEF Ioctl, IndInv, CallsKnown, FlagsKnown
  <2> QED
    BY <1>1, <2>1, <2>2, <2>3 DEF IndInv
<1>6. CASE IoctlFails
  <2>1. TypeOK'
    BY <1>1, <1>6, NativeAssumption
       DEF IoctlFails, IndInv, TypeOK, ObjectKnown, DeviceKnown, MainPcs, Close
  <2>2. ObjectKnown' /\ DeviceKnown'
    BY <1>6, NativeAssumption DEF IoctlFails, IndInv, TypeOK, ObjectKnown, DeviceKnown, Close
  <2>3. CallsKnown' /\ FlagsKnown'
    BY <1>6 DEF IoctlFails, IndInv, TypeOK, CallsKnown, FlagsKnown
  <2> QED
    BY <1>1, <2>1, <2>2, <2>3 DEF IndInv
<1>7. CASE InitPollFd
  <2>1. TypeOK'
    BY <1>1, <1>7, NativeAssumption
       DEF InitPollFd, IndInv, TypeOK, ObjectKnown, DeviceKnown, Descriptors, MainPcs
  <2>2. ObjectKnown' /\ DeviceKnown'
    BY <1>7, NativeAssumption DEF InitPollFd, IndInv, TypeOK, ObjectKnown, DeviceKnown, Descriptors
  <2>3. CallsKnown' /\ FlagsKnown'
    BY <1>7 DEF InitPollFd, IndInv, TypeOK, CallsKnown, FlagsKnown
  <2> QED
    BY <1>1, <2>1, <2>2, <2>3 DEF IndInv
<1>8. CASE SetRef
  <2>1. TypeOK'
    BY <1>1, <1>8 DEF SetRef, IndInv, TypeOK, ObjectKnown, DeviceKnown, MainPcs
  <2>2. ObjectKnown' /\ DeviceKnown'
    BY <1>8 DEF SetRef, IndInv, TypeOK, ObjectKnown, DeviceKnown
  <2>3. CallsKnown' /\ FlagsKnown'
    BY <1>8 DEF SetRef, IndInv, CallsKnown, FlagsKnown
  <2> QED
    BY <1>1, <2>1, <2>2, <2>3 DEF IndInv
<1>9. CASE Delete
  <2>1. TypeOK'
    <3>1. queued' \in 0..QueueLimit
      BY <1>9, NativeAssumption DEF Delete
    <3> QED
      BY <1>1, <1>9, <3>1, NativeAssumption
         DEF Delete, IndInv, TypeOK, ObjectKnown, DeviceKnown, MainPcs, Close
  <2>2. ObjectKnown' /\ DeviceKnown'
    BY <1>9, NativeAssumption DEF Delete, IndInv, TypeOK, ObjectKnown, DeviceKnown, Close
  <2>3. CallsKnown' /\ FlagsKnown'
    BY <1>9 DEF Delete, IndInv, TypeOK, CallsKnown, FlagsKnown
  <2> QED
    BY <1>1, <2>1, <2>2, <2>3 DEF IndInv
<1>10. CASE StartThreads
  <2>1. TypeOK'
    BY <1>1, <1>10 DEF StartThreads, IndInv, TypeOK, ObjectKnown, DeviceKnown, MainPcs
  <2>2. ObjectKnown' /\ DeviceKnown'
    BY <1>10 DEF StartThreads, IndInv, TypeOK, ObjectKnown, DeviceKnown
  <2>3. CallsKnown' /\ FlagsKnown'
    BY <1>10 DEF StartThreads, IndInv, CallsKnown, FlagsKnown
  <2> QED
    BY <1>1, <2>1, <2>2, <2>3 DEF IndInv
<1>11. CASE JoinThreads
  <2>1. TypeOK'
    BY <1>1, <1>11 DEF JoinThreads, IndInv, TypeOK, ObjectKnown, DeviceKnown, MainPcs
  <2>2. ObjectKnown' /\ DeviceKnown'
    BY <1>11 DEF JoinThreads, IndInv, TypeOK, ObjectKnown, DeviceKnown
  <2>3. CallsKnown' /\ FlagsKnown'
    BY <1>11 DEF JoinThreads, IndInv, CallsKnown, FlagsKnown
  <2> QED
    BY <1>1, <2>1, <2>2, <2>3 DEF IndInv
<1>12. CASE Stop
  <2>1. TypeOK'
    BY <1>1, <1>12 DEF Stop, IndInv, TypeOK, ObjectKnown, DeviceKnown, MainPcs
  <2>2. ObjectKnown' /\ DeviceKnown'
    BY <1>12 DEF Stop, IndInv, TypeOK, ObjectKnown, DeviceKnown
  <2>3. CallsKnown' /\ FlagsKnown'
    BY <1>12 DEF Stop, IndInv, CallsKnown, FlagsKnown
  <2> QED
    BY <1>1, <2>1, <2>2, <2>3 DEF IndInv
<1>13. CASE ClearRef
  <2>1. TypeOK'
    BY <1>1, <1>13 DEF ClearRef, IndInv, TypeOK, ObjectKnown, DeviceKnown, MainPcs
  <2>2. ObjectKnown' /\ DeviceKnown'
    BY <1>13 DEF ClearRef, IndInv, TypeOK, ObjectKnown, DeviceKnown
  <2>3. CallsKnown' /\ FlagsKnown'
    BY <1>13 DEF ClearRef, IndInv, CallsKnown, FlagsKnown
  <2> QED
    BY <1>1, <2>1, <2>2, <2>3 DEF IndInv
<1> QED
  BY <1>2, <1>3, <1>4, <1>5, <1>6, <1>7, <1>8, <1>9, <1>10, <1>11, <1>12, <1>13

\* One step of the receiving thread in readPacket.
LEMMA ReceiveIndInv ==
  ASSUME IndInv, EnterRead \/ Poll \/ Polled \/ Read \/ ReadFails, UNCHANGED checksumVars
  PROVE  IndInv'
<1>1. ChecksumIndInv' /\ ChecksumTypeOK' /\ phase' = phase
  BY IdleIndInv DEF IndInv, ChecksumIndInv, checksumVars
<1>2. CASE EnterRead
  <2>1. TypeOK'
    BY <1>1, <1>2 DEF EnterRead, IndInv, TypeOK, ObjectKnown, DeviceKnown
  <2>2. ObjectKnown' /\ DeviceKnown'
    BY <1>2 DEF EnterRead, IndInv, TypeOK, ObjectKnown, DeviceKnown
  <2>3. CallsKnown' /\ FlagsKnown'
    BY <1>2 DEF EnterRead, IndInv, CallsKnown, FlagsKnown
  <2> QED
    BY <1>1, <2>1, <2>2, <2>3 DEF IndInv
<1>3. CASE Poll
  <2>1. TypeOK'
    <3>1. revents' \in BOOLEAN
      <4>1. revents \in BOOLEAN /\ (queued > 0) \in BOOLEAN
        BY DEF IndInv, TypeOK
      <4>2. CASE object
        BY <1>3, <4>1, <4>2, Zenon DEF Poll
      <4>3. CASE ~object
        BY <1>3, <4>3, Zenon DEF Poll
      <4> QED
        BY <4>2, <4>3
    <3> QED
      BY <1>1, <1>3, <3>1 DEF Poll, IndInv, TypeOK
  <2>2. ObjectKnown' /\ DeviceKnown'
    BY <1>3 DEF Poll, IndInv, TypeOK, ObjectKnown, DeviceKnown
  <2>3. CallsKnown' /\ FlagsKnown'
    BY <1>3 DEF Poll, IndInv, TypeOK, CallsKnown, FlagsKnown
  <2> QED
    BY <1>1, <2>1, <2>2, <2>3 DEF IndInv
<1>4. CASE Polled
  <2>1. TypeOK'
    BY <1>1, <1>4 DEF Polled, IndInv, TypeOK, ObjectKnown, DeviceKnown
  <2>2. ObjectKnown' /\ DeviceKnown'
    BY <1>4 DEF Polled, IndInv, TypeOK, ObjectKnown, DeviceKnown
  <2>3. CallsKnown' /\ FlagsKnown'
    BY <1>4 DEF Polled, IndInv, CallsKnown, FlagsKnown
  <2> QED
    BY <1>1, <2>1, <2>2, <2>3 DEF IndInv
<1>5. CASE Read
  <2>1. TypeOK'
    <3>1. queued' \in 0..QueueLimit
      BY <1>5, NativeAssumption DEF Read, IndInv, TypeOK
    <3> QED
      BY <1>1, <1>5, <3>1 DEF Read, IndInv, TypeOK
  <2>2. ObjectKnown' /\ DeviceKnown'
    BY <1>5 DEF Read, IndInv, TypeOK, ObjectKnown, DeviceKnown
  <2>3. CallsKnown' /\ FlagsKnown'
    BY <1>5 DEF Read, IndInv, CallsKnown, FlagsKnown
  <2> QED
    BY <1>1, <2>1, <2>2, <2>3 DEF IndInv
<1>6. CASE ReadFails
  <2>1. TypeOK'
    BY <1>1, <1>6 DEF ReadFails, IndInv, TypeOK, ObjectKnown, DeviceKnown
  <2>2. ObjectKnown' /\ DeviceKnown'
    BY <1>6 DEF ReadFails, IndInv, TypeOK, ObjectKnown, DeviceKnown
  <2>3. CallsKnown' /\ FlagsKnown'
    BY <1>6 DEF ReadFails, IndInv, CallsKnown, FlagsKnown
  <2> QED
    BY <1>1, <2>1, <2>2, <2>3 DEF IndInv
<1> QED
  BY <1>2, <1>3, <1>4, <1>5, <1>6

\* A packet arrives, a file of another part of the process comes or goes, or
\* the memory of the deleted object is used again.
LEMMA EnvironmentIndInv ==
  ASSUME IndInv, Arrive \/ OtherOpens \/ OtherCloses \/ MemoryReused, UNCHANGED checksumVars
  PROVE  IndInv'
<1>1. ChecksumIndInv' /\ ChecksumTypeOK' /\ phase' = phase
  BY IdleIndInv DEF IndInv, ChecksumIndInv, checksumVars
<1>2. CASE Arrive
  <2>1. TypeOK'
    BY <1>1, <1>2, NativeAssumption DEF Arrive, IndInv, TypeOK, ObjectKnown, DeviceKnown
  <2>2. ObjectKnown' /\ DeviceKnown'
    BY <1>2, NativeAssumption DEF Arrive, IndInv, TypeOK, ObjectKnown, DeviceKnown
  <2>3. CallsKnown' /\ FlagsKnown'
    BY <1>2 DEF Arrive, IndInv, TypeOK, CallsKnown, FlagsKnown
  <2> QED
    BY <1>1, <2>1, <2>2, <2>3 DEF IndInv
<1>3. CASE OtherOpens
  <2>1. TypeOK'
    BY <1>1, <1>3, LowestIsFree DEF OtherOpens, IndInv, TypeOK, ObjectKnown, DeviceKnown
  <2>2. ObjectKnown' /\ DeviceKnown'
    BY <1>3, LowestIsFree DEF OtherOpens, IndInv, TypeOK, ObjectKnown, DeviceKnown
  <2>3. CallsKnown' /\ FlagsKnown'
    BY <1>3 DEF OtherOpens, IndInv, CallsKnown, FlagsKnown
  <2> QED
    BY <1>1, <2>1, <2>2, <2>3 DEF IndInv
<1>4. CASE OtherCloses
  <2>1. TypeOK'
    BY <1>1, <1>4 DEF OtherCloses, IndInv, TypeOK, ObjectKnown, DeviceKnown, Close
  <2>2. ObjectKnown' /\ DeviceKnown'
    BY <1>4 DEF OtherCloses, IndInv, TypeOK, ObjectKnown, DeviceKnown, Close
  <2>3. CallsKnown' /\ FlagsKnown'
    BY <1>4 DEF OtherCloses, IndInv, CallsKnown, FlagsKnown
  <2> QED
    BY <1>1, <2>1, <2>2, <2>3 DEF IndInv
<1>5. CASE MemoryReused
  <2>1. TypeOK'
    BY <1>1, <1>5 DEF MemoryReused, IndInv, TypeOK
  <2>2. mainPc \in {"clearRef", "stopped"}
    BY <1>5 DEF MemoryReused, IndInv, ObjectKnown, CallsKnown
  <2>3. ObjectKnown' /\ DeviceKnown'
    BY <1>5, <2>2 DEF MemoryReused, IndInv, ObjectKnown, DeviceKnown
  <2>4. CallsKnown' /\ FlagsKnown'
    BY <1>5 DEF MemoryReused, IndInv, CallsKnown, FlagsKnown
  <2> QED
    BY <1>1, <2>1, <2>3, <2>4 DEF IndInv
<1> QED
  BY <1>2, <1>3, <1>4, <1>5

\* One step of the sending thread in writePacket.
LEMMA SendIndInv ==
  ASSUME IndInv, EnterWrite \/ Calculate \/ Write \/ WriteFails
  PROVE  IndInv'
<1>1. CASE EnterWrite
  <2>1. CASE ref
    <3>1. ChecksumIndInv' /\ ChecksumTypeOK' /\ phase' = "words"
      BY <1>1, <2>1, StartIndInv DEF EnterWrite, Start, IndInv, ChecksumIndInv
    <3>2. TypeOK' /\ ObjectKnown' /\ DeviceKnown' /\ CallsKnown' /\ FlagsKnown'
      BY <1>1, <2>1, <3>1
         DEF EnterWrite, IndInv, TypeOK, ObjectKnown, DeviceKnown, CallsKnown, FlagsKnown
    <3> QED
      BY <3>1, <3>2 DEF IndInv
  <2>2. CASE ~ref
    <3>1. UNCHANGED checksumVars
      BY <1>1, <2>2 DEF EnterWrite
    <3>2. ChecksumIndInv' /\ ChecksumTypeOK' /\ phase' = phase
      BY <3>1, IdleIndInv DEF checksumVars, IndInv, ChecksumIndInv
    <3>3. TypeOK' /\ ObjectKnown' /\ DeviceKnown' /\ CallsKnown' /\ FlagsKnown'
      BY <1>1, <2>2, <3>2
         DEF EnterWrite, IndInv, TypeOK, ObjectKnown, DeviceKnown, CallsKnown, FlagsKnown
    <3> QED
      BY <3>2, <3>3 DEF IndInv
  <2> QED
    BY <2>1, <2>2
<1>2. CASE Calculate
  <2>1. ChecksumIndInv' /\ ChecksumTypeOK'
    BY <1>2, CalculateIndInv DEF Calculate, IndInv, ChecksumIndInv
  <2>2. phase # "idle" /\ phase' # "idle"
    <3>1. phase # "idle"
      BY <1>2 DEF Calculate, IndInv, TypeOK
    <3> QED
      BY <1>2, <3>1 DEF Calculate, CalculateChecksums, ChecksumStep, Start, AddWord, AddOddByte,
                        AddPseudoWord, WordsDone, AddCarries, Return
  <2>3. UNCHANGED nativeVars
    BY <1>2 DEF Calculate
  <2>4. TypeOK' /\ ObjectKnown' /\ DeviceKnown' /\ CallsKnown' /\ FlagsKnown'
    BY <2>1, <2>2, <2>3 DEF nativeVars, IndInv, TypeOK, ObjectKnown, DeviceKnown, CallsKnown,
                            FlagsKnown, Descriptors
  <2> QED
    BY <2>1, <2>4 DEF IndInv
<1>3. CASE Write
  <2>1. ChecksumIndInv' /\ ChecksumTypeOK' /\ phase' = "idle"
    BY <1>3, ResetIndInv DEF Write, ChecksumReset, ChecksumIndInv
  <2>2. TypeOK' /\ ObjectKnown' /\ DeviceKnown' /\ CallsKnown' /\ FlagsKnown'
    BY <1>3, <2>1 DEF Write, IndInv, TypeOK, ObjectKnown, DeviceKnown, CallsKnown, FlagsKnown
  <2> QED
    BY <2>1, <2>2 DEF IndInv
<1>4. CASE WriteFails
  <2>1. ChecksumIndInv' /\ ChecksumTypeOK' /\ phase' = phase
    BY <1>4, IdleIndInv DEF WriteFails, checksumVars, IndInv, ChecksumIndInv
  <2>2. TypeOK' /\ ObjectKnown' /\ DeviceKnown' /\ CallsKnown' /\ FlagsKnown'
    BY <1>4, <2>1 DEF WriteFails, IndInv, TypeOK, ObjectKnown, DeviceKnown, CallsKnown, FlagsKnown
  <2> QED
    BY <2>1, <2>2 DEF IndInv
<1> QED
  BY <1>1, <1>2, <1>3, <1>4

LEMMA NextIndInv == IndInv /\ [Next]_vars => IndInv'
<1> SUFFICES ASSUME IndInv, [Next]_vars PROVE IndInv'
  OBVIOUS
<1>1. CASE MainThread
  BY <1>1, MainIndInv DEF MainThread
<1>2. CASE ReceivingThread
  BY <1>2, ReceiveIndInv DEF ReceivingThread
<1>3. CASE SendingThread
  BY <1>3, SendIndInv DEF SendingThread
<1>4. CASE Environment
  BY <1>4, EnvironmentIndInv DEF Environment
<1>5. CASE UNCHANGED vars
  <2>1. ChecksumIndInv' /\ ChecksumTypeOK' /\ phase' = phase
    BY <1>5, IdleIndInv DEF vars, checksumVars, IndInv, ChecksumIndInv
  <2> QED
    BY <1>5, <2>1 DEF vars, nativeVars, IndInv, TypeOK, ObjectKnown, DeviceKnown, CallsKnown,
                      FlagsKnown, Descriptors
<1> QED
  BY <1>1, <1>2, <1>3, <1>4, <1>5 DEF Next

LEMMA SpecIndInv == Spec => []IndInv
<1> QED
  BY InitIndInv, NextIndInv, PTL DEF Spec

---------------------------------------------------------------------------
(* The theorems. *)

\* Every variable keeps its type, and writePacket has the checksums under way
\* exactly while it is called.
THEOREM TypeCorrect == Spec => []TypeOK
<1>1. IndInv => TypeOK
  BY DEF IndInv
<1> QED
  BY <1>1, SpecIndInv, PTL

\* Whatever fails in tun_alloc, and however often, no descriptor stays open.
THEOREM LeaksNothingHolds == Spec => []LeaksNothing
<1>1. IndInv => LeaksNothing
  BY DEF IndInv, ObjectKnown, DeviceKnown, LeaksNothing
<1> QED
  BY <1>1, SpecIndInv, PTL

\* The object only ever names its own device, and a call works on it unless
\* Tunnel_stop has come first: it is then one of a thread that nobody has joined.
THEOREM OwnDescriptorHolds == Spec => []OwnDescriptor
<1>1. IndInv => OwnDescriptor
  <2> SUFFICES ASSUME IndInv PROVE OwnDescriptor
    OBVIOUS
  <2>1. ASSUME object, pollFd >= 0 PROVE files[pollFd] = "device"
    <3>1. mainPc \in {"setRef", "ready", "running", "stop"}
      BY <2>1 DEF IndInv, TypeOK, MainPcs, ObjectKnown
    <3> QED
      BY <3>1 DEF IndInv, ObjectKnown, DeviceKnown
  <2>2. ASSUME {readerPc, writerPc} # {"out"}
        PROVE  (object /\ ref) \/ (threads /\ mainPc \in {"clearRef", "stopped"})
    <3>1. threads /\ mainPc \in {"running", "stop", "clearRef", "stopped"}
      BY <2>2 DEF IndInv, CallsKnown
    <3> QED
      BY <3>1 DEF IndInv, ObjectKnown
  <2> QED
    BY <2>1, <2>2 DEF OwnDescriptor
<1> QED
  BY <1>1, SpecIndInv, PTL

\* As long as the object exists read finds a packet, also after a poll that a
\* signal has ended.
THEOREM ReadIsReadyHolds == Spec => []ReadIsReady
<1>1. IndInv => ReadIsReady
  BY DEF IndInv, FlagsKnown, ReadIsReady
<1> QED
  BY <1>1, SpecIndInv, PTL

\* Every packet that writePacket writes has check fields a receiver accepts.
THEOREM WrittenPacketAccepted == Spec => []ReceiverAccepts
<1>1. IndInv => ReceiverAccepts
  BY AcceptedWhenDone DEF IndInv
<1> QED
  BY <1>1, SpecIndInv, PTL
=============================================================================
