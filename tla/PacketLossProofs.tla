-------------------------- MODULE PacketLossProofs --------------------------
(***************************************************************************)
(* Proofs about PacketLoss, for all profiles, pauses and lengths of the    *)
(* stream.  What the truncating division of checkLossGap and getResetId    *)
(* computes is in the lemmas CheckLossGapIs and GetResetIdIs; that the     *)
(* resetId of a cut lies between the end of its gap and the start of the   *)
(* next one in ResetAfterGap and ResetBeforeNextGap.                       *)
(***************************************************************************)
EXTENDS PacketLoss, FiniteSetTheorems, TLAPS

---------------------------------------------------------------------------
(* The inductive invariant. *)

\* resetId is that of a cut, and not before that of any other.
ResetKnown ==
  /\ cuts = {} => resetId = Never
  /\ cuts # {} => /\ lossParams.intervals
                  /\ \E c \in cuts : resetId = GetResetId(lossParams, c)
  /\ \A c \in cuts : GetResetId(lossParams, c) <= resetId

\* The packets dropped since the last cut: no fewer than the timestamps kept.
SinceCut == {i \in lost : \A c \in cuts : c < i}

TimestampsEarned == Len(timestamps) <= Cardinality(SinceCut)

IndInv ==
  /\ TypeOK
  /\ LossOnlyInGaps
  /\ GapsComplete
  /\ CutEndsGap
  /\ CutsAreEarned
  /\ ResetKnown
  /\ TimestampsEarned

---------------------------------------------------------------------------
(* Arithmetic. *)

LEMMA DivMod ==
  ASSUME NEW x \in Int, NEW n \in Nat \ {0}
  PROVE  /\ x \div n \in Int
         /\ (x % n) \in Nat /\ (x % n) < n
         /\ (x \div n) * n \in Int
         /\ (x \div n + 1) * n \in Int
         /\ x = (x \div n) * n + (x % n)
         /\ (x \div n) * n <= x
         /\ x < (x \div n + 1) * n
<1>1. /\ x \div n \in Int
      /\ (x % n) \in Nat /\ (x % n) < n
      /\ x = (x \div n) * n + (x % n)
  OBVIOUS
<1>2. \A q \in Int : q * n \in Int /\ (q + 1) * n = q * n + n
  OBVIOUS
<1> QED
  BY <1>1, <1>2

LEMMA NextMultiple ==
  ASSUME NEW a \in Int, NEW b \in Int, NEW n \in Nat, a < b
  PROVE  (a + 1) * n <= b * n
<1>1. (b - (a + 1)) * n >= 0
  <2>1. b - (a + 1) \in Nat
    OBVIOUS
  <2>2. \A d \in Nat : d * n >= 0
    OBVIOUS
  <2> QED
    BY <2>1, <2>2
<1>2. b * n = (a + 1) * n + (b - (a + 1)) * n
  OBVIOUS
<1> QED
  BY <1>1, <1>2

LEMMA QuotientMonotonic ==
  ASSUME NEW x \in Int, NEW y \in Int, NEW n \in Nat \ {0}, x <= y
  PROVE  x \div n <= y \div n
<1>1. /\ x \div n \in Int /\ y \div n \in Int
      /\ (x \div n) * n <= x /\ y < (y \div n + 1) * n
      /\ (x \div n) * n \in Int /\ (y \div n + 1) * n \in Int
  BY DivMod
<1>2. y \div n < x \div n => (y \div n + 1) * n <= (x \div n) * n
  BY <1>1, NextMultiple
<1> QED
  BY <1>1, <1>2

---------------------------------------------------------------------------
(* The functions of LossParams. *)

LEMMA ProfileFields ==
  ASSUME NEW p \in Profiles
  PROVE  /\ p.x0 \in Int /\ p.up \in Nat /\ p.down \in Nat /\ p.interval \in Nat
         /\ p.enabled \in BOOLEAN /\ p.intervals \in BOOLEAN
         /\ Period(p) \in Nat \ {0}
         /\ p.intervals => p.interval > 0 /\ -p.up <= p.x0 /\ p.x0 <= 0
BY ProfilesAssumption DEF Period

\* Which packets the expression of checkLossGap drops.
LEMMA CheckLossGapIs ==
  ASSUME NEW p \in Profiles, NEW i \in Int
  PROVE  CheckLossGap(p, i) <=>
           \/ i >= p.x0 /\ (i - p.x0) % Period(p) >= p.up
           \/ p.up = 0 /\ i < p.x0 /\ (p.x0 - i) % Period(p) = 0
<1> DEFINE n == Period(p)
           x == i - p.x0
           y == p.x0 - i
<1>1. /\ p.x0 \in Int /\ p.up \in Nat /\ n \in Nat \ {0}
      /\ x \in Int /\ y \in Int /\ y = -x
      /\ x >= 0 <=> i >= p.x0
  BY ProfileFields
<1>2. CheckLossGap(p, i) <=> x - JavaDiv(x, n) * n - p.up >= 0
  BY DEF CheckLossGap
<1> HIDE DEF n, x, y
<1>3. CASE x >= 0
  <2>1. JavaDiv(x, n) = x \div n
    BY <1>3 DEF JavaDiv
  <2>2. x - JavaDiv(x, n) * n = (x % n) /\ (x % n) \in Nat
    BY <1>1, <2>1, DivMod
  <2>3. CheckLossGap(p, i) <=> (x % n) >= p.up
    BY <1>1, <1>2, <2>2
  <2> QED
    BY <1>1, <1>3, <2>3 DEF n, x
<1>4. CASE x < 0
  <2>1. JavaDiv(x, n) = -(y \div n)
    BY <1>1, <1>4 DEF JavaDiv
  <2>2. /\ y \div n \in Int
        /\ (y % n) \in Nat
        /\ y = (y \div n) * n + (y % n)
    BY <1>1, DivMod
  <2>3. (-(y \div n)) * n = -((y \div n) * n)
    BY <1>1, <2>2
  <2>4. x - JavaDiv(x, n) * n = -(y % n)
    BY <1>1, <2>1, <2>2, <2>3
  <2>5. CheckLossGap(p, i) <=> p.up = 0 /\ (y % n) = 0
    BY <1>1, <1>2, <2>2, <2>4
  <2> QED
    BY <1>1, <1>4, <2>5 DEF n, y
<1> QED
  BY <1>1, <1>3, <1>4

\* With the back-off rule no packet is before x0, so the quotient is the
\* number of the period.
LEMMA GetResetIdIs ==
  ASSUME NEW p \in Profiles, p.intervals, NEW i \in Nat \ {0}
  PROVE  /\ GetResetId(p, i) = ((i - p.x0) \div Period(p) + 1) * Period(p)
         /\ GetResetId(p, i) \in Int
<1>1. p.x0 \in Int /\ p.x0 <= 0 /\ Period(p) \in Nat \ {0}
  BY ProfileFields
<1> DEFINE n == Period(p)
           x == i - p.x0
<1>2. x \in Int /\ x >= 0
  BY <1>1
<1>3. GetResetId(p, i) = (JavaDiv(x, n) + 1) * n
  BY DEF GetResetId
<1> HIDE DEF n, x
<1>4. JavaDiv(x, n) = x \div n
  BY <1>2 DEF JavaDiv
<1>5. (x \div n + 1) * n \in Int
  BY <1>1, <1>2, DivMod DEF n
<1> QED
  BY <1>3, <1>4, <1>5 DEF n, x

\* resetId is past the gap that was cut short, as x0 <= 0 ...
LEMMA ResetAfterGap ==
  ASSUME NEW p \in Profiles, p.intervals, NEW c \in Nat \ {0}, NEW i \in Nat \ {0},
         (c - p.x0) \div Period(p) = (i - p.x0) \div Period(p)
  PROVE  i < GetResetId(p, c)
<1>1. p.x0 \in Int /\ p.x0 <= 0 /\ Period(p) \in Nat \ {0}
  BY ProfileFields
<1> DEFINE n == Period(p)
           x == i - p.x0
<1>2. x \in Int /\ i <= x
  BY <1>1
<1>3. GetResetId(p, c) = (x \div n + 1) * n
  BY GetResetIdIs
<1> HIDE DEF n, x
<1>4. x < (x \div n + 1) * n /\ (x \div n + 1) * n \in Int
  BY <1>1, <1>2, DivMod DEF n
<1> QED
  BY <1>2, <1>3, <1>4

\* ... and has passed before the next gap begins, as x0 >= -up.
LEMMA ResetBeforeNextGap ==
  ASSUME NEW p \in Profiles, p.intervals, NEW c \in Nat \ {0}, NEW i \in Nat \ {0},
         c <= i, i < GetResetId(p, c), (i - p.x0) % Period(p) >= p.up
  PROVE  (c - p.x0) \div Period(p) = (i - p.x0) \div Period(p)
<1>1. p.x0 \in Int /\ p.up \in Nat /\ -p.up <= p.x0 /\ Period(p) \in Nat \ {0}
  BY ProfileFields
<1> DEFINE n == Period(p)
           x == i - p.x0
           z == c - p.x0
<1>2. x \in Int /\ z \in Int /\ z <= x /\ i >= x - p.up /\ (x % n) >= p.up
  BY <1>1
<1>3. GetResetId(p, c) = (z \div n + 1) * n
  BY GetResetIdIs
<1> SUFFICES z \div n = x \div n
  OBVIOUS
<1> HIDE DEF n, x, z
<1>4. /\ x \div n \in Int /\ (x \div n) * n \in Int
      /\ (x % n) \in Nat /\ x = (x \div n) * n + (x % n)
      /\ z \div n \in Int /\ (z \div n + 1) * n \in Int
  BY <1>1, <1>2, DivMod DEF n
<1>5. z \div n <= x \div n
  BY <1>1, <1>2, QuotientMonotonic DEF n
<1>6. z \div n < x \div n => (z \div n + 1) * n <= (x \div n) * n
  BY <1>1, <1>4, NextMultiple DEF n
<1>7. ~((z \div n + 1) * n <= (x \div n) * n)
  BY <1>1, <1>2, <1>3, <1>4
<1> QED
  BY <1>4, <1>5, <1>6, <1>7

\* Later cuts reset later.
LEMMA GetResetIdMonotonic ==
  ASSUME NEW p \in Profiles, p.intervals, NEW c \in Nat \ {0}, NEW i \in Nat \ {0}, c <= i
  PROVE  GetResetId(p, c) <= GetResetId(p, i)
<1>1. p.x0 \in Int /\ Period(p) \in Nat \ {0}
  BY ProfileFields
<1> DEFINE n == Period(p)
           x == i - p.x0
           z == c - p.x0
<1>2. x \in Int /\ z \in Int /\ z <= x
  BY <1>1
<1>3. /\ GetResetId(p, c) = (z \div n + 1) * n
      /\ GetResetId(p, i) = (x \div n + 1) * n
  BY GetResetIdIs
<1> HIDE DEF n, x, z
<1>4. x \div n \in Int /\ z \div n \in Int
  BY <1>1, <1>2, DivMod DEF n
<1>5. z \div n < x \div n + 1
  BY <1>1, <1>2, <1>4, QuotientMonotonic DEF n
<1>6. (z \div n + 1) * n <= (x \div n + 1) * n
  BY <1>1, <1>4, <1>5, NextMultiple DEF n
<1> QED
  BY <1>3, <1>6

---------------------------------------------------------------------------
(* The steps. *)

LEMMA InitIndInv == Init => IndInv
<1> SUFFICES ASSUME Init PROVE IndInv
  OBVIOUS
<1>1. TypeOK
  BY ProfileFields, StreamAssumption DEF Init, TypeOK, Never
<1>2. LossOnlyInGaps /\ GapsComplete /\ CutEndsGap /\ CutsAreEarned
  BY DEF Init, LossOnlyInGaps, GapsComplete, CutEndsGap, CutsAreEarned
<1>3. ResetKnown
  BY DEF Init, ResetKnown
<1>4. TimestampsEarned
  <2>1. SinceCut = {} /\ Len(timestamps) = 0
    BY DEF Init, SinceCut
  <2> QED
    BY <2>1, FS_EmptySet DEF TimestampsEarned
<1> QED
  BY <1>1, <1>2, <1>3, <1>4 DEF IndInv

\* What every call of loss() starts from.
LEMMA Numbers ==
  ASSUME TypeOK
  PROVE  /\ lossParams \in Profiles /\ id \in Nat /\ id + 1 \in Nat \ {0}
         /\ lossParams.interval \in Nat
         /\ Len(timestamps) \in Nat
         /\ \A i \in lost \cup cuts : i \in Nat \ {0} /\ i <= id
         /\ \A i \in 1..id : i \in Nat \ {0} /\ i < id + 1
         /\ \A S \in SUBSET lost : IsFiniteSet(S) /\ Cardinality(S) \in Nat
<1>1. /\ lossParams \in Profiles /\ id \in Nat
      /\ lost \subseteq 1..id /\ cuts \subseteq 1..id
      /\ timestamps \in Seq(Nat)
  BY StreamAssumption DEF TypeOK
<1>2. \A S \in SUBSET lost : IsFiniteSet(S) /\ Cardinality(S) \in Nat
  <2>1. IsFiniteSet(1..id)
    BY <1>1, FS_Interval
  <2>2. \A S \in SUBSET lost : S \subseteq 1..id
    BY <1>1
  <2> QED
    BY <2>1, <2>2, FS_Subset, FS_CardinalityType
<1> QED
  BY <1>1, <1>2, ProfileFields

LEMMA RememberIs ==
  ASSUME TypeOK, NEW t \in Nat
  PROVE  /\ Remember(t) \in Seq(Nat)
         /\ Len(Remember(t)) <= lossParams.interval + 1
         /\ Len(Remember(t)) <= Len(timestamps) + 1
         /\ Len(Remember(t)) = lossParams.interval + 1 =>
              Len(timestamps) >= lossParams.interval
<1> DEFINE ts == Append(timestamps, t)
<1>1. /\ timestamps \in Seq(Nat) /\ lossParams.interval \in Nat
      /\ Len(timestamps) <= lossParams.interval + 1
  BY Numbers DEF TypeOK
<1>2. ts \in Seq(Nat) /\ Len(ts) = Len(timestamps) + 1 /\ Len(timestamps) \in Nat
  BY <1>1
<1> HIDE DEF ts
<1>3. Len(ts) > 0 => Tail(ts) \in Seq(Nat) /\ Len(Tail(ts)) = Len(ts) - 1
  BY <1>2
<1>4. Remember(t) = IF Len(ts) > lossParams.interval + 1 THEN Tail(ts) ELSE ts
  BY DEF Remember, ts
<1> QED
  BY <1>1, <1>2, <1>3, <1>4

(***************************************************************************)
(* The part of every step: lossParams stays, id goes up by one and what is *)
(* new in lost and cuts is this id.                                        *)
(***************************************************************************)
LEMMA TypeStep ==
  ASSUME TypeOK, NEW pause \in Pauses, Loss(now + pause)
  PROVE  TypeOK'
<1>1. /\ id' = id + 1 /\ id < MaxId /\ lossParams' = lossParams
      /\ now + pause \in Nat /\ now' \in Nat
  BY StreamAssumption DEF Loss, TypeOK
<1>2. /\ lossParams \in Profiles /\ lossParams.interval \in Nat /\ id + 1 \in Nat \ {0}
      /\ timestamps \in Seq(Nat) /\ Len(timestamps) <= lossParams.interval + 1
      /\ lost \subseteq 1..id /\ cuts \subseteq 1..id /\ id' \in 0..MaxId
      /\ resetId \in Int
  BY <1>1, Numbers, StreamAssumption DEF TypeOK
<1>3. /\ timestamps' \in Seq(Nat)
      /\ Len(timestamps') <= lossParams.interval + 1
  <2>1. timestamps' \in {timestamps, Remember(now + pause), <<>>}
    BY DEF Loss, Pass, Drop, Cut
  <2>2. /\ Remember(now + pause) \in Seq(Nat)
        /\ Len(Remember(now + pause)) <= lossParams.interval + 1
    BY <1>1, RememberIs
  <2>3. <<>> \in Seq(Nat) /\ Len(<<>>) <= lossParams.interval + 1
    BY <1>2
  <2> QED
    BY <1>1, <1>2, <2>1, <2>2, <2>3
<1>4. lost' \subseteq 1..id' /\ cuts' \subseteq 1..id'
  <2>1. lost' \subseteq lost \cup {id + 1} /\ cuts' \subseteq cuts \cup {id + 1}
    BY DEF Loss, Pass, Drop, Cut
  <2>2. 1..id' = 1..id \cup {id + 1}
    BY <1>1, Numbers
  <2> QED
    BY <1>2, <2>1, <2>2
<1>5. resetId' \in Int
  <2>1. \/ resetId' = resetId
        \/ lossParams.intervals /\ resetId' = GetResetId(lossParams, id + 1)
    BY DEF Loss, Pass, Drop, Cut
  <2> QED
    BY <1>2, <2>1, GetResetIdIs
<1> QED
  BY <1>1, <1>2, <1>3, <1>4, <1>5 DEF TypeOK

\* InGap, Stray and SameGap are about the profile, which never changes.
LEMMA PassIndInv ==
  ASSUME IndInv, NEW pause \in Pauses, Loss(now + pause), Pass
  PROVE  IndInv'
<1>1. TypeOK /\ TypeOK'
  BY TypeStep DEF IndInv
<1>2. /\ id' = id + 1 /\ UNCHANGED <<lossParams, timestamps, resetId, lost, cuts>>
  BY DEF Loss, Pass
<1>3. LossOnlyInGaps' /\ CutEndsGap' /\ CutsAreEarned' /\ ResetKnown' /\ TimestampsEarned'
  BY <1>2 DEF IndInv, LossOnlyInGaps, CutEndsGap, CutsAreEarned, ResetKnown,
              TimestampsEarned, SinceCut, InGap, Stray, SameGap
<1>4. GapsComplete'
  <2> DEFINE n == id + 1
  <2>1. InGap(n) => CheckLossGap(lossParams, n) /\ lossParams.enabled
    BY <1>1, Numbers, CheckLossGapIs DEF InGap
  <2>2. ASSUME InGap(n) PROVE \E c \in cuts : SameGap(c, n) /\ ~(n < c)
    <3>1. n < resetId /\ n \in Nat \ {0}
      BY <1>1, <2>1, <2>2, Numbers DEF Pass
    <3>2. cuts # {}
      BY <3>1 DEF IndInv, ResetKnown, Never
    <3>3. PICK c \in cuts : lossParams.intervals /\ resetId = GetResetId(lossParams, c)
      BY <3>2 DEF IndInv, ResetKnown
    <3>4. lossParams \in Profiles /\ c \in Nat \ {0} /\ c <= n /\ ~(n < c)
      BY <1>1, Numbers
    <3>5. (n - lossParams.x0) % Period(lossParams) >= lossParams.up
      BY <2>2 DEF InGap
    <3>6. SameGap(c, n)
      BY <3>1, <3>3, <3>4, <3>5, ResetBeforeNextGap DEF SameGap
    <3> QED
      BY <3>4, <3>6
  <2>3. \A i \in 1..id' : i = n \/ i \in 1..id
    BY <1>1, <1>2, Numbers
  <2>4. \A i \in 1..id : InGap(i) /\ (\A c \in cuts : SameGap(c, i) => i < c) => i \in lost
    BY DEF IndInv, GapsComplete
  <2>5. \A i \in 1..id' : InGap(i) /\ (\A c \in cuts : SameGap(c, i) => i < c) => i \in lost
    BY <2>2, <2>3, <2>4
  <2> QED
    BY <1>2, <2>5 DEF GapsComplete, InGap, SameGap
<1> QED
  BY <1>1, <1>3, <1>4 DEF IndInv

LEMMA DropIndInv ==
  ASSUME IndInv, NEW pause \in Pauses, Loss(now + pause), Drop(now + pause)
  PROVE  IndInv'
<1> DEFINE n == id + 1
<1>1. TypeOK /\ TypeOK' /\ now + pause \in Nat
  BY TypeStep, StreamAssumption DEF IndInv, TypeOK
<1>2. /\ id' = n /\ lost' = lost \cup {n}
      /\ UNCHANGED <<lossParams, resetId, cuts>>
      /\ n >= resetId /\ lossParams.enabled /\ CheckLossGap(lossParams, n)
  BY DEF Loss, Drop, InGapNow
<1>3. /\ lossParams \in Profiles /\ n \in Nat \ {0}
      /\ \A i \in lost \cup cuts : i \in Nat \ {0} /\ i < n
      /\ \A i \in 1..id' : i = n \/ i \in 1..id
  BY <1>1, <1>2, Numbers
<1> HIDE DEF n
<1>4. LossOnlyInGaps'
  <2>1. InGap(n) \/ Stray(n)
    BY <1>2, <1>3, CheckLossGapIs DEF InGap, Stray
  <2> QED
    BY <1>2, <2>1 DEF IndInv, LossOnlyInGaps, InGap, Stray
<1>5. GapsComplete'
  BY <1>2, <1>3 DEF IndInv, GapsComplete, InGap, SameGap
<1>6. CutEndsGap'
  <2>1. ASSUME NEW c \in cuts PROVE ~SameGap(c, n)
    <3>1. lossParams.intervals /\ GetResetId(lossParams, c) <= resetId
      BY DEF IndInv, ResetKnown
    <3>2. /\ GetResetId(lossParams, c) \in Int /\ resetId \in Int
          /\ c \in Nat \ {0}
      BY <1>1, <1>3, <3>1, GetResetIdIs DEF TypeOK
    <3>3. ~(n < GetResetId(lossParams, c))
      BY <1>2, <1>3, <3>1, <3>2
    <3> QED
      BY <1>3, <3>1, <3>2, <3>3, ResetAfterGap DEF SameGap
  <2> QED
    BY <1>2, <2>1 DEF IndInv, CutEndsGap, SameGap
<1>7. CutsAreEarned'
  <2>1. ASSUME NEW c \in cuts
        PROVE  {i \in lost \cup {n} : i < c /\ \A d \in cuts : d < c => d < i}
               = {i \in lost : i < c /\ \A d \in cuts : d < c => d < i}
    BY <1>3
  <2> QED
    BY <1>2, <2>1 DEF IndInv, CutsAreEarned
<1>8. ResetKnown'
  BY <1>2 DEF IndInv, ResetKnown
<1>9. TimestampsEarned'
  <2>1. SinceCut' = SinceCut \cup {n} /\ n \notin SinceCut
    BY <1>2, <1>3 DEF SinceCut
  <2>2. IsFiniteSet(SinceCut) /\ Cardinality(SinceCut) \in Nat
    BY <1>1, Numbers DEF SinceCut
  <2>3. Cardinality(SinceCut') = Cardinality(SinceCut) + 1
    BY <2>1, <2>2, FS_AddElement
  <2>4. Len(timestamps') <= Len(timestamps) + 1 /\ Len(timestamps') \in Nat
    <3>1. timestamps' \in {timestamps, Remember(now + pause)}
      BY DEF Drop
    <3>2. /\ Remember(now + pause) \in Seq(Nat)
          /\ Len(Remember(now + pause)) <= Len(timestamps) + 1
      BY <1>1, RememberIs
    <3>3. Len(Remember(now + pause)) \in Nat
      BY <3>2
    <3> QED
      BY <1>1, <3>1, <3>2, <3>3, Numbers
  <2>5. Len(timestamps) <= Cardinality(SinceCut) /\ Len(timestamps) \in Nat
    BY <1>1, Numbers DEF IndInv, TimestampsEarned
  <2>6. Len(timestamps') <= Cardinality(SinceCut')
    BY <2>2, <2>3, <2>4, <2>5
  <2> QED
    BY <2>6 DEF TimestampsEarned
<1> QED
  BY <1>1, <1>4, <1>5, <1>6, <1>7, <1>8, <1>9 DEF IndInv

LEMMA CutIndInv ==
  ASSUME IndInv, NEW pause \in Pauses, Loss(now + pause), Cut(now + pause)
  PROVE  IndInv'
<1> DEFINE n == id + 1
<1>1. TypeOK /\ TypeOK' /\ now + pause \in Nat
  BY TypeStep, StreamAssumption DEF IndInv, TypeOK
<1>2. /\ id' = n /\ cuts' = cuts \cup {n} /\ timestamps' = <<>>
      /\ UNCHANGED <<lossParams, lost>>
      /\ resetId' = GetResetId(lossParams, n)
      /\ lossParams.intervals
  BY DEF Loss, Cut
<1>3. /\ lossParams \in Profiles /\ n \in Nat \ {0} /\ lossParams.interval \in Nat
      /\ \A i \in lost \cup cuts : i \in Nat \ {0} /\ i < n
      /\ \A i \in 1..id' : i = n \/ i \in 1..id
      /\ \A i \in 1..id : i < n
  BY <1>1, <1>2, Numbers
<1>4. Len(timestamps) >= lossParams.interval
  BY <1>1, RememberIs DEF Cut, BackedOff
<1> HIDE DEF n
<1>5. LossOnlyInGaps'
  BY <1>2 DEF IndInv, LossOnlyInGaps, InGap, Stray
<1>6. GapsComplete'
  <2>1. ASSUME NEW i \in 1..id', InGap(i), \A c \in cuts' : SameGap(c, i) => i < c
        PROVE  i \in lost
    <3>1. i # n
      <4>1. SameGap(n, n) /\ ~(n < n)
        BY <1>3 DEF SameGap
      <4> QED
        BY <1>2, <2>1, <4>1
    <3> QED
      BY <1>2, <1>3, <2>1, <3>1 DEF IndInv, GapsComplete
  <2> QED
    BY <1>2, <2>1 DEF GapsComplete, InGap, SameGap
<1>7. CutEndsGap'
  BY <1>2, <1>3 DEF IndInv, CutEndsGap, SameGap
<1>8. CutsAreEarned'
  <2> DEFINE Earned(c, C) == {i \in lost : i < c /\ \A d \in C : d < c => d < i}
  <2>1. \A c \in cuts : Earned(c, cuts') = Earned(c, cuts)
    BY <1>2, <1>3
  <2>2. Earned(n, cuts') = SinceCut
    BY <1>2, <1>3 DEF SinceCut
  <2>3. Cardinality(SinceCut) >= lossParams.interval
    <3>1. /\ Cardinality(SinceCut) \in Nat /\ Len(timestamps) \in Nat
          /\ Len(timestamps) <= Cardinality(SinceCut)
      BY <1>1, Numbers DEF IndInv, TimestampsEarned, SinceCut
    <3> QED
      BY <1>3, <1>4, <3>1
  <2>4. \A c \in cuts' : Cardinality(Earned(c, cuts')) >= lossParams.interval
    BY <1>2, <2>1, <2>2, <2>3 DEF IndInv, CutsAreEarned
  <2> QED
    BY <1>2, <2>4 DEF CutsAreEarned
<1>9. ResetKnown'
  <2>1. \A c \in cuts : GetResetId(lossParams, c) <= GetResetId(lossParams, n)
    BY <1>2, <1>3, GetResetIdMonotonic
  <2>2. GetResetId(lossParams, n) <= GetResetId(lossParams, n)
    BY <1>2, <1>3, GetResetIdIs
  <2> QED
    BY <1>2, <2>1, <2>2 DEF ResetKnown
<1>10. TimestampsEarned'
  <2>1. SinceCut' = {} /\ Len(timestamps') = 0
    BY <1>2, <1>3 DEF SinceCut
  <2> QED
    BY <2>1, FS_EmptySet DEF TimestampsEarned
<1> QED
  BY <1>1, <1>5, <1>6, <1>7, <1>8, <1>9, <1>10 DEF IndInv

LEMMA NextIndInv == IndInv /\ [Next]_vars => IndInv'
<1> SUFFICES ASSUME IndInv, [Next]_vars PROVE IndInv'
  OBVIOUS
<1>1. ASSUME NEW pause \in Pauses, Loss(now + pause) PROVE IndInv'
  <2>1. CASE Pass
    BY <1>1, <2>1, PassIndInv
  <2>2. CASE Drop(now + pause)
    BY <1>1, <2>2, DropIndInv
  <2>3. CASE Cut(now + pause)
    BY <1>1, <2>3, CutIndInv
  <2> QED
    BY <1>1, <2>1, <2>2, <2>3 DEF Loss
<1>2. CASE UNCHANGED vars
  BY <1>2 DEF vars, IndInv, TypeOK, LossOnlyInGaps, GapsComplete, CutEndsGap,
              CutsAreEarned, ResetKnown, TimestampsEarned, SinceCut, InGap, Stray, SameGap
<1> QED
  BY <1>1, <1>2 DEF Next

LEMMA SpecIndInv == Spec => []IndInv
<1> QED
  BY InitIndInv, NextIndInv, PTL DEF Spec

---------------------------------------------------------------------------
(* The theorems. *)

\* At most interval + 1 timestamps are kept, and resetId is always a number.
THEOREM TypeCorrect == Spec => []TypeOK
<1>1. IndInv => TypeOK
  BY DEF IndInv
<1> QED
  BY <1>1, SpecIndInv, PTL

\* checkLossGap drops packets of the gaps only, and strays before x0 when the
\* profile passes nothing.
THEOREM LossOnlyInGapsHolds == Spec => []LossOnlyInGaps
<1>1. IndInv => LossOnlyInGaps
  BY DEF IndInv
<1> QED
  BY <1>1, SpecIndInv, PTL

\* The resetId of a cut does not reach into the next gap.
THEOREM GapsCompleteHolds == Spec => []GapsComplete
<1>1. IndInv => GapsComplete
  BY DEF IndInv
<1> QED
  BY <1>1, SpecIndInv, PTL

\* The resetId of a cut is past the gap of the cut.
THEOREM CutEndsGapHolds == Spec => []CutEndsGap
<1>1. IndInv => CutEndsGap
  BY DEF IndInv
<1> QED
  BY <1>1, SpecIndInv, PTL

\* checkInterval never answers on the packets dropped before the last cut.
THEOREM CutsAreEarnedHolds == Spec => []CutsAreEarned
<1>1. IndInv => CutsAreEarned
  BY DEF IndInv
<1> QED
  BY <1>1, SpecIndInv, PTL
===========================================================================
