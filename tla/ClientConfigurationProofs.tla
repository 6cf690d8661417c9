--------------------- MODULE ClientConfigurationProofs ---------------------
(***************************************************************************)
(* Proofs about ClientConfiguration and its parser, for any number of      *)
(* clients and servers: induction without operators as parameters,         *)
(* sequences, the parser symbol by symbol and number by number, what each  *)
(* piece of a configuration does to it (Takes), why it refuses all but     *)
(* whole configurations (Done), and the inductive invariant of the system  *)
(* (IndInv).                                                               *)
(***************************************************************************)
EXTENDS ClientConfiguration, FiniteSetTheorems, WellFoundedInduction, SequenceTheorems, TLAPS

---------------------------------------------------------------------------
(* Induction and recursive functions. *)

(***************************************************************************)
(* A set of numbers that is not empty has a least one: of the intervals    *)
(* from 0 to its members, one contains no other.                           *)
(***************************************************************************)
LEMMA LeastNumber ==
  ASSUME NEW S \in SUBSET Nat, S # {}
  PROVE  \E m \in S : \A n \in S : m <= n
<1> DEFINE Below(n) == 0..n
           Intervals == {Below(n) : n \in S}
<1>1. Intervals \subseteq FiniteSubsetsOf(Nat) /\ Intervals # {}
  <2>1. \A n \in S : Below(n) \in SUBSET Nat /\ IsFiniteSet(Below(n))
    BY FS_Interval
  <2> QED
    BY <2>1 DEF FiniteSubsetsOf
<1>2. PICK I \in Intervals : \A J \in Intervals : <<J, I>> \notin StrictSubsetOrdering(Nat)
  BY <1>1, FS_StrictSubsetOrderingWellFounded, WFMin
<1>3. PICK m \in S : I = Below(m)
  OBVIOUS
<1>4. ASSUME NEW n \in S, n < m PROVE FALSE
  <2>1. m \in Below(m) /\ m \notin Below(n)
    BY <1>4
  <2>2. Below(n) \subseteq Below(m) /\ Below(n) # Below(m) /\ Below(m) \in SUBSET Nat
    BY <1>4, <2>1
  <2>3. <<Below(n), Below(m)>> \in StrictSubsetOrdering(Nat)
    BY <2>2 DEF StrictSubsetOrdering
  <2> QED
    BY <1>2, <1>3, <2>3
<1> QED
  BY <1>4

\* Induction, for a property given as the set of the numbers that have it.
LEMMA SetInduction ==
  ASSUME NEW S, 0 \in S, \A n \in Nat : n \in S => n + 1 \in S
  PROVE  Nat \subseteq S
<1> SUFFICES ASSUME Nat \ S # {} PROVE FALSE
  OBVIOUS
<1>1. PICK m \in Nat \ S : \A n \in Nat \ S : m <= n
  BY LeastNumber
<1>2. m # 0 /\ m - 1 \in Nat
  BY <1>1
<1>3. m - 1 \in S
  BY <1>1, <1>2
<1> QED
  BY <1>1, <1>2, <1>3

\* The same, when all smaller numbers have the property already.
LEMMA StrongInduction ==
  ASSUME NEW S, \A n \in Nat : (\A m \in 0..(n - 1) : m \in S) => n \in S
  PROVE  Nat \subseteq S
<1> SUFFICES ASSUME Nat \ S # {} PROVE FALSE
  OBVIOUS
<1>1. PICK n \in Nat \ S : \A m \in Nat \ S : n <= m
  BY LeastNumber
<1>2. \A m \in 0..(n - 1) : m \in S
  BY <1>1
<1> QED
  BY <1>1, <1>2

\* The states of the parser on its way through a text.
IsRun(f, p, symbols) ==
  f = [i \in 0..Len(symbols) |-> IF i = 0 THEN p ELSE Step(f[i - 1], symbols[i])]

LEMMA RunExists ==
  ASSUME NEW p, NEW symbols, Len(symbols) \in Nat
  PROVE  \E f : IsRun(f, p, symbols) /\ Run(p, symbols) = f[Len(symbols)]
<1> DEFINE Upto(f, k) == f = [i \in 0..k |-> IF i = 0 THEN p ELSE Step(f[i - 1], symbols[i])]
           S == {k \in Nat : \E f : Upto(f, k)}
<1>1. 0 \in S
  <2> DEFINE f == [i \in 0..0 |-> p]
  <2>1. Upto(f, 0)
    OBVIOUS
  <2> QED
    BY <2>1
<1>2. ASSUME NEW k \in Nat, k \in S PROVE k + 1 \in S
  <2>1. PICK f : Upto(f, k)
    BY <1>2
  <2> DEFINE g == [i \in 0..(k + 1) |-> IF i = k + 1 THEN Step(f[k], symbols[k + 1]) ELSE f[i]]
  <2>2. \A i \in 0..k : g[i] = f[i]
    OBVIOUS
  <2>3. ASSUME NEW i \in 0..(k + 1)
        PROVE  g[i] = IF i = 0 THEN p ELSE Step(g[i - 1], symbols[i])
    <3>1. CASE i = k + 1
      <4>1. i - 1 = k /\ i # 0 /\ g[i] = Step(f[k], symbols[k + 1]) /\ g[k] = f[k]
        BY <2>2, <3>1
      <4> QED
        BY <3>1, <4>1
    <3>2. CASE i # k + 1
      <4>1. i \in 0..k /\ g[i] = f[i] /\ (i # 0 => g[i - 1] = f[i - 1])
        BY <2>2, <3>2
      <4>2. f[i] = IF i = 0 THEN p ELSE Step(f[i - 1], symbols[i])
        BY <2>1, <4>1
      <4> QED
        BY <4>1, <4>2
    <3> QED
      BY <3>1, <3>2
  <2>4. Upto(g, k + 1)
    <3>1. g = [i \in 0..(k + 1) |-> g[i]]
      OBVIOUS
    <3> HIDE DEF g
    <3> QED
      BY <2>3, <3>1
  <2> HIDE DEF g, Upto
  <2> QED
    BY <2>4
<1>3. \E f : Upto(f, Len(symbols))
  <2> HIDE DEF Upto
  <2> QED
    BY <1>1, <1>2, SetInduction
<1>4. Run(p, symbols) = (CHOOSE f : Upto(f, Len(symbols)))[Len(symbols)]
  BY DEF Run
<1> QED
  BY <1>3, <1>4 DEF IsRun

---------------------------------------------------------------------------
(* Sequences, whatever they hold. *)

IsSeq(s) == \E V : s \in Seq(V)

LEMMA SeqIs ==
  ASSUME NEW s, IsSeq(s)
  PROVE  Len(s) \in Nat /\ DOMAIN s = 1..Len(s)
BY DEF IsSeq

LEMMA EmptyIs == IsSeq(<<>>) /\ Len(<<>>) = 0
<1>1. <<>> \in Seq({})
  OBVIOUS
<1> QED
  BY <1>1 DEF IsSeq

\* Two sequences are equal when their lengths and elements are.
LEMMA SameSeq ==
  ASSUME NEW s, NEW t, IsSeq(s), IsSeq(t), Len(s) = Len(t),
         \A i \in 1..Len(s) : s[i] = t[i]
  PROVE  s = t
<1>1. PICK V : s \in Seq(V)
  BY DEF IsSeq
<1>2. PICK W : t \in Seq(W)
  BY DEF IsSeq
<1>3. s \in Seq(V \cup W) /\ t \in Seq(V \cup W)
  BY <1>1, <1>2
<1> QED
  BY <1>3, SeqEqual

LEMMA ConcatIs ==
  ASSUME NEW s, NEW t, IsSeq(s), IsSeq(t)
  PROVE  /\ IsSeq(s \o t)
         /\ Len(s \o t) = Len(s) + Len(t)
         /\ \A i \in 1..Len(s) : (s \o t)[i] = s[i]
         /\ \A i \in 1..Len(t) : (s \o t)[Len(s) + i] = t[i]
<1>1. PICK V : s \in Seq(V)
  BY DEF IsSeq
<1>2. PICK W : t \in Seq(W)
  BY DEF IsSeq
<1>3. s \in Seq(V \cup W) /\ t \in Seq(V \cup W)
  BY <1>1, <1>2
<1> HIDE <1>1, <1>2
<1>4. s \o t \in Seq(V \cup W)
  BY <1>3
<1>5. Len(s) \in Nat /\ Len(t) \in Nat
  BY <1>3
<1>6. Len(s \o t) = Len(s) + Len(t)
  BY <1>3
<1>7. \A i \in 1..Len(s) : (s \o t)[i] = s[i]
  BY <1>3, <1>5
<1>8. \A i \in 1..Len(t) : (s \o t)[Len(s) + i] = t[i]
  <2> TAKE i \in 1..Len(t)
  <2>1. Len(s) + i \in 1..(Len(s) + Len(t)) /\ ~(Len(s) + i <= Len(s)) /\ (Len(s) + i) - Len(s) = i
    BY <1>5
  <2> QED
    BY <1>3, <1>5, <2>1
<1> QED
  BY <1>4, <1>6, <1>7, <1>8 DEF IsSeq

LEMMA AppendIs ==
  ASSUME NEW s, NEW v, IsSeq(s)
  PROVE  /\ IsSeq(Append(s, v))
         /\ Len(Append(s, v)) = Len(s) + 1
         /\ \A i \in 1..Len(s) : Append(s, v)[i] = s[i]
         /\ Append(s, v)[Len(s) + 1] = v
<1>1. PICK V : s \in Seq(V)
  BY DEF IsSeq
<1>2. s \in Seq(V \cup {v}) /\ v \in V \cup {v}
  BY <1>1
<1> HIDE <1>1
<1>3. Append(s, v) \in Seq(V \cup {v})
  BY <1>2
<1>4. Len(s) \in Nat /\ Len(Append(s, v)) = Len(s) + 1
  BY <1>2
<1>5. \A i \in 1..Len(s) : Append(s, v)[i] = s[i]
  BY <1>2, <1>4
<1>6. Append(s, v)[Len(s) + 1] = v
  BY <1>2, <1>4
<1> QED
  BY <1>3, <1>4, <1>5, <1>6 DEF IsSeq

LEMMA SubSeqIs ==
  ASSUME NEW s, IsSeq(s), NEW m \in Nat \ {0}, NEW n \in Nat, n <= Len(s), m <= n + 1
  PROVE  /\ IsSeq(SubSeq(s, m, n))
         /\ Len(SubSeq(s, m, n)) = n - m + 1
         /\ \A i \in 1..(n - m + 1) : SubSeq(s, m, n)[i] = s[m + i - 1]
<1>1. PICK V : s \in Seq(V)
  BY DEF IsSeq
<1>2. \A i \in m..n : s[i] \in V
  BY <1>1
<1>3. SubSeq(s, m, n) \in Seq(V)
  BY <1>1, <1>2
<1>4. Len(SubSeq(s, m, n)) = n - m + 1
  BY <1>1
<1>5. \A i \in 1..(n - m + 1) : SubSeq(s, m, n)[i] = s[m + i - 1]
  BY <1>1
<1> QED
  BY <1>3, <1>4, <1>5 DEF IsSeq

\* A sequence is its beginning and the rest.
LEMMA SplitIs ==
  ASSUME NEW s, IsSeq(s), NEW n \in 0..Len(s)
  PROVE  /\ IsSeq(SubSeq(s, 1, n)) /\ IsSeq(SubSeq(s, n + 1, Len(s)))
         /\ Len(SubSeq(s, 1, n)) = n /\ Len(SubSeq(s, n + 1, Len(s))) = Len(s) - n
         /\ s = SubSeq(s, 1, n) \o SubSeq(s, n + 1, Len(s))
<1> DEFINE a == SubSeq(s, 1, n)
           b == SubSeq(s, n + 1, Len(s))
<1>1. Len(s) \in Nat
  BY SeqIs
<1>2. IsSeq(a) /\ Len(a) = n /\ \A i \in 1..n : a[i] = s[i]
  <2>1. 1 + n = n + 1 /\ \A i \in 1..n : (1 + i) - 1 = i
    OBVIOUS
  <2> QED
    BY <1>1, <2>1, SubSeqIs
<1>3. IsSeq(b) /\ Len(b) = Len(s) - n /\ \A i \in 1..(Len(s) - n) : b[i] = s[n + i]
  <2>1. PICK m \in Nat \ {0} : m = n + 1
    OBVIOUS
  <2>2. m <= Len(s) + 1 /\ Len(s) - m + 1 = Len(s) - n
        /\ \A i \in 1..(Len(s) - n) : m + i - 1 = n + i
    BY <1>1, <2>1
  <2>3. b = SubSeq(s, m, Len(s))
    BY <2>1
  <2> HIDE DEF b
  <2>4. /\ IsSeq(b) /\ Len(b) = Len(s) - m + 1
        /\ \A i \in 1..(Len(s) - m + 1) : b[i] = s[m + i - 1]
    BY <1>1, <2>2, <2>3, SubSeqIs
  <2> QED
    BY <2>2, <2>4
<1> HIDE DEF a, b
<1>4. IsSeq(a \o b) /\ Len(a \o b) = Len(s)
  BY <1>1, <1>2, <1>3, ConcatIs
<1>5. \A i \in 1..Len(s) : s[i] = (a \o b)[i]
  <2> TAKE i \in 1..Len(s)
  <2>1. CASE i <= n
    BY <1>2, <1>3, <2>1, ConcatIs
  <2>2. CASE i > n
    <3>1. i - n \in 1..(Len(s) - n) /\ n + (i - n) = i
      BY <1>1, <2>2
    <3>2. (a \o b)[Len(a) + (i - n)] = b[i - n]
      BY <1>2, <1>3, <3>1, ConcatIs
    <3> QED
      BY <1>2, <1>3, <3>1, <3>2
  <2>3. i <= n \/ i > n
    BY <1>1
  <2> QED
    BY <2>1, <2>2, <2>3
<1>6. s = a \o b
  <2> DEFINE ab == a \o b
  <2> HIDE DEF ab
  <2>1. IsSeq(ab) /\ Len(s) = Len(ab) /\ \A i \in 1..Len(s) : s[i] = ab[i]
    BY <1>4, <1>5 DEF ab
  <2>2. s = ab
    BY <2>1, SameSeq
  <2> QED
    BY <2>2 DEF ab
<1> QED
  BY <1>2, <1>3, <1>6 DEF a, b

---------------------------------------------------------------------------
(* The parser takes one symbol after the other. *)

\* Where two texts agree, so do the states of the parser.
Agree(s, t, k) == \A i \in 1..k : s[i] = t[i]

LEMMA SameRun ==
  ASSUME NEW p, NEW f, NEW g, NEW s, NEW t, NEW k \in Nat,
         IsRun(f, p, s), Len(s) \in Nat, k <= Len(s),
         IsRun(g, p, t), Len(t) \in Nat, k <= Len(t),
         Agree(s, t, k)
  PROVE  f[k] = g[k]
<1> DEFINE S == {i \in Nat : i <= k => f[i] = g[i]}
<1>1. 0 \in S
  BY DEF IsRun
<1>2. ASSUME NEW i \in Nat, i \in S PROVE i + 1 \in S
  <2> SUFFICES ASSUME i + 1 <= k PROVE f[i + 1] = g[i + 1]
    OBVIOUS
  <2>1. i + 1 \in 0..Len(s) /\ i + 1 \in 0..Len(t) /\ i + 1 \in 1..k /\ i + 1 # 0 /\ (i + 1) - 1 = i
    OBVIOUS
  <2>2. f[i + 1] = Step(f[i], s[i + 1])
    BY <2>1 DEF IsRun
  <2>3. g[i + 1] = Step(g[i], t[i + 1])
    BY <2>1 DEF IsRun
  <2>4. f[i] = g[i]
    BY <1>2, <2>1
  <2> QED
    BY <2>1, <2>2, <2>3, <2>4 DEF Agree
<1>3. k \in S
  <2> HIDE DEF S
  <2> QED
    BY <1>1, <1>2, SetInduction
<1> QED
  BY <1>3

LEMMA RunEmpty ==
  ASSUME NEW p
  PROVE  Run(p, <<>>) = p
<1>1. Len(<<>>) = 0 /\ 0 \in 0..0
  BY EmptyIs
<1>2. PICK f : IsRun(f, p, <<>>) /\ Run(p, <<>>) = f[0]
  BY <1>1, RunExists
<1> QED
  BY <1>1, <1>2 DEF IsRun

LEMMA RunAppend ==
  ASSUME NEW p, NEW s, NEW c, IsSeq(s)
  PROVE  Run(p, Append(s, c)) = Step(Run(p, s), c)
<1> DEFINE t == Append(s, c)
<1>1. Len(s) \in Nat /\ Len(t) = Len(s) + 1 /\ t[Len(s) + 1] = c /\ \A i \in 1..Len(s) : s[i] = t[i]
  BY SeqIs, AppendIs
<1>2. PICK f : IsRun(f, p, s) /\ Run(p, s) = f[Len(s)]
  BY <1>1, RunExists
<1> HIDE DEF t
<1>3. PICK g : IsRun(g, p, t) /\ Run(p, t) = g[Len(t)]
  BY <1>1, RunExists
<1>4. g[Len(s) + 1] = Step(g[Len(s)], c)
  <2>1. Len(s) + 1 \in 0..Len(t) /\ Len(s) + 1 # 0 /\ (Len(s) + 1) - 1 = Len(s)
    BY <1>1
  <2> QED
    BY <1>1, <1>3, <2>1 DEF IsRun
<1>5. f[Len(s)] = g[Len(s)]
  <2>1. Len(t) \in Nat /\ Len(s) <= Len(s) /\ Len(s) <= Len(t) /\ Agree(s, t, Len(s))
    BY <1>1 DEF Agree
  <2> QED
    BY <1>1, <1>2, <1>3, <2>1, SameRun
<1> QED
  BY <1>1, <1>2, <1>3, <1>4, <1>5 DEF t

\* A text can be taken in two parts.
LEMMA RunConcat ==
  ASSUME NEW p, NEW s, NEW t, IsSeq(s), IsSeq(t)
  PROVE  Run(p, s \o t) = Run(Run(p, s), t)
<1> DEFINE q  == Run(p, s)
           st == s \o t
<1>1. /\ Len(s) \in Nat /\ Len(t) \in Nat /\ Len(st) = Len(s) + Len(t)
      /\ \A i \in 1..Len(s) : s[i] = st[i]
      /\ \A i \in 1..Len(t) : st[Len(s) + i] = t[i]
  BY SeqIs, ConcatIs
<1>0. Len(st) \in Nat /\ Len(s) <= Len(s) /\ Len(s) <= Len(st)
  BY <1>1
<1>2. PICK f : IsRun(f, p, s) /\ q = f[Len(s)]
  BY <1>1, RunExists
<1> HIDE DEF st, q
<1>3. PICK g : IsRun(g, q, t) /\ Run(q, t) = g[Len(t)]
  BY <1>1, RunExists
<1>4. PICK h : IsRun(h, p, st) /\ Run(p, st) = h[Len(st)]
  BY <1>0, RunExists
<1> DEFINE S == {i \in Nat : i <= Len(t) => h[Len(s) + i] = g[i]}
<1>5. 0 \in S
  <2>1. f[Len(s)] = h[Len(s)]
    <3>1. Agree(s, st, Len(s))
      BY <1>1 DEF Agree
    <3> HIDE DEF S
    <3> QED
      BY <1>0, <1>1, <1>2, <1>4, <3>1, SameRun
  <2>2. g[0] = q
    BY <1>1, <1>3 DEF IsRun
  <2> QED
    BY <1>1, <1>2, <2>1, <2>2
<1>6. ASSUME NEW i \in Nat, i \in S PROVE i + 1 \in S
  <2> SUFFICES ASSUME i + 1 <= Len(t) PROVE h[Len(s) + (i + 1)] = g[i + 1]
    OBVIOUS
  <2>1. PICK j \in Nat : j = Len(s) + (i + 1)
    BY <1>1
  <2>2. /\ i + 1 \in 0..Len(t) /\ i + 1 \in 1..Len(t) /\ i + 1 # 0 /\ (i + 1) - 1 = i
        /\ j \in 0..Len(st) /\ j # 0 /\ j - 1 = Len(s) + i
    BY <1>1, <2>1
  <2>3. g[i + 1] = Step(g[i], t[i + 1])
    BY <1>3, <2>2 DEF IsRun
  <2>4. h[j] = Step(h[Len(s) + i], st[j])
    BY <1>4, <2>2 DEF IsRun
  <2>5. h[Len(s) + i] = g[i] /\ st[j] = t[i + 1]
    BY <1>1, <1>6, <2>1, <2>2
  <2> QED
    BY <2>1, <2>3, <2>4, <2>5
<1>7. Len(t) \in S
  <2> HIDE DEF S
  <2> QED
    BY <1>1, <1>5, <1>6, SetInduction
<1> QED
  BY <1>1, <1>3, <1>4, <1>7 DEF st, q

LEMMA RunOne ==
  ASSUME NEW p, NEW c
  PROVE  IsSeq(<<c>>) /\ Run(p, <<c>>) = Step(p, c)
<1>1. <<c>> = Append(<<>>, c)
  OBVIOUS
<1>2. IsSeq(Append(<<>>, c)) /\ Run(p, Append(<<>>, c)) = Step(Run(p, <<>>), c)
  BY EmptyIs, AppendIs, RunAppend
<1> QED
  BY <1>1, <1>2, RunEmpty

---------------------------------------------------------------------------
(* The steps of the parser, symbol by symbol. *)

\* The symbols that a brace is not.
LEMMA Braces ==
  /\ LeftBrace \notin {"null", "true", "false", "0", "1", "2", "3", "4", "5", "6", "7", "8", "9"}
  /\ LeftBrace # Quote /\ LeftBrace # Break /\ LeftBrace # EOF /\ LeftBrace # "[" /\ LeftBrace # "]"
  /\ RightBrace # Quote /\ RightBrace # Break /\ RightBrace # EOF /\ RightBrace # ","
<1>1. LeftBrace \notin {"null", "true", "false", "0", "1", "2", "3", "4", "5", "6", "7", "8", "9"}
  BY DEF LeftBrace
<1>2. LeftBrace # "[" /\ LeftBrace # "]"
  BY DEF LeftBrace
<1>3. LeftBrace # Quote /\ LeftBrace # Break /\ LeftBrace # EOF
  BY DEF LeftBrace, Quote, Break, EOF
<1>4. RightBrace # Quote /\ RightBrace # Break /\ RightBrace # EOF
  BY DEF RightBrace, Quote, Break, EOF
<1>5. RightBrace # ","
  BY DEF RightBrace
<1> QED
  BY <1>1, <1>2, <1>3, <1>4, <1>5

\* A parser that has met no error.
At(expects, open, stack, chars, number) ==
  [expects |-> expects, open |-> open, stack |-> stack,
   chars |-> chars, number |-> number, error |-> "none"]

Frame(kind, count) == [kind |-> kind, count |-> count]

LEMMA FrontAppend ==
  ASSUME NEW o, IsSeq(o), NEW f
  PROVE  Front(Append(o, f)) = o
<1> DEFINE open == Append(o, f)
<1>1. Len(o) \in Nat
  BY SeqIs
<1>2. /\ IsSeq(open) /\ Len(open) = Len(o) + 1
      /\ \A i \in 1..Len(o) : open[i] = o[i]
  BY AppendIs
<1> HIDE DEF open
<1>3. Front(open) = o
  <2>1. Len(open) - 1 = Len(o) /\ 1 \in Nat \ {0} /\ Len(o) <= Len(open) /\ 1 <= Len(o) + 1
        /\ (Len(o) - 1) + 1 = Len(o) /\ \A i \in 1..Len(o) : 1 + i - 1 = i
    BY <1>1, <1>2
  <2>2. /\ IsSeq(SubSeq(open, 1, Len(o))) /\ Len(SubSeq(open, 1, Len(o))) = (Len(o) - 1) + 1
        /\ \A i \in 1..((Len(o) - 1) + 1) : SubSeq(open, 1, Len(o))[i] = open[1 + i - 1]
    BY <1>1, <1>2, <2>1, SubSeqIs
  <2>3. /\ Len(SubSeq(open, 1, Len(o))) = Len(o)
        /\ \A i \in 1..Len(o) : SubSeq(open, 1, Len(o))[i] = o[i]
    BY <1>2, <2>1, <2>2
  <2> QED
    BY <2>1, <2>2, <2>3, SameSeq DEF Front
<1> QED
  BY <1>3 DEF open

LEMMA TopFrame ==
  ASSUME NEW o, IsSeq(o), NEW kind, NEW k \in Nat
  PROVE  /\ Append(o, Frame(kind, k)) # <<>> /\ IsSeq(Append(o, Frame(kind, k)))
         /\ [Append(o, Frame(kind, k)) EXCEPT ![Len(Append(o, Frame(kind, k)))].count = @ + 1]
              = Append(o, Frame(kind, k + 1))
<1> DEFINE open == Append(o, Frame(kind, k))
           next == Append(o, Frame(kind, k + 1))
<1>1. Len(o) \in Nat
  BY SeqIs
<1>2. /\ IsSeq(open) /\ Len(open) = Len(o) + 1
      /\ \A i \in 1..Len(o) : open[i] = o[i]
      /\ open[Len(o) + 1] = Frame(kind, k)
  BY AppendIs
<1>3. /\ IsSeq(next) /\ Len(next) = Len(o) + 1
      /\ \A i \in 1..Len(o) : next[i] = o[i]
      /\ next[Len(o) + 1] = Frame(kind, k + 1)
  BY AppendIs
<1> HIDE DEF open, next
<1>4. open # <<>>
  BY <1>1, <1>2, EmptyIs
<1>5. [open EXCEPT ![Len(open)].count = @ + 1] = next
  <2> DEFINE t == [open EXCEPT ![Len(open)].count = @ + 1]
  <2>1. DOMAIN open = 1..(Len(o) + 1) /\ DOMAIN next = 1..(Len(o) + 1)
    BY <1>2, <1>3, SeqIs
  <2>2. next = [i \in 1..(Len(o) + 1) |-> next[i]]
    BY <1>3, <2>1 DEF IsSeq
  <2>3. [Frame(kind, k) EXCEPT !.count = @ + 1] = Frame(kind, k + 1)
    BY DEF Frame
  <2>4. t = [i \in 1..(Len(o) + 1) |-> IF i = Len(o) + 1 THEN Frame(kind, k + 1) ELSE open[i]]
    BY <1>1, <1>2, <2>1, <2>3
  <2>5. \A i \in 1..(Len(o) + 1) : next[i] = IF i = Len(o) + 1 THEN Frame(kind, k + 1) ELSE open[i]
    BY <1>1, <1>2, <1>3
  <2> QED
    BY <2>2, <2>4, <2>5
<1> QED
  BY <1>2, <1>4, <1>5 DEF open, next

LEMMA LastFrame ==
  ASSUME NEW o, IsSeq(o), NEW f
  PROVE  Last(Append(o, f)) = f
BY SeqIs, AppendIs DEF Last

LEMMA ValueDoneIs ==
  ASSUME NEW e, NEW o, IsSeq(o), NEW kind, NEW k \in Nat, NEW s, NEW ch, NEW n
  PROVE  /\ ValueDone(At(e, Append(o, Frame(kind, k)), s, ch, n))
              = At("separator", Append(o, Frame(kind, k + 1)), s, ch, n)
         /\ ValueDone(At(e, <<>>, s, ch, n)) = At("end", <<>>, s, ch, n)
<1> DEFINE open == Append(o, Frame(kind, k))
<1>1. open # <<>> /\ [open EXCEPT ![Len(open)].count = @ + 1] = Append(o, Frame(kind, k + 1))
  BY TopFrame
<1> HIDE DEF open
<1>2. ValueDone(At(e, open, s, ch, n)) = At("separator", Append(o, Frame(kind, k + 1)), s, ch, n)
  BY <1>1 DEF ValueDone, At
<1>3. ValueDone(At(e, <<>>, s, ch, n)) = At("end", <<>>, s, ch, n)
  BY DEF ValueDone, At, Expect
<1> QED
  BY <1>2, <1>3 DEF open

\* Symbols outside strings and numbers that leave the stack alone, or push on it.
LEMMA StepColon ==
  ASSUME NEW o, NEW s, NEW ch, NEW n
  PROVE  Step(At("colon", o, s, ch, n), ":") = At("value", o, s, ch, n)
BY DEF Step, At, InNumber, Scan, SkipsWhitespace, ParseColon, Expect, Break

LEMMA ExpectIs ==
  ASSUME NEW e, NEW what, NEW o, NEW s, NEW ch, NEW n
  PROVE  Expect(At(e, o, s, ch, n), what) = At(what, o, s, ch, n)
BY DEF Expect, At

LEMMA StepSeparator ==
  ASSUME NEW o, NEW s, NEW ch, NEW n, NEW c, c # Break
  PROVE  Step(At("separator", o, s, ch, n), c) = ParseSeparator(At("separator", o, s, ch, n), c)
BY DEF Step, At, InNumber, Scan, SkipsWhitespace

LEMMA SeparatorIs ==
  ASSUME NEW p
  PROVE  /\ Last(p.open).kind = "object" => /\ ParseSeparator(p, ",") = Expect(p, "name")
                                            /\ ParseSeparator(p, RightBrace) = EndObject(p)
         /\ Last(p.open).kind = "array" => /\ ParseSeparator(p, ",") = Expect(p, "value")
                                           /\ ParseSeparator(p, "]") = EndArray(p)
<1>1. "," # RightBrace
  BY Braces
<1>2. ASSUME Last(p.open).kind = "object"
      PROVE  ParseSeparator(p, ",") = Expect(p, "name") /\ ParseSeparator(p, RightBrace) = EndObject(p)
  BY <1>1, <1>2, Zenon DEF ParseSeparator
<1>3. ASSUME Last(p.open).kind = "array"
      PROVE  ParseSeparator(p, ",") = Expect(p, "value") /\ ParseSeparator(p, "]") = EndArray(p)
  BY <1>3, Zenon DEF ParseSeparator
<1> QED
  BY <1>2, <1>3

LEMMA StepNextMember ==
  ASSUME NEW open, Last(open).kind = "object", NEW s, NEW ch, NEW n
  PROVE  Step(At("separator", open, s, ch, n), ",") = At("name", open, s, ch, n)
<1> DEFINE p == At("separator", open, s, ch, n)
           c == ","
<1>1. Last(p.open).kind = "object"
  BY DEF At
<1>2. ParseSeparator(p, c) = Expect(p, "name")
  <2> HIDE DEF p
  <2> QED
    BY <1>1, SeparatorIs
<1>3. c # Break
  BY DEF Break
<1> HIDE DEF c
<1>4. Step(p, c) = ParseSeparator(p, c)
  BY <1>3, StepSeparator
<1>5. Expect(p, "name") = At("name", open, s, ch, n)
  BY ExpectIs
<1> HIDE DEF p
<1>6. Step(p, c) = At("name", open, s, ch, n)
  BY <1>2, <1>4, <1>5
<1> QED
  BY <1>6 DEF p, c

LEMMA StepNextElement ==
  ASSUME NEW open, Last(open).kind = "array", NEW s, NEW ch, NEW n
  PROVE  Step(At("separator", open, s, ch, n), ",") = At("value", open, s, ch, n)
<1> DEFINE p == At("separator", open, s, ch, n)
           c == ","
<1>1. Last(p.open).kind = "array"
  BY DEF At
<1>2. ParseSeparator(p, c) = Expect(p, "value")
  <2> HIDE DEF p
  <2> QED
    BY <1>1, SeparatorIs
<1>3. c # Break
  BY DEF Break
<1> HIDE DEF c
<1>4. Step(p, c) = ParseSeparator(p, c)
  BY <1>3, StepSeparator
<1>5. Expect(p, "value") = At("value", open, s, ch, n)
  BY ExpectIs
<1> HIDE DEF p
<1>6. Step(p, c) = At("value", open, s, ch, n)
  BY <1>2, <1>4, <1>5
<1> QED
  BY <1>6 DEF p, c

LEMMA StepBreak ==
  ASSUME NEW e, e \notin {"valueChars", "nameChars", "digits", "zero"}, NEW o, NEW s, NEW ch, NEW n
  PROVE  Step(At(e, o, s, ch, n), Break) = At(e, o, s, ch, n)
BY DEF Step, At, InNumber, Scan, SkipsWhitespace

LEMMA StepOpen ==
  ASSUME NEW e, e \in {"value", "firstElement"}, NEW o, NEW s, NEW ch, NEW n
  PROVE  /\ Step(At(e, o, s, ch, n), LeftBrace)
              = At("firstName", Append(o, Frame("object", 0)), Append(s, Object(<<>>)), ch, n)
         /\ Step(At(e, o, s, ch, n), "[")
              = At("firstElement", Append(o, Frame("array", 0)), Append(s, Array(<<>>)), ch, n)
<1>1. Step(At(e, o, s, ch, n), LeftBrace)
        = At("firstName", Append(o, Frame("object", 0)), Append(s, Object(<<>>)), ch, n)
  BY Braces
     DEF Step, At, InNumber, Scan, SkipsWhitespace, ParseFirstElement, ParseValue, Expect, Enter,
         Push,
                Frame, Break, Quote, EOF
<1>2. Step(At(e, o, s, ch, n), "[")
        = At("firstElement", Append(o, Frame("array", 0)), Append(s, Array(<<>>)), ch, n)
  BY Braces
     DEF Step, At, InNumber, Scan, SkipsWhitespace, ParseFirstElement, ParseValue, Expect, Enter,
         Push,
                Frame, Break, Quote, EOF
<1> QED
  BY <1>1, <1>2

LEMMA PushIs ==
  ASSUME NEW e, NEW o, NEW s, NEW ch, NEW n, NEW v
  PROVE  Push(At(e, o, s, ch, n), v) = At(e, o, Append(s, v), ch, n)
BY DEF Push, At

LEMMA EndDone ==
  ASSUME NEW e, NEW s, NEW ch, NEW n
  PROVE  ValueDone(At(e, <<>>, s, ch, n)) = At("end", <<>>, s, ch, n)
BY DEF ValueDone, At, Expect

LEMMA StepBool ==
  ASSUME NEW b \in BOOLEAN, NEW o, IsSeq(o), NEW k \in Nat, NEW kind, NEW s, NEW ch, NEW n
  PROVE  Step(At("value", Append(o, Frame(kind, k)), s, ch, n), IF b THEN "true" ELSE "false")
           = At("separator", Append(o, Frame(kind, k + 1)), Append(s, Bool(b)), ch, n)
<1> DEFINE open == Append(o, Frame(kind, k))
           c == IF b THEN "true" ELSE "false"
<1> HIDE DEF open
<1>1. Step(At("value", open, s, ch, n), c) = ValueDone(Push(At("value", open, s, ch, n), Bool(b)))
  BY Braces DEF Step, At, InNumber, Scan, SkipsWhitespace, ParseValue, Break, Quote, EOF
<1>2. Push(At("value", open, s, ch, n), Bool(b)) = At("value", open, Append(s, Bool(b)), ch, n)
  BY PushIs
<1> QED
  BY <1>1, <1>2, ValueDoneIs DEF open

\* Strings, as names and as values.
LEMMA StepQuote ==
  ASSUME NEW o, NEW s, NEW ch, NEW n
  PROVE  /\ Step(At("value", o, s, ch, n), Quote) = At("valueChars", o, s, <<>>, n)
         /\ \A e \in {"firstName", "name"} :
              Step(At(e, o, s, ch, n), Quote) = At("nameChars", o, s, <<>>, n)
<1>1. Step(At("value", o, s, ch, n), Quote) = At("valueChars", o, s, <<>>, n)
  <2>1. ParseValue(At("value", o, s, ch, n), Quote)
          = [Expect(At("value", o, s, ch, n), "valueChars") EXCEPT !.chars = <<>>]
    BY Braces DEF ParseValue, At, Quote, EOF
  <2>2. [Expect(At("value", o, s, ch, n), "valueChars") EXCEPT !.chars = <<>>] = At("valueChars", o, s, <<>>, n)
    <3>1. Expect(At("value", o, s, ch, n), "valueChars") = At("valueChars", o, s, ch, n)
      BY ExpectIs
    <3>2. [At("valueChars", o, s, ch, n) EXCEPT !.chars = <<>>] = At("valueChars", o, s, <<>>, n)
      BY DEF At
    <3> QED
      BY <3>1, <3>2
  <2>3. Step(At("value", o, s, ch, n), Quote) = ParseValue(At("value", o, s, ch, n), Quote)
    BY DEF Step, At, InNumber, Scan, SkipsWhitespace, Break, Quote
  <2> QED
    BY <2>1, <2>2, <2>3
<1>2. ASSUME NEW e \in {"firstName", "name"}
      PROVE  Step(At(e, o, s, ch, n), Quote) = At("nameChars", o, s, <<>>, n)
  BY <1>2, Braces DEF Step, At, InNumber, Scan, SkipsWhitespace, ParseName, Expect, Break, Quote
<1> QED
  BY <1>1, <1>2

LEMMA StepChar ==
  ASSUME NEW e \in {"valueChars", "nameChars"}, NEW c, c \notin {Quote, Break, EOF},
         NEW o, NEW s, NEW ch, NEW n
  PROVE  Step(At(e, o, s, ch, n), c) = At(e, o, s, Append(ch, c), n)
BY DEF Step, At, InNumber, Scan, SkipsWhitespace, ParseString

LEMMA StepEndQuote ==
  ASSUME NEW o, IsSeq(o), NEW k \in Nat, NEW kind, NEW s, NEW ch, NEW n
  PROVE  /\ Step(At("nameChars", o, s, ch, n), Quote) = At("colon", o, Append(s, String(ch)), ch, n)
         /\ Step(At("valueChars", Append(o, Frame(kind, k)), s, ch, n), Quote)
              = At("separator", Append(o, Frame(kind, k + 1)), Append(s, String(ch)), ch, n)
<1> DEFINE open == Append(o, Frame(kind, k))
<1>1. Step(At("nameChars", o, s, ch, n), Quote) = At("colon", o, Append(s, String(ch)), ch, n)
  BY DEF Step, At, InNumber, Scan, SkipsWhitespace, ParseString, Push, Expect, Break, Quote, EOF
<1> HIDE DEF open
<1>2. Push(At("valueChars", open, s, ch, n), String(ch)) = At("valueChars", open, Append(s, String(ch)), ch, n)
  BY PushIs
<1>3. Step(At("valueChars", open, s, ch, n), Quote) = ValueDone(Push(At("valueChars", open, s, ch, n), String(ch)))
  BY DEF Step, At, InNumber, Scan, SkipsWhitespace, ParseString, Break, Quote, EOF
<1> QED
  BY <1>1, <1>2, <1>3, ValueDoneIs DEF open

\* Digits.
LEMMA DigitIs ==
  ASSUME NEW v \in 0..9
  PROVE  /\ Digits[v + 1] \in DigitSymbols
         /\ DigitValue(Digits[v + 1]) = v
         /\ Digits[v + 1] \notin {Quote, Break, EOF, "null", "true", "false", LeftBrace, "["}
<1>1. v + 1 \in 1..10 /\ DOMAIN Digits = 1..10
  BY DEF Digits
<1>2. \A i \in 1..10 : Digits[i] = Digits[v + 1] => i = v + 1
  BY <1>1 DEF Digits
<1>3. DigitValue(Digits[v + 1]) = v
  BY <1>1, <1>2 DEF DigitValue
<1>4. Digits[v + 1] \notin {Quote, Break, EOF, "null", "true", "false", LeftBrace, "["}
  <2>1. \A i \in 1..10 : Digits[i] \in {"0", "1", "2", "3", "4", "5", "6", "7", "8", "9"}
    BY DEF Digits
  <2> QED
    BY <1>1, <2>1, Braces DEF Quote, Break, EOF
<1> QED
  BY <1>1, <1>3, <1>4 DEF DigitSymbols, Range

LEMMA DigitSymbolIs ==
  ASSUME NEW v \in 0..9
  PROVE  Digits[v + 1] \in DigitSymbols /\ DigitValue(Digits[v + 1]) = v
BY DigitIs, Zenon

LEMMA NotDigits == Quote \notin DigitSymbols /\ Break \notin DigitSymbols /\ EOF \notin DigitSymbols
BY DEF Quote, Break, EOF, DigitSymbols, Digits, Range

LEMMA StepFirstDigit ==
  ASSUME NEW v \in 1..9, NEW o, NEW s, NEW ch, NEW m
  PROVE  Step(At("value", o, s, ch, m), Digits[v + 1]) = At("digits", o, s, ch, v)
<1> DEFINE c == Digits[v + 1]
<1>1. /\ c \in DigitSymbols /\ DigitValue(c) = v
      /\ c \notin {Quote, Break, EOF, "null", "true", "false", LeftBrace, "["}
  <2>1. v \in 0..9
    OBVIOUS
  <2> QED
    BY <2>1, DigitIs, Zenon
<1>2. c # "0"
  BY DEF Digits
<1> HIDE DEF c
<1>3. Step(At("value", o, s, ch, m), c) = At("digits", o, s, ch, v)
  BY <1>1, <1>2 DEF Step, At, InNumber, Scan, SkipsWhitespace, ParseValue, ParseNumber, Expect
<1> QED
  BY <1>3 DEF c

LEMMA StepNextDigit ==
  ASSUME NEW v \in 0..9, NEW o, NEW s, NEW ch, NEW m \in Nat
  PROVE  Step(At("digits", o, s, ch, m), Digits[v + 1]) = At("digits", o, s, ch, 10 * m + v)
<1> DEFINE c == Digits[v + 1]
<1>1. c \in DigitSymbols /\ DigitValue(c) = v
  BY DigitSymbolIs
<1>2. c # Break
  BY <1>1, NotDigits
<1> HIDE DEF c
<1>3. Step(At("digits", o, s, ch, m), c) = At("digits", o, s, ch, 10 * m + v)
  BY <1>1, <1>2 DEF Step, At, InNumber, Scan, SkipsWhitespace, ParseDigit
<1> QED
  BY <1>3 DEF c

\* A line break ends a number.
LEMMA StepNumberEnd ==
  ASSUME NEW o, IsSeq(o), NEW k \in Nat, NEW kind, NEW s, NEW ch, NEW m
  PROVE  Step(At("digits", Append(o, Frame(kind, k)), s, ch, m), Break)
           = At("separator", Append(o, Frame(kind, k + 1)), Append(s, Uint(m)), ch, m)
<1> DEFINE open == Append(o, Frame(kind, k))
           next == At("separator", Append(o, Frame(kind, k + 1)), Append(s, Uint(m)), ch, m)
<1> HIDE DEF open
<1>1. Push(At("digits", open, s, ch, m), Uint(m)) = At("digits", open, Append(s, Uint(m)), ch, m)
  BY PushIs
<1>2. NumberDone(At("digits", open, s, ch, m)) = next
  <2>1. At("digits", open, s, ch, m).number = m
    BY DEF At
  <2> QED
    BY <1>1, <2>1, ValueDoneIs DEF NumberDone, open
<1>3. Step(At("digits", open, s, ch, m), Break) = Scan(next, Break)
  <2>1. InNumber(At("digits", open, s, ch, m), Break) /\ At("digits", open, s, ch, m).error = "none"
    BY NotDigits DEF InNumber, At
  <2> QED
    BY <1>2, <2>1 DEF Step
<1>4. Scan(next, Break) = next
  BY DEF Scan, SkipsWhitespace, At
<1> QED
  BY <1>3, <1>4 DEF open

---------------------------------------------------------------------------
(* Numbers: how they are written, and how they are read. *)

LEMMA QuotientIs ==
  ASSUME NEW n \in Nat
  PROVE  /\ (n \div 10) \in Nat /\ (n % 10) \in 0..9
         /\ n = 10 * (n \div 10) + (n % 10)
         /\ n >= 10 => (n \div 10) \in 1..(n - 1)
OBVIOUS

LEMMA MaxPortIs == MaxPort \in Nat /\ MaxPort > 255
BY DEF MaxPort

LEMMA DecimalIs ==
  ASSUME NEW n \in 0..MaxPort
  PROVE  Decimal[n] = IF n < 10 THEN <<Digits[n + 1]>>
                      ELSE Append(Decimal[n \div 10], Digits[(n % 10) + 1])
<1> DEFINE Upto(f, k) == f = [i \in 0..k |-> IF i < 10 THEN <<Digits[i + 1]>>
                                             ELSE Append(f[i \div 10], Digits[(i % 10) + 1])]
           S == {k \in Nat : \E f : Upto(f, k)}
<1>1. 0 \in S
  <2> DEFINE f == [i \in 0..0 |-> <<Digits[i + 1]>>]
  <2>1. Upto(f, 0)
    OBVIOUS
  <2> HIDE DEF f, Upto
  <2> QED
    BY <2>1
<1>2. ASSUME NEW k \in Nat, k \in S PROVE k + 1 \in S
  <2>1. PICK f : Upto(f, k)
    BY <1>2
  <2> DEFINE last == IF k + 1 < 10 THEN <<Digits[(k + 1) + 1]>>
                     ELSE Append(f[(k + 1) \div 10], Digits[((k + 1) % 10) + 1])
             g == [i \in 0..(k + 1) |-> IF i = k + 1 THEN last ELSE f[i]]
  <2>2. \A i \in 0..k : g[i] = f[i]
    OBVIOUS
  <2>3. ASSUME NEW i \in 0..(k + 1)
        PROVE  g[i] = IF i < 10 THEN <<Digits[i + 1]>>
                      ELSE Append(g[i \div 10], Digits[(i % 10) + 1])
    <3>1. ~(i < 10) => (i \div 10) \in 0..k /\ g[i \div 10] = f[i \div 10]
      <4>1. ~(i < 10) => (i \div 10) \in 0..k
        BY QuotientIs
      <4> HIDE DEF g
      <4> QED
        BY <2>2, <4>1
    <3>2. CASE i = k + 1
      <4>1. g[i] = last
        BY <3>2
      <4> HIDE DEF g
      <4> QED
        BY <3>1, <3>2, <4>1
    <3>3. CASE i # k + 1
      <4>1. i \in 0..k
        BY <3>3
      <4>2. f[i] = IF i < 10 THEN <<Digits[i + 1]>> ELSE Append(f[i \div 10], Digits[(i % 10) + 1])
        BY <2>1, <4>1
      <4> HIDE DEF g
      <4> QED
        BY <2>2, <3>1, <4>1, <4>2
    <3> QED
      BY <3>2, <3>3
  <2>4. Upto(g, k + 1)
    <3>1. g = [i \in 0..(k + 1) |-> g[i]]
      OBVIOUS
    <3> HIDE DEF g
    <3> QED
      BY <2>3, <3>1
  <2> HIDE DEF g, Upto
  <2> QED
    BY <2>4
<1>3. \E f : Upto(f, MaxPort)
  <2> HIDE DEF Upto
  <2> QED
    BY <1>1, <1>2, MaxPortIs, SetInduction
<1>4. Decimal = CHOOSE f : Upto(f, MaxPort)
  BY DEF Decimal
<1>5. Upto(Decimal, MaxPort)
  <2> HIDE DEF Upto
  <2> QED
    BY <1>3, <1>4
<1> QED
  BY <1>5

LEMMA DecimalSmall ==
  ASSUME NEW n \in Nat, n < 10
  PROVE  Decimal[n] = <<Digits[n + 1]>>
<1> DEFINE E == Append(Decimal[n \div 10], Digits[(n % 10) + 1])
<1>1. n \in 0..MaxPort
  BY MaxPortIs
<1>2. Decimal[n] = IF n < 10 THEN <<Digits[n + 1]>> ELSE E
  BY <1>1, DecimalIs, Zenon
<1> HIDE DEF E
<1> QED
  BY <1>2

LEMMA DecimalLarge ==
  ASSUME NEW n \in 0..MaxPort, n >= 10, NEW q \in Nat, NEW v \in 0..9, n = 10 * q + v
  PROVE  Decimal[n] = Append(Decimal[q], Digits[v + 1])
<1> DEFINE E == Append(Decimal[n \div 10], Digits[(n % 10) + 1])
<1>1. n \in Nat /\ (n \div 10) = q /\ (n % 10) = v /\ ~(n < 10)
  BY MaxPortIs
<1>2. Decimal[n] = IF n < 10 THEN <<Digits[n + 1]>> ELSE E
  BY DecimalIs, Zenon
<1>3. E = Append(Decimal[q], Digits[v + 1])
  BY <1>1
<1> HIDE DEF E
<1> QED
  BY <1>1, <1>2, <1>3

\* The last digit of a number, and the number that the digits before it are.
LEMMA LastDigit ==
  ASSUME NEW n \in 1..MaxPort, n >= 10
  PROVE  \E q \in 1..(n - 1), v \in 0..9 :
           n = 10 * q + v /\ Decimal[n] = Append(Decimal[q], Digits[v + 1])
<1> DEFINE q == n \div 10
           v == n % 10
<1>1. n \in Nat /\ q \in 1..(n - 1) /\ v \in 0..9 /\ n = 10 * q + v
  BY MaxPortIs, QuotientIs
<1> HIDE DEF q, v
<1>2. Decimal[n] = Append(Decimal[q], Digits[v + 1])
  BY <1>1, MaxPortIs, DecimalLarge
<1> QED
  BY <1>1, <1>2

LEMMA DecimalDigits ==
  ASSUME NEW n \in 0..MaxPort
  PROVE  /\ IsSeq(Decimal[n]) /\ Len(Decimal[n]) > 0
         /\ \A i \in 1..Len(Decimal[n]) : Decimal[n][i] \in DigitSymbols
<1> DEFINE Good(s) == IsSeq(s) /\ Len(s) > 0 /\ \A i \in 1..Len(s) : s[i] \in DigitSymbols
           S == {k \in Nat : k <= MaxPort => Good(Decimal[k])}
<1>1. ASSUME NEW k \in Nat, \A m \in 0..(k - 1) : m \in S PROVE k \in S
  <2> SUFFICES ASSUME k <= MaxPort PROVE Good(Decimal[k])
    OBVIOUS
  <2>1. CASE k < 10
    <3>1. Decimal[k] = <<Digits[k + 1]>>
      BY <2>1, DecimalSmall
    <3>2. Digits[k + 1] \in DigitSymbols
      <4>1. k \in 0..9
        BY <2>1
      <4> QED
        BY <4>1, DigitSymbolIs
    <3> QED
      BY <3>1, <3>2, RunOne
  <2>2. CASE k >= 10
    <3>1. PICK q \in 1..(k - 1), v \in 0..9 : Decimal[k] = Append(Decimal[q], Digits[v + 1])
      <4>1. k \in 1..MaxPort
        BY <2>2, MaxPortIs
      <4> QED
        BY <2>2, <4>1, LastDigit
    <3> DEFINE c == Digits[v + 1]
    <3>2. c \in DigitSymbols
      BY DigitSymbolIs
    <3> HIDE DEF c
    <3>3. Good(Decimal[q])
      BY <1>1, MaxPortIs
    <3>4. Decimal[k] = Append(Decimal[q], c)
      BY <3>1 DEF c
    <3> QED
      BY <3>2, <3>3, <3>4, SeqIs, AppendIs
  <2> QED
    BY <2>1, <2>2
<1>2. n \in S
  <2> HIDE DEF S
  <2> QED
    BY <1>1, MaxPortIs, StrongInduction
<1> QED
  BY <1>2

\* The parser reads a number as it was written.
LEMMA RunDecimal ==
  ASSUME NEW n \in 1..MaxPort, NEW o, NEW s, NEW ch, NEW m
  PROVE  Run(At("value", o, s, ch, m), Decimal[n]) = At("digits", o, s, ch, n)
<1> DEFINE p == At("value", o, s, ch, m)
           AtDigits(k) == At("digits", o, s, ch, k)
           S == {k \in Nat : k \in 1..MaxPort => Run(p, Decimal[k]) = AtDigits(k)}
<1>1. ASSUME NEW k \in Nat, \A j \in 0..(k - 1) : j \in S PROVE k \in S
  <2> SUFFICES ASSUME k \in 1..MaxPort PROVE Run(p, Decimal[k]) = AtDigits(k)
    OBVIOUS
  <2>1. CASE k < 10
    <3>1. Decimal[k] = <<Digits[k + 1]>>
      BY <2>1, DecimalSmall
    <3>2. Step(p, Digits[k + 1]) = AtDigits(k)
      <4>1. k \in 1..9
        BY <2>1
      <4> QED
        BY <4>1, StepFirstDigit
    <3> HIDE DEF p, AtDigits
    <3> QED
      BY <3>1, <3>2, RunOne
  <2>2. CASE k >= 10
    <3>1. PICK q \in 1..(k - 1), v \in 0..9 :
            k = 10 * q + v /\ Decimal[k] = Append(Decimal[q], Digits[v + 1])
      BY <2>2, LastDigit
    <3>2. Step(AtDigits(q), Digits[v + 1]) = AtDigits(10 * q + v)
      <4>1. q \in Nat
        OBVIOUS
      <4> HIDE DEF p, S
      <4> QED
        BY <4>1, StepNextDigit
    <3> HIDE DEF p, AtDigits
    <3>3. q \in 0..MaxPort /\ q \in 1..MaxPort /\ q \in 0..(k - 1)
      BY MaxPortIs
    <3>4. Run(p, Decimal[q]) = AtDigits(q) /\ IsSeq(Decimal[q])
      BY <1>1, <3>3, DecimalDigits
    <3>5. Run(p, Decimal[k]) = Step(AtDigits(q), Digits[v + 1])
      BY <3>1, <3>4, RunAppend
    <3> QED
      BY <3>1, <3>2, <3>5
  <2> QED
    BY <2>1, <2>2
<1>2. n \in S
  <2> HIDE DEF S
  <2> QED
    BY <1>1, MaxPortIs, StrongInduction
<1> QED
  BY <1>2

\* The numbers that the beginnings of a sequence of digits are read as.
IsFirst(f, digits) ==
  f = [i \in 0..Len(digits) |-> IF i = 0 THEN 0 ELSE 10 * f[i - 1] + DigitValue(digits[i])]

LEMMA FirstExists ==
  ASSUME NEW digits, Len(digits) \in Nat
  PROVE  \E f : IsFirst(f, digits) /\ NumberOf(digits) = f[Len(digits)]
<1> DEFINE Upto(f, k) == f = [i \in 0..k |-> IF i = 0 THEN 0 ELSE 10 * f[i - 1] + DigitValue(digits[i])]
           S == {k \in Nat : \E f : Upto(f, k)}
<1>1. 0 \in S
  <2> DEFINE f == [i \in 0..0 |-> 0]
  <2>1. Upto(f, 0)
    OBVIOUS
  <2> QED
    BY <2>1
<1>2. ASSUME NEW k \in Nat, k \in S PROVE k + 1 \in S
  <2>1. PICK f : Upto(f, k)
    BY <1>2
  <2> DEFINE last == 10 * f[k] + DigitValue(digits[k + 1])
             g == [i \in 0..(k + 1) |-> IF i = k + 1 THEN last ELSE f[i]]
  <2>2. \A i \in 0..k : g[i] = f[i]
    OBVIOUS
  <2>3. ASSUME NEW i \in 0..(k + 1)
        PROVE  g[i] = IF i = 0 THEN 0 ELSE 10 * g[i - 1] + DigitValue(digits[i])
    <3>1. CASE i = k + 1
      <4>1. i - 1 = k /\ i # 0 /\ g[i] = last /\ g[k] = f[k]
        BY <2>2, <3>1
      <4> HIDE DEF g
      <4> QED
        BY <3>1, <4>1
    <3>2. CASE i # k + 1
      <4>1. i \in 0..k /\ g[i] = f[i] /\ (i # 0 => g[i - 1] = f[i - 1])
        BY <2>2, <3>2
      <4>2. f[i] = IF i = 0 THEN 0 ELSE 10 * f[i - 1] + DigitValue(digits[i])
        BY <2>1, <4>1
      <4> HIDE DEF g
      <4> QED
        BY <4>1, <4>2
    <3> QED
      BY <3>1, <3>2
  <2>4. Upto(g, k + 1)
    <3>1. g = [i \in 0..(k + 1) |-> g[i]]
      OBVIOUS
    <3> HIDE DEF g
    <3> QED
      BY <2>3, <3>1
  <2> HIDE DEF g, Upto
  <2> QED
    BY <2>4
<1>3. \E f : Upto(f, Len(digits))
  <2> HIDE DEF Upto
  <2> QED
    BY <1>1, <1>2, SetInduction
<1>4. NumberOf(digits) = (CHOOSE f : Upto(f, Len(digits)))[Len(digits)]
  BY DEF NumberOf
<1> QED
  BY <1>3, <1>4 DEF IsFirst

LEMMA NumberOfAppend ==
  ASSUME NEW s, NEW c, IsSeq(s)
  PROVE  NumberOf(Append(s, c)) = 10 * NumberOf(s) + DigitValue(c)
<1> DEFINE t == Append(s, c)
<1>1. Len(s) \in Nat /\ Len(t) = Len(s) + 1 /\ t[Len(s) + 1] = c /\ Agree(s, t, Len(s))
  BY SeqIs, AppendIs DEF Agree
<1>2. PICK f : IsFirst(f, s) /\ NumberOf(s) = f[Len(s)]
  BY <1>1, FirstExists
<1> HIDE DEF t
<1>3. PICK g : IsFirst(g, t) /\ NumberOf(t) = g[Len(t)]
  BY <1>1, FirstExists
<1>4. g[Len(s) + 1] = 10 * g[Len(s)] + DigitValue(c)
  <2>1. Len(s) + 1 \in 0..Len(t) /\ Len(s) + 1 # 0 /\ (Len(s) + 1) - 1 = Len(s)
    BY <1>1
  <2> QED
    BY <1>1, <1>3, <2>1 DEF IsFirst
<1> DEFINE S == {i \in Nat : i <= Len(s) => f[i] = g[i]}
<1>5. 0 \in S
  BY <1>1, <1>2, <1>3 DEF IsFirst
<1>6. ASSUME NEW i \in Nat, i \in S PROVE i + 1 \in S
  <2> SUFFICES ASSUME i + 1 <= Len(s) PROVE f[i + 1] = g[i + 1]
    OBVIOUS
  <2>1. i + 1 \in 0..Len(s) /\ i + 1 \in 0..Len(t) /\ i + 1 \in 1..Len(s) /\ i + 1 # 0 /\ (i + 1) - 1 = i
    BY <1>1
  <2>2. f[i + 1] = 10 * f[i] + DigitValue(s[i + 1])
    BY <1>2, <2>1 DEF IsFirst
  <2>3. g[i + 1] = 10 * g[i] + DigitValue(t[i + 1])
    BY <1>3, <2>1 DEF IsFirst
  <2>4. f[i] = g[i] /\ s[i + 1] = t[i + 1]
    BY <1>1, <1>6, <2>1 DEF Agree
  <2> QED
    BY <2>2, <2>3, <2>4
<1>7. f[Len(s)] = g[Len(s)]
  <2> HIDE DEF S
  <2>1. Len(s) \in S
    BY <1>1, <1>5, <1>6, SetInduction
  <2> QED
    BY <1>1, <2>1 DEF S
<1> QED
  BY <1>1, <1>2, <1>3, <1>4, <1>7 DEF t

LEMMA NumberOfEmpty == NumberOf(<<>>) = 0
<1>1. Len(<<>>) = 0 /\ 0 \in 0..0
  BY EmptyIs
<1>2. PICK f : IsFirst(f, <<>>) /\ NumberOf(<<>>) = f[0]
  BY <1>1, FirstExists
<1> QED
  BY <1>1, <1>2 DEF IsFirst

\* inet_pton reads a number as it was written.
LEMMA NumberOfDecimal ==
  ASSUME NEW n \in 0..MaxPort
  PROVE  NumberOf(Decimal[n]) = n
<1> DEFINE S == {k \in Nat : k <= MaxPort => NumberOf(Decimal[k]) = k}
<1>1. ASSUME NEW k \in Nat, \A j \in 0..(k - 1) : j \in S PROVE k \in S
  <2> SUFFICES ASSUME k <= MaxPort PROVE NumberOf(Decimal[k]) = k
    OBVIOUS
  <2>1. CASE k < 10
    <3> DEFINE c == Digits[k + 1]
    <3>1. Decimal[k] = <<c>>
      BY <2>1, DecimalSmall
    <3>2. DigitValue(c) = k
      <4>1. k \in 0..9
        BY <2>1
      <4> QED
        BY <4>1, DigitSymbolIs
    <3> HIDE DEF c
    <3>3. <<c>> = Append(<<>>, c)
      OBVIOUS
    <3>4. NumberOf(Append(<<>>, c)) = 10 * NumberOf(<<>>) + DigitValue(c)
      BY EmptyIs, NumberOfAppend
    <3> HIDE DEF S
    <3> QED
      BY <3>1, <3>2, <3>3, <3>4, NumberOfEmpty
  <2>2. CASE k >= 10
    <3>1. PICK q \in 1..(k - 1), v \in 0..9 :
            k = 10 * q + v /\ Decimal[k] = Append(Decimal[q], Digits[v + 1])
      <4>1. k \in 1..MaxPort
        BY <2>2, MaxPortIs
      <4> QED
        BY <2>2, <4>1, LastDigit
    <3>2. q \in Nat /\ q \in 0..MaxPort /\ q \in 0..(k - 1)
      BY MaxPortIs
    <3>3. NumberOf(Decimal[q]) = q /\ IsSeq(Decimal[q])
      BY <1>1, <3>2, MaxPortIs, DecimalDigits
    <3>4. DigitValue(Digits[v + 1]) = v
      BY DigitSymbolIs
    <3>5. NumberOf(Append(Decimal[q], Digits[v + 1])) = 10 * NumberOf(Decimal[q]) + DigitValue(Digits[v + 1])
      BY <3>3, NumberOfAppend
    <3> HIDE DEF S
    <3> QED
      BY <3>1, <3>3, <3>4, <3>5
  <2> QED
    BY <2>1, <2>2
<1>2. n \in S
  <2> HIDE DEF S
  <2> QED
    BY <1>1, MaxPortIs, StrongInduction
<1> QED
  BY <1>2, MaxPortIs

---------------------------------------------------------------------------
(* What a piece of text does to the parser. *)

\* A text has no symbol for its own end.
IsText(t) == IsSeq(t) /\ \A i \in 1..Len(t) : t[i] # EOF

\* A place that the parser reaches: whatever it has last read.
Place(expects, open, stack) == [expects |-> expects, open |-> open, stack |-> stack]
Reached(p, x) == \E ch, n : p = At(x.expects, x.open, x.stack, ch, n)

\* A text takes the parser from one place to another, without an error.
Takes(x, t, y) == IsText(t) /\ \A p : Reached(p, x) => Reached(Run(p, t), y)

LEMMA ReachedIs ==
  ASSUME NEW e, NEW o, NEW s, NEW p
  PROVE  Reached(p, Place(e, o, s)) <=> \E ch, n : p = At(e, o, s, ch, n)
BY DEF Reached, Place

LEMMA TextConcat ==
  ASSUME NEW t, NEW u, IsText(t), IsText(u)
  PROVE  IsText(t \o u)
<1>1. /\ Len(t) \in Nat /\ Len(u) \in Nat
      /\ IsSeq(t \o u) /\ Len(t \o u) = Len(t) + Len(u)
      /\ \A i \in 1..Len(t) : (t \o u)[i] = t[i]
      /\ \A i \in 1..Len(u) : (t \o u)[Len(t) + i] = u[i]
  BY SeqIs, ConcatIs DEF IsText
<1>2. ASSUME NEW i \in 1..Len(t \o u) PROVE (t \o u)[i] # EOF
  <2>1. CASE i <= Len(t)
    BY <1>1, <2>1 DEF IsText
  <2>2. CASE i > Len(t)
    <3>1. i - Len(t) \in 1..Len(u) /\ Len(t) + (i - Len(t)) = i
      BY <1>1, <2>2
    <3>2. (t \o u)[i] = u[i - Len(t)]
      BY <1>1, <3>1
    <3> QED
      BY <3>1, <3>2 DEF IsText
  <2> QED
    BY <1>1, <2>1, <2>2
<1> QED
  BY <1>1, <1>2 DEF IsText

LEMMA TextOne ==
  ASSUME NEW c, c # EOF
  PROVE  IsText(<<c>>)
<1>1. IsSeq(<<c>>) /\ Len(<<c>>) = 1 /\ <<c>>[1] = c
  BY RunOne
<1> QED
  BY <1>1 DEF IsText

LEMMA TakesConcat ==
  ASSUME NEW x, NEW y, NEW z, NEW t, NEW u, Takes(x, t, y), Takes(y, u, z)
  PROVE  Takes(x, t \o u, z)
<1>1. IsText(t \o u)
  BY TextConcat DEF Takes
<1>2. ASSUME NEW p, Reached(p, x) PROVE Reached(Run(p, t \o u), z)
  <2>1. Run(p, t \o u) = Run(Run(p, t), u)
    BY RunConcat DEF Takes, IsText
  <2> QED
    BY <1>2, <2>1 DEF Takes
<1> QED
  BY <1>1, <1>2 DEF Takes

LEMMA TakesOne ==
  ASSUME NEW x, NEW y, NEW c, c # EOF, \A p : Reached(p, x) => Reached(Step(p, c), y)
  PROVE  Takes(x, <<c>>, y)
BY RunOne, TextOne DEF Takes

LEMMA PairIs ==
  ASSUME NEW a, NEW b
  PROVE  <<a, b>> = <<a>> \o <<b>>
  <1> DEFINE s == <<a, b>>
             t == <<a>> \o <<b>>
  <1>1. /\ IsSeq(<<a>>) /\ Len(<<a>>) = 1 /\ <<a>>[1] = a
        /\ IsSeq(<<b>>) /\ Len(<<b>>) = 1 /\ <<b>>[1] = b
    BY RunOne
  <1>2. IsSeq(t) /\ Len(t) = 2 /\ t[1] = a /\ t[2] = b
    <2>1. /\ Len(t) = 1 + 1
          /\ \A i \in 1..1 : t[i] = <<a>>[i]
          /\ \A i \in 1..1 : t[1 + i] = <<b>>[i]
      BY <1>1, ConcatIs
    <2> HIDE DEF t
    <2>2. t[1] = <<a>>[1] /\ t[1 + 1] = <<b>>[1]
      BY <2>1
    <2> QED
      BY <1>1, <2>1, <2>2, ConcatIs DEF t
  <1>3. IsSeq(s) /\ Len(s) = 2 /\ s[1] = a /\ s[2] = b
    <2>1. s \in Seq({a, b})
      OBVIOUS
    <2> QED
      BY <2>1 DEF IsSeq
  <1> HIDE DEF s, t
  <1>4. \A i \in 1..Len(s) : s[i] = t[i]
    BY <1>2, <1>3
  <1>5. s = t
    BY <1>2, <1>3, <1>4, SameSeq
  <1> QED
    BY <1>5 DEF s, t

LEMMA TakesTwo ==
  ASSUME NEW x, NEW y, NEW z, NEW a, NEW b, Takes(x, <<a>>, y), Takes(y, <<b>>, z)
  PROVE  Takes(x, <<a, b>>, z)
BY PairIs, TakesConcat

LEMMA TakesBreak ==
  ASSUME NEW e, e \notin {"valueChars", "nameChars", "digits", "zero"}, NEW o, NEW s
  PROVE  Takes(Place(e, o, s), <<Break>>, Place(e, o, s))
<1> DEFINE x == Place(e, o, s)
<1>1. ASSUME NEW p, Reached(p, x) PROVE Reached(Step(p, Break), x)
  <2>1. PICK ch, n : p = At(e, o, s, ch, n)
    BY <1>1, ReachedIs
  <2>2. Step(p, Break) = p
    BY <2>1, StepBreak
  <2> QED
    BY <1>1, <2>2
<1>2. Break # EOF
  BY DEF Break, EOF
<1> HIDE DEF x
<1> QED
  BY <1>1, <1>2, TakesOne DEF x

LEMMA PrefixIs ==
  ASSUME NEW s, IsSeq(s)
  PROVE  /\ SubSeq(s, 1, 0) = <<>> /\ SubSeq(s, 1, Len(s)) = s
         /\ \A k \in 0..(Len(s) - 1) : SubSeq(s, 1, k + 1) = Append(SubSeq(s, 1, k), s[k + 1])
<1>1. Len(s) \in Nat /\ \A k \in Nat : k <= Len(s) => 
        /\ IsSeq(SubSeq(s, 1, k)) /\ Len(SubSeq(s, 1, k)) = k
        /\ \A i \in 1..k : SubSeq(s, 1, k)[i] = s[i]
  <2>1. Len(s) \in Nat
    BY SeqIs
  <2> SUFFICES ASSUME NEW k \in Nat, k <= Len(s)
               PROVE  /\ IsSeq(SubSeq(s, 1, k)) /\ Len(SubSeq(s, 1, k)) = k
                      /\ \A i \in 1..k : SubSeq(s, 1, k)[i] = s[i]
    BY <2>1
  <2>2. 1 \in Nat \ {0} /\ 1 <= k + 1 /\ k - 1 + 1 = k /\ \A i \in 1..k : 1 + i - 1 = i
    OBVIOUS
  <2>3. /\ IsSeq(SubSeq(s, 1, k)) /\ Len(SubSeq(s, 1, k)) = k - 1 + 1
        /\ \A i \in 1..(k - 1 + 1) : SubSeq(s, 1, k)[i] = s[1 + i - 1]
    BY <2>2, SubSeqIs
  <2> QED
    BY <2>2, <2>3
<1>2. SubSeq(s, 1, 0) = <<>>
  <2> DEFINE t == SubSeq(s, 1, 0)
  <2>1. IsSeq(t) /\ Len(t) = 0
    BY <1>1
  <2> HIDE DEF t
  <2>2. \A i \in 1..Len(t) : t[i] = (<<>>)[i]
    BY <2>1
  <2>3. t = <<>>
    BY <2>1, <2>2, EmptyIs, SameSeq
  <2> QED
    BY <2>3 DEF t
<1>3. SubSeq(s, 1, Len(s)) = s
  <2> DEFINE t == SubSeq(s, 1, Len(s))
  <2>1. IsSeq(t) /\ Len(t) = Len(s) /\ \A i \in 1..Len(t) : t[i] = s[i]
    BY <1>1
  <2> HIDE DEF t
  <2>2. t = s
    BY <2>1, SameSeq
  <2> QED
    BY <2>2 DEF t
<1>4. ASSUME NEW k \in 0..(Len(s) - 1)
      PROVE  SubSeq(s, 1, k + 1) = Append(SubSeq(s, 1, k), s[k + 1])
  <2> DEFINE t == SubSeq(s, 1, k + 1)
             u == SubSeq(s, 1, k)
             v == Append(u, s[k + 1])
  <2>1. k \in Nat /\ k + 1 \in Nat /\ k <= Len(s) /\ k + 1 <= Len(s)
    BY <1>1
  <2>2. IsSeq(t) /\ Len(t) = k + 1 /\ \A i \in 1..(k + 1) : t[i] = s[i]
    BY <1>1, <2>1
  <2>3. IsSeq(u) /\ Len(u) = k /\ \A i \in 1..k : u[i] = s[i]
    BY <1>1, <2>1
  <2> HIDE DEF t, u
  <2>4. /\ IsSeq(v) /\ Len(v) = Len(u) + 1 /\ v[Len(u) + 1] = s[k + 1]
        /\ \A i \in 1..Len(u) : v[i] = u[i]
    BY <2>3, AppendIs
  <2> HIDE DEF v
  <2>5. \A i \in 1..Len(t) : t[i] = v[i]
    <3> TAKE i \in 1..Len(t)
    <3>1. CASE i = k + 1
      BY <2>1, <2>2, <2>3, <2>4, <3>1
    <3>2. CASE i # k + 1
      <4>1. i \in 1..k
        BY <2>1, <2>2, <3>2
      <4> QED
        BY <2>2, <2>3, <2>4, <4>1
    <3> QED
      BY <3>1, <3>2
  <2>6. t = v
    BY <2>2, <2>3, <2>4, <2>5, SameSeq
  <2> QED
    BY <2>6 DEF t, u, v
<1> QED
  BY <1>2, <1>3, <1>4

\* What may stand between quotes.
Letters(s) == IsSeq(s) /\ \A i \in 1..Len(s) : s[i] \notin {Quote, Break, EOF}

LEMMA RunChars ==
  ASSUME NEW e \in {"valueChars", "nameChars"}, NEW o, NEW s, NEW n, NEW letters, Letters(letters)
  PROVE  Run(At(e, o, s, <<>>, n), letters) = At(e, o, s, letters, n)
<1> DEFINE p == At(e, o, s, <<>>, n)
           S == {k \in Nat : k <= Len(letters) =>
                   Run(p, SubSeq(letters, 1, k)) = At(e, o, s, SubSeq(letters, 1, k), n)}
<1>1. IsSeq(letters) /\ Len(letters) \in Nat
  BY SeqIs DEF Letters
<1>2. 0 \in S
  BY <1>1, PrefixIs, RunEmpty
<1>3. ASSUME NEW k \in Nat, k \in S PROVE k + 1 \in S
  <2> SUFFICES ASSUME k + 1 <= Len(letters)
               PROVE  Run(p, SubSeq(letters, 1, k + 1)) = At(e, o, s, SubSeq(letters, 1, k + 1), n)
    OBVIOUS
  <2> DEFINE t == SubSeq(letters, 1, k)
             c == letters[k + 1]
  <2>1. k \in 0..(Len(letters) - 1) /\ k \in 0..Len(letters) /\ k + 1 \in 1..Len(letters)
    BY <1>1
  <2>2. IsSeq(t) /\ SubSeq(letters, 1, k + 1) = Append(t, c)
    BY <1>1, <2>1, PrefixIs, SplitIs
  <2>3. Run(p, t) = At(e, o, s, t, n)
    BY <1>1, <1>3, <2>1
  <2>4. c \notin {Quote, Break, EOF}
    BY <2>1 DEF Letters
  <2> HIDE DEF t, c, p, S
  <2>5. Step(At(e, o, s, t, n), c) = At(e, o, s, Append(t, c), n)
    BY <2>4, StepChar
  <2>6. Run(p, Append(t, c)) = Step(Run(p, t), c)
    BY <2>2, RunAppend
  <2>7. Run(p, Append(t, c)) = At(e, o, s, Append(t, c), n)
    BY <2>3, <2>5, <2>6
  <2> QED
    BY <2>2, <2>7
<1>4. Len(letters) \in S
  <2> HIDE DEF S
  <2> QED
    BY <1>1, <1>2, <1>3, SetInduction
<1>5. Run(p, SubSeq(letters, 1, Len(letters))) = At(e, o, s, SubSeq(letters, 1, Len(letters)), n)
  BY <1>1, <1>4
<1>6. SubSeq(letters, 1, Len(letters)) = letters
  BY <1>1, PrefixIs
<1> HIDE DEF S
<1> QED
  BY <1>5, <1>6

LEMMA LettersAreText ==
  ASSUME NEW letters, Letters(letters)
  PROVE  IsText(letters)
BY DEF Letters, IsText

\* Text between quotes, from a place where one opens to one where the other closes.
LEMMA TakesQuoted ==
  ASSUME NEW e \in {"valueChars", "nameChars"}, NEW o, NEW s, NEW x, NEW y,
         NEW letters, Letters(letters),
         \A p : Reached(p, x) => \E n : Step(p, Quote) = At(e, o, s, <<>>, n),
         \A n : Reached(Step(At(e, o, s, letters, n), Quote), y)
  PROVE  Takes(x, Quoted(letters), y)
<1> DEFINE q == <<Quote>>
<1>1. IsText(q) /\ IsText(letters) /\ IsSeq(q) /\ IsSeq(letters)
  <2>1. Quote # EOF
    BY DEF Quote, EOF
  <2> QED
    BY <2>1, TextOne, LettersAreText DEF IsText
<1>2. \A p : Run(p, q) = Step(p, Quote)
  BY RunOne
<1>3. Quoted(letters) = (q \o letters) \o q
  BY DEF Quoted
<1> HIDE DEF q
<1>4. IsText(q \o letters) /\ IsText((q \o letters) \o q)
  BY <1>1, TextConcat
<1>5. ASSUME NEW p, Reached(p, x) PROVE Reached(Run(p, (q \o letters) \o q), y)
  <2>1. PICK n : Step(p, Quote) = At(e, o, s, <<>>, n)
    BY <1>5
  <2>2. Run(p, q \o letters) = At(e, o, s, letters, n)
    BY <1>1, <1>2, <2>1, RunConcat, RunChars
  <2>3. Run(p, (q \o letters) \o q) = Step(At(e, o, s, letters, n), Quote)
    BY <1>1, <1>2, <1>4, <2>2, RunConcat DEF IsText
  <2> QED
    BY <2>3
<1> QED
  BY <1>3, <1>4, <1>5 DEF Takes

LEMMA LetterIs ==
  ASSUME NEW c, c \notin {Quote, Break, EOF}
  PROVE  Letters(<<c>>)
<1>1. IsSeq(<<c>>) /\ Len(<<c>>) = 1 /\ <<c>>[1] = c
  BY RunOne
<1> QED
  BY <1>1 DEF Letters

LEMMA TakesName ==
  ASSUME NEW e \in {"firstName", "name"}, NEW o, IsSeq(o), NEW s,
         NEW name, name \notin {Quote, Break, EOF}
  PROVE  Takes(Place(e, o, s), Name(name), Place("value", o, Append(s, String(<<name>>))))
<1> DEFINE x == Place(e, o, s)
           y == Place("colon", o, Append(s, String(<<name>>)))
           z == Place("value", o, Append(s, String(<<name>>)))
<1>1. Letters(<<name>>)
  BY LetterIs
<1>2. ASSUME NEW p, Reached(p, x) PROVE \E n : Step(p, Quote) = At("nameChars", o, s, <<>>, n)
  <2>1. PICK ch, n : p = At(e, o, s, ch, n)
    BY <1>2, ReachedIs
  <2> QED
    BY <2>1, StepQuote
<1>3. \A n : Reached(Step(At("nameChars", o, s, <<name>>, n), Quote), y)
  <2> TAKE n
  <2>1. Step(At("nameChars", o, s, <<name>>, n), Quote) = At("colon", o, Append(s, String(<<name>>)), <<name>>, n)
    BY StepEndQuote
  <2> QED
    BY <2>1, ReachedIs
<1>4. ASSUME NEW p, Reached(p, y) PROVE Reached(Step(p, ":"), z)
  <2>1. PICK ch, n : p = At("colon", o, Append(s, String(<<name>>)), ch, n)
    BY <1>4, ReachedIs
  <2>2. Step(p, ":") = At("value", o, Append(s, String(<<name>>)), ch, n)
    BY <2>1, StepColon
  <2> QED
    BY <2>2, ReachedIs
<1> HIDE DEF x, y, z
<1>5. Takes(x, Quoted(<<name>>), y)
  BY <1>1, <1>2, <1>3, TakesQuoted
<1>6. Takes(y, <<":">>, z)
  <2>1. ":" # EOF
    BY DEF EOF
  <2> QED
    BY <1>4, <2>1, TakesOne
<1>7. Name(name) = Quoted(<<name>>) \o <<":">>
  BY DEF Name
<1>8. Takes(x, Name(name), z)
  BY <1>5, <1>6, <1>7, TakesConcat
<1> QED
  BY <1>8 DEF x, z

LEMMA TakesString ==
  ASSUME NEW o, IsSeq(o), NEW kind, NEW k \in Nat, NEW s, NEW letters, Letters(letters)
  PROVE  Takes(Place("value", Append(o, Frame(kind, k)), s), Quoted(letters),
               Place("separator", Append(o, Frame(kind, k + 1)), Append(s, String(letters))))
<1> DEFINE open == Append(o, Frame(kind, k))
           x == Place("value", open, s)
           y == Place("separator", Append(o, Frame(kind, k + 1)), Append(s, String(letters)))
<1>1. ASSUME NEW p, Reached(p, x) PROVE \E n : Step(p, Quote) = At("valueChars", open, s, <<>>, n)
  <2>1. PICK ch, n : p = At("value", open, s, ch, n)
    BY <1>1, ReachedIs
  <2> QED
    BY <2>1, StepQuote
<1>2. \A n : Reached(Step(At("valueChars", open, s, letters, n), Quote), y)
  <2> TAKE n
  <2>1. Step(At("valueChars", open, s, letters, n), Quote)
          = At("separator", Append(o, Frame(kind, k + 1)), Append(s, String(letters)), letters, n)
    BY StepEndQuote
  <2> QED
    BY <2>1, ReachedIs
<1> HIDE DEF x, y, open
<1>3. Takes(x, Quoted(letters), y)
  BY <1>1, <1>2, TakesQuoted
<1> QED
  BY <1>3 DEF x, y, open

LEMMA TakesBool ==
  ASSUME NEW b \in BOOLEAN, NEW o, IsSeq(o), NEW kind, NEW k \in Nat, NEW s
  PROVE  Takes(Place("value", Append(o, Frame(kind, k)), s), BoolText(b),
               Place("separator", Append(o, Frame(kind, k + 1)), Append(s, Bool(b))))
<1> DEFINE open == Append(o, Frame(kind, k))
           next == Append(o, Frame(kind, k + 1))
           c == IF b THEN "true" ELSE "false"
           x == Place("value", open, s)
           y == Place("separator", next, Append(s, Bool(b)))
<1>1. ASSUME NEW p, Reached(p, x) PROVE Reached(Step(p, c), y)
  <2>1. PICK ch, n : p = At("value", open, s, ch, n)
    BY <1>1, ReachedIs
  <2>2. Step(p, c) = At("separator", next, Append(s, Bool(b)), ch, n)
    BY <2>1, StepBool
  <2> QED
    BY <2>2, ReachedIs
<1>2. c # EOF
  BY DEF EOF
<1>3. BoolText(b) = <<c>>
  BY DEF BoolText
<1> HIDE DEF x, y, c
<1>4. Takes(x, <<c>>, y)
  BY <1>1, <1>2, TakesOne
<1> QED
  BY <1>3, <1>4 DEF x, y

LEMMA TakesNumber ==
  ASSUME NEW v \in 1..MaxPort, NEW o, IsSeq(o), NEW kind, NEW k \in Nat, NEW s
  PROVE  Takes(Place("value", Append(o, Frame(kind, k)), s), Decimal[v] \o <<Break>>,
               Place("separator", Append(o, Frame(kind, k + 1)), Append(s, Uint(v))))
<1> DEFINE open == Append(o, Frame(kind, k))
           next == Append(o, Frame(kind, k + 1))
           x == Place("value", open, s)
           y == Place("separator", next, Append(s, Uint(v)))
           b == <<Break>>
           d == Decimal[v]
<1>1. IsText(d) /\ IsText(b)
  <2>1. v \in 0..MaxPort
    BY MaxPortIs
  <2>2. Break # EOF
    BY DEF Break, EOF
  <2> QED
    BY <2>1, <2>2, DecimalDigits, NotDigits, TextOne DEF IsText
<1>2. ASSUME NEW p, Reached(p, x) PROVE Reached(Run(p, d \o b), y)
  <2>1. PICK ch, n : p = At("value", open, s, ch, n)
    BY <1>2, ReachedIs
  <2>2. Run(p, d) = At("digits", open, s, ch, v)
    BY <2>1, RunDecimal
  <2>3. Step(At("digits", open, s, ch, v), Break) = At("separator", next, Append(s, Uint(v)), ch, v)
    BY StepNumberEnd
  <2> HIDE DEF open, next
  <2>4. Run(p, d \o b) = At("separator", next, Append(s, Uint(v)), ch, v)
    BY <1>1, <2>2, <2>3, RunConcat, RunOne DEF IsText
  <2> QED
    BY <2>4, ReachedIs
<1>3. IsText(d \o b)
  BY <1>1, TextConcat
<1> HIDE DEF x, y, d, b
<1>4. Takes(x, d \o b, y)
  BY <1>2, <1>3 DEF Takes
<1> QED
  BY <1>4 DEF x, y, d, b

LEMMA ConcatAppend ==
  ASSUME NEW s, NEW t, NEW v, IsSeq(s), IsSeq(t)
  PROVE  s \o Append(t, v) = Append(s \o t, v)
<1>1. PICK V : s \in Seq(V)
  BY DEF IsSeq
<1>2. PICK W : t \in Seq(W)
  BY DEF IsSeq
<1> DEFINE S == V \cup W \cup {v}
<1>3. s \in Seq(S) /\ t \in Seq(S) /\ v \in S /\ <<v>> \in Seq(S)
  BY <1>1, <1>2
<1> HIDE DEF S
<1>4. s \o t \in Seq(S)
  BY <1>3, ConcatProperties
<1>5. Append(t, v) = t \o <<v>> /\ Append(s \o t, v) = (s \o t) \o <<v>>
  BY <1>3, <1>4, AppendIsConcat
<1>6. (s \o t) \o <<v>> = s \o (t \o <<v>>)
  BY <1>3, ConcatAssociative
<1> QED
  BY <1>5, <1>6

LEMMA ConcatAssoc ==
  ASSUME NEW s, NEW t, NEW u, IsSeq(s), IsSeq(t), IsSeq(u)
  PROVE  (s \o t) \o u = s \o (t \o u)
<1>1. PICK V : s \in Seq(V)
  BY DEF IsSeq
<1>2. PICK W : t \in Seq(W)
  BY DEF IsSeq
<1>3. PICK X : u \in Seq(X)
  BY DEF IsSeq
<1> DEFINE S == V \cup W \cup X
<1>4. s \in Seq(S) /\ t \in Seq(S) /\ u \in Seq(S)
  BY <1>1, <1>2, <1>3
<1> HIDE DEF S
<1> QED
  BY <1>4, ConcatAssociative

LEMMA ConcatEmpty ==
  ASSUME NEW s, IsSeq(s)
  PROVE  s \o <<>> = s
<1>1. PICK V : s \in Seq(V)
  BY DEF IsSeq
<1> QED
  BY <1>1, ConcatEmptySeq

\* The end of an object or an array: what is above it on the stack becomes its contents.
Pairs(k, raw) == IsSeq(raw) /\ Len(raw) = 2 * k
ObjectOf(k, raw) == Object([i \in 1..k |-> [name |-> raw[2 * i - 1].value, value |-> raw[2 * i]]])

LEMMA StackIs ==
  ASSUME NEW s, NEW v, NEW raw, IsSeq(s), IsSeq(raw), NEW m \in Nat, Len(raw) = m,
         NEW e, NEW o, NEW ch, NEW n
  PROVE  /\ TopOf(At(e, o, Append(s, v) \o raw, ch, n), m) = raw
         /\ Under(At(e, o, Append(s, v) \o raw, ch, n), m) = s
<1> DEFINE t == Append(s, v)
           stack == t \o raw
<1>1. /\ Len(s) \in Nat /\ IsSeq(t) /\ Len(t) = Len(s) + 1
      /\ \A i \in 1..Len(s) : t[i] = s[i]
  BY SeqIs, AppendIs
<1> HIDE DEF t
<1>2. /\ IsSeq(stack) /\ Len(stack) = Len(s) + 1 + m
      /\ \A i \in 1..Len(t) : stack[i] = t[i]
      /\ \A i \in 1..m : stack[Len(t) + i] = raw[i]
  BY <1>1, ConcatIs
<1> HIDE DEF stack
<1>3. SubSeq(stack, Len(stack) - m + 1, Len(stack)) = raw
  <2>1. PICK a \in Nat \ {0} : a = Len(stack) - m + 1
    BY <1>1, <1>2
  <2>2. PICK z \in Nat : z = Len(stack)
    BY <1>1, <1>2
  <2>3. z <= Len(stack) /\ a <= z + 1 /\ z - a + 1 = m /\ \A i \in 1..m : a + i - 1 = Len(t) + i
    BY <1>1, <1>2, <2>1, <2>2
  <2> DEFINE u == SubSeq(stack, a, z)
  <2>4. IsSeq(u) /\ Len(u) = z - a + 1 /\ \A i \in 1..(z - a + 1) : u[i] = stack[a + i - 1]
    BY <1>2, <2>3, SubSeqIs
  <2> HIDE DEF u
  <2>5. \A i \in 1..Len(u) : u[i] = raw[i]
    BY <1>2, <2>3, <2>4
  <2>6. u = raw
    BY <2>3, <2>4, <2>5, SameSeq
  <2> QED
    BY <2>1, <2>2, <2>6 DEF u
<1>4. SubSeq(stack, 1, Len(stack) - m - 1) = s
  <2>1. PICK z \in Nat : z = Len(stack) - m - 1 /\ z = Len(s)
    BY <1>1, <1>2
  <2>2. 1 \in Nat \ {0} /\ z <= Len(stack) /\ 1 <= z + 1 /\ z - 1 + 1 = z /\ \A i \in 1..z : 1 + i - 1 = i
    BY <1>1, <1>2, <2>1
  <2> DEFINE u == SubSeq(stack, 1, z)
  <2>3. IsSeq(u) /\ Len(u) = z - 1 + 1 /\ \A i \in 1..(z - 1 + 1) : u[i] = stack[1 + i - 1]
    BY <1>2, <2>2, SubSeqIs
  <2> HIDE DEF u
  <2>4. \A i \in 1..Len(u) : u[i] = s[i]
    <3> TAKE i \in 1..Len(u)
    <3>1. i \in 1..z /\ i \in 1..Len(s) /\ i \in 1..Len(t)
      BY <1>1, <2>1, <2>2, <2>3
    <3> QED
      BY <1>1, <1>2, <2>2, <2>3, <3>1
  <2>5. u = s
    BY <2>1, <2>2, <2>3, <2>4, SameSeq
  <2> QED
    BY <2>1, <2>5 DEF u
<1> QED
  BY <1>3, <1>4 DEF TopOf, Under, At, stack, t

LEMMA LeaveIs ==
  ASSUME NEW e, NEW open, NEW o, Front(open) = o, NEW t, NEW ch, NEW n
  PROVE  Leave(At(e, open, t, ch, n)) = At(e, o, t, ch, n)
BY DEF Leave, At

LEMMA CloseIs ==
  ASSUME NEW e, NEW open, NEW o, Front(open) = o, NEW s, NEW under, NEW ch, NEW n, NEW m,
         Under(At(e, open, s, ch, n), m) = under, NEW made
  PROVE  Close(At(e, open, s, ch, n), m, made) = ValueDone(At(e, o, Append(under, made), ch, n))
<1> DEFINE p == At(e, open, s, ch, n)
           t == Append(under, made)
<1>1. Close(p, m, made) = ValueDone(Leave([p EXCEPT !.stack = t]))
  BY DEF Close
<1>2. [p EXCEPT !.stack = t] = At(e, open, t, ch, n)
  BY DEF At
<1>3. Leave(At(e, open, t, ch, n)) = At(e, o, t, ch, n)
  BY LeaveIs
<1> QED
  BY <1>1, <1>2, <1>3

LEMMA StepEndObject ==
  ASSUME NEW o, IsSeq(o), NEW s, IsSeq(s), NEW v, NEW raw, NEW k \in Nat, Pairs(k, raw),
         NEW ch, NEW n
  PROVE  Step(At("separator", Append(o, Frame("object", k)), Append(s, v) \o raw, ch, n), RightBrace)
           = ValueDone(At("separator", o, Append(s, ObjectOf(k, raw)), ch, n))
<1> DEFINE open == Append(o, Frame("object", k))
           stack == Append(s, v) \o raw
           p == At("separator", open, stack, ch, n)
           made == ObjectOf(k, raw)
           m == 2 * k
<1>1. Last(open) = Frame("object", k) /\ Front(open) = o
  BY LastFrame, FrontAppend
<1>2. TopOf(p, m) = raw /\ Under(p, m) = s
  BY StackIs DEF Pairs
<1> HIDE DEF open, stack, made
<1>3. Step(p, RightBrace) = EndObject(p)
  <2>1. RightBrace # Break
    BY Braces
  <2>2. Last(p.open).kind = "object"
    BY <1>1 DEF At, Frame
  <2>3. ParseSeparator(p, RightBrace) = EndObject(p)
    BY <2>2, SeparatorIs
  <2> QED
    BY <2>1, <2>3, StepSeparator
<1>4. p.open = open /\ Last(open).count = k
  BY <1>1 DEF At, Frame
<1>5. EndObject(p) = Close(p, m, made)
  BY <1>2, <1>4 DEF EndObject, made, ObjectOf
<1> HIDE DEF m
<1>6. Close(p, m, made) = ValueDone(At("separator", o, Append(s, made), ch, n))
  BY <1>1, <1>2, CloseIs
<1> QED
  BY <1>3, <1>5, <1>6 DEF made, open, stack

LEMMA StepEndArray ==
  ASSUME NEW e \in {"separator", "firstElement"},
         NEW o, IsSeq(o), NEW s, IsSeq(s), NEW v, NEW raw, IsSeq(raw), NEW k \in Nat, Len(raw) = k,
         NEW ch, NEW n
  PROVE  Step(At(e, Append(o, Frame("array", k)), Append(s, v) \o raw, ch, n), "]")
           = ValueDone(At(e, o, Append(s, Array(raw)), ch, n))
<1> DEFINE open == Append(o, Frame("array", k))
           stack == Append(s, v) \o raw
           p == At(e, open, stack, ch, n)
           made == Array(raw)
<1>1. Last(open) = Frame("array", k) /\ Front(open) = o
  BY LastFrame, FrontAppend
<1>2. TopOf(p, k) = raw /\ Under(p, k) = s
  BY StackIs
<1> HIDE DEF open, stack, made
<1>3. Step(p, "]") = EndArray(p)
  <2>1. CASE e = "separator"
    <3>1. "]" # Break
      BY DEF Break
    <3>2. Last(p.open).kind = "array"
      BY <1>1 DEF At, Frame
    <3>3. ParseSeparator(p, "]") = EndArray(p)
      BY <3>2, SeparatorIs
    <3> QED
      BY <2>1, <3>1, <3>3, StepSeparator
  <2>2. CASE e = "firstElement"
    BY <1>1, <2>2 DEF Step, At, InNumber, Scan, SkipsWhitespace, ParseFirstElement, Break, Frame
  <2> QED
    BY <2>1, <2>2
<1>4. p.open = open /\ Last(open).count = k
  BY <1>1 DEF At, Frame
<1>5. EndArray(p) = Close(p, k, made)
  BY <1>2, <1>4 DEF EndArray, made
<1>6. Close(p, k, made) = ValueDone(At(e, o, Append(s, made), ch, n))
  BY <1>1, <1>2, CloseIs
<1> QED
  BY <1>3, <1>5, <1>6 DEF made, open, stack

LEMMA TakesEndObject ==
  ASSUME NEW o, IsSeq(o), NEW kind, NEW j \in Nat, NEW s, IsSeq(s), NEW v,
         NEW raw, NEW k \in Nat, Pairs(k, raw)
  PROVE  /\ Takes(Place("separator", Append(Append(o, Frame(kind, j)), Frame("object", k)), Append(s, v) \o raw),
                  <<RightBrace>>,
                  Place("separator", Append(o, Frame(kind, j + 1)), Append(s, ObjectOf(k, raw))))
         /\ Takes(Place("separator", Append(<<>>, Frame("object", k)), Append(s, v) \o raw),
                  <<RightBrace>>,
                  Place("end", <<>>, Append(s, ObjectOf(k, raw))))
<1> DEFINE outer == Append(o, Frame(kind, j))
           next  == Append(o, Frame(kind, j + 1))
           made  == Append(s, ObjectOf(k, raw))
           stack == Append(s, v) \o raw
           In(open) == Place("separator", Append(open, Frame("object", k)), stack)
           x == In(outer)
           y == Place("separator", next, made)
           z == Place("end", <<>>, made)
           Closed(open, ch, n) == Step(At("separator", Append(open, Frame("object", k)), stack, ch, n), RightBrace)
                                    = ValueDone(At("separator", open, made, ch, n))
<1>0. ASSUME NEW open, IsSeq(open), NEW ch, NEW n PROVE Closed(open, ch, n)
  BY <1>0, StepEndObject
<1>1. IsSeq(outer)
  BY AppendIs
<1>2. ASSUME NEW open, IsSeq(open), NEW p, Reached(p, In(open))
      PROVE  \E ch, n : Step(p, RightBrace) = ValueDone(At("separator", open, made, ch, n))
  <2>1. PICK ch, n : p = At("separator", Append(open, Frame("object", k)), stack, ch, n)
    BY <1>2, ReachedIs
  <2>2. Closed(open, ch, n)
    BY <1>0, <1>2
  <2> HIDE DEF stack, made
  <2> QED
    BY <2>1, <2>2
<1>3. RightBrace # EOF
  BY Braces
<1>4. Takes(x, <<RightBrace>>, y)
  <2>1. ASSUME NEW p, Reached(p, x) PROVE Reached(Step(p, RightBrace), y)
    <3>1. PICK ch, n : Step(p, RightBrace) = ValueDone(At("separator", outer, made, ch, n))
      BY <1>1, <1>2, <2>1
    <3> HIDE DEF made
    <3>2. ValueDone(At("separator", outer, made, ch, n)) = At("separator", next, made, ch, n)
      BY ValueDoneIs
    <3>3. Step(p, RightBrace) = At("separator", next, made, ch, n)
      BY <3>1, <3>2
    <3> QED
      BY <3>3, ReachedIs
  <2> HIDE DEF x, y
  <2> QED
    BY <1>3, <2>1, TakesOne
<1>5. Takes(In(<<>>), <<RightBrace>>, z)
  <2>1. ASSUME NEW p, Reached(p, In(<<>>)) PROVE Reached(Step(p, RightBrace), z)
    <3>1. PICK ch, n : Step(p, RightBrace) = ValueDone(At("separator", <<>>, made, ch, n))
      BY <1>2, <2>1, EmptyIs
    <3> HIDE DEF made
    <3>2. ValueDone(At("separator", <<>>, made, ch, n)) = At("end", <<>>, made, ch, n)
      BY EndDone
    <3>3. Step(p, RightBrace) = At("end", <<>>, made, ch, n)
      BY <3>1, <3>2
    <3> QED
      BY <3>3, ReachedIs
  <2> HIDE DEF In, z
  <2> QED
    BY <1>3, <2>1, TakesOne
<1> QED
  BY <1>4, <1>5

LEMMA TakesEndArray ==
  ASSUME NEW e \in {"separator", "firstElement"},
         NEW o, IsSeq(o), NEW kind, NEW j \in Nat, NEW s, IsSeq(s), NEW v,
         NEW raw, IsSeq(raw), NEW k \in Nat, Len(raw) = k
  PROVE  Takes(Place(e, Append(Append(o, Frame(kind, j)), Frame("array", k)), Append(s, v) \o raw),
               <<"]">>,
               Place("separator", Append(o, Frame(kind, j + 1)), Append(s, Array(raw))))
<1> DEFINE outer == Append(o, Frame(kind, j))
           next  == Append(o, Frame(kind, j + 1))
           made  == Append(s, Array(raw))
           stack == Append(s, v) \o raw
           x == Place(e, Append(outer, Frame("array", k)), stack)
           y == Place("separator", next, made)
<1>1. IsSeq(outer)
  BY AppendIs
<1>2. ASSUME NEW p, Reached(p, x) PROVE Reached(Step(p, "]"), y)
  <2>1. PICK ch, n : p = At(e, Append(outer, Frame("array", k)), stack, ch, n)
    BY <1>2, ReachedIs
  <2> HIDE DEF outer
  <2>2. Step(p, "]") = ValueDone(At(e, outer, made, ch, n))
    BY <1>1, <2>1, StepEndArray
  <2>3. Step(p, "]") = At("separator", next, made, ch, n)
    BY <2>2, ValueDoneIs DEF outer
  <2> QED
    BY <2>3, ReachedIs
<1>3. "]" # EOF
  BY DEF EOF
<1> HIDE DEF x, y
<1>4. Takes(x, <<"]">>, y)
  BY <1>2, <1>3, TakesOne
<1> QED
  BY <1>4 DEF x, y

\* The first of two symbols can go with the text before it.
LEMMA LastTwo ==
  ASSUME NEW w, NEW d, IsSeq(w), IsSeq(d), NEW a, NEW b
  PROVE  (w \o (d \o <<a>>)) \o <<b>> = (w \o d) \o <<a, b>>
<1> DEFINE x == <<a>>
           y == <<b>>
           wd == w \o d
<1>1. IsSeq(x) /\ IsSeq(y) /\ IsSeq(wd) /\ <<a, b>> = x \o y
  BY RunOne, ConcatIs, PairIs
<1> HIDE DEF x, y
<1>2. wd \o x = w \o (d \o x)
  BY <1>1, ConcatAssoc
<1> HIDE DEF wd
<1>3. wd \o (x \o y) = (wd \o x) \o y
  <2>1. IsSeq(wd) /\ IsSeq(x) /\ IsSeq(y)
    BY <1>1
  <2> QED
    BY <2>1, ConcatAssoc, SMTT(30)
<1>4. (w \o (d \o x)) \o y = wd \o (x \o y)
  BY <1>2, <1>3
<1>5. x \o y = <<a, b>>
  BY <1>1
<1> QED
  BY <1>4, <1>5 DEF x, y, wd

LEMMA TakesOpenObject ==
  ASSUME NEW e \in {"value", "firstElement"}, NEW o, NEW s
  PROVE  Takes(Place(e, o, s), <<LeftBrace, Break>>,
               Place("firstName", Append(o, Frame("object", 0)), Append(s, Object(<<>>))))
<1> DEFINE open == Append(o, Frame("object", 0))
           t == Append(s, Object(<<>>))
           x == Place(e, o, s)
           y == Place("firstName", open, t)
<1>1. ASSUME NEW p, Reached(p, x) PROVE Reached(Step(p, LeftBrace), y)
  <2>1. PICK ch, n : p = At(e, o, s, ch, n)
    BY <1>1, ReachedIs
  <2>2. Step(p, LeftBrace) = At("firstName", open, t, ch, n)
    BY <2>1, StepOpen
  <2> QED
    BY <2>2, ReachedIs
<1>2. Takes(y, <<Break>>, y)
  BY TakesBreak
<1>3. LeftBrace # EOF
  BY Braces
<1> HIDE DEF x, y
<1>4. Takes(x, <<LeftBrace>>, y)
  BY <1>1, <1>3, TakesOne
<1>5. Takes(x, <<LeftBrace, Break>>, y)
  BY <1>2, <1>4, TakesTwo
<1> QED
  BY <1>5 DEF x, y

LEMMA TakesOpenArray ==
  ASSUME NEW o, NEW s
  PROVE  Takes(Place("value", o, s), <<"[">>,
               Place("firstElement", Append(o, Frame("array", 0)), Append(s, Array(<<>>))))
<1> DEFINE open == Append(o, Frame("array", 0))
           t == Append(s, Array(<<>>))
           x == Place("value", o, s)
           y == Place("firstElement", open, t)
<1>1. ASSUME NEW p, Reached(p, x) PROVE Reached(Step(p, "["), y)
  <2>1. PICK ch, n : p = At("value", o, s, ch, n)
    BY <1>1, ReachedIs
  <2>2. Step(p, "[") = At("firstElement", open, t, ch, n)
    BY <2>1, StepOpen
  <2> QED
    BY <2>2, ReachedIs
<1>2. "[" # EOF
  BY DEF EOF
<1> HIDE DEF x, y
<1>3. Takes(x, <<"[">>, y)
  BY <1>1, <1>2, TakesOne
<1> QED
  BY <1>3 DEF x, y

LEMMA TakesComma ==
  ASSUME NEW o, IsSeq(o), NEW k \in Nat, NEW s
  PROVE  /\ Takes(Place("separator", Append(o, Frame("object", k)), s), <<",", Break>>,
                  Place("name", Append(o, Frame("object", k)), s))
         /\ Takes(Place("separator", Append(o, Frame("array", k)), s), <<",", Break>>,
                  Place("value", Append(o, Frame("array", k)), s))
<1> DEFINE obj == Append(o, Frame("object", k))
           arr == Append(o, Frame("array", k))
           x1 == Place("separator", obj, s)
           y1 == Place("name", obj, s)
           x2 == Place("separator", arr, s)
           y2 == Place("value", arr, s)
<1>1. ASSUME NEW p, Reached(p, x1) PROVE Reached(Step(p, ","), y1)
  <2>1. PICK ch, n : p = At("separator", obj, s, ch, n)
    BY <1>1, ReachedIs
  <2>2. Step(p, ",") = At("name", obj, s, ch, n)
    <3>1. Last(obj).kind = "object"
      BY LastFrame DEF Frame
    <3> HIDE DEF obj
    <3>2. Step(At("separator", obj, s, ch, n), ",") = At("name", obj, s, ch, n)
      BY <3>1, StepNextMember
    <3> QED
      BY <2>1, <3>2
  <2> QED
    BY <2>2, ReachedIs
<1>2. ASSUME NEW p, Reached(p, x2) PROVE Reached(Step(p, ","), y2)
  <2>1. PICK ch, n : p = At("separator", arr, s, ch, n)
    BY <1>2, ReachedIs
  <2>2. Step(p, ",") = At("value", arr, s, ch, n)
    <3>1. Last(arr).kind = "array"
      BY LastFrame DEF Frame
    <3> HIDE DEF arr
    <3>2. Step(At("separator", arr, s, ch, n), ",") = At("value", arr, s, ch, n)
      BY <3>1, StepNextElement
    <3> QED
      BY <2>1, <3>2
  <2> QED
    BY <2>2, ReachedIs
<1>3. "," # EOF
  BY DEF EOF
<1>4. Takes(y1, <<Break>>, y1) /\ Takes(y2, <<Break>>, y2)
  BY TakesBreak
<1> HIDE DEF x1, y1, x2, y2
<1>5. Takes(x1, <<",">>, y1) /\ Takes(x2, <<",">>, y2)
  BY <1>1, <1>2, <1>3, TakesOne
<1>6. Takes(x1, <<",", Break>>, y1) /\ Takes(x2, <<",", Break>>, y2)
  BY <1>4, <1>5, TakesTwo
<1> QED
  BY <1>6 DEF x1, y1, x2, y2

---------------------------------------------------------------------------
(* The document of a configuration. *)

IpChars(host) == <<"net.">> \o Decimal[host]

LEMMA IpLetters ==
  ASSUME NEW host \in 0..255
  PROVE  Letters(IpChars(host)) /\ IsSeq(Decimal[host])
<1> DEFINE a == <<"net.">>
           b == Decimal[host]
<1>1. host \in 0..MaxPort
  BY MaxPortIs
<1>2. IsSeq(a) /\ Len(a) = 1 /\ a[1] = "net." /\ "net." \notin {Quote, Break, EOF}
  BY RunOne DEF Quote, Break, EOF
<1>3. IsSeq(b) /\ Len(b) \in Nat /\ \A i \in 1..Len(b) : b[i] \notin {Quote, Break, EOF}
  BY <1>1, DecimalDigits, NotDigits, SeqIs
<1> HIDE DEF a, b
<1>4. /\ IsSeq(a \o b) /\ Len(a \o b) = 1 + Len(b)
      /\ \A i \in 1..1 : (a \o b)[i] = a[i]
      /\ \A i \in 1..Len(b) : (a \o b)[1 + i] = b[i]
  <2>0. IsSeq(a) /\ IsSeq(b)
    BY <1>2, <1>3
  <2>1. IsSeq(a \o b)
    BY <2>0, ConcatIs
  <2>2. Len(a \o b) = Len(a) + Len(b)
    BY <2>0, ConcatIs
  <2>3. \A i \in 1..Len(a) : (a \o b)[i] = a[i]
    BY <2>0, ConcatIs
  <2>4. \A i \in 1..Len(b) : (a \o b)[Len(a) + i] = b[i]
    BY <2>0, ConcatIs
  <2> QED
    BY <1>2, <2>1, <2>2, <2>3, <2>4
<1>5. ASSUME NEW i \in 1..Len(a \o b) PROVE (a \o b)[i] \notin {Quote, Break, EOF}
  <2>1. CASE i = 1
    BY <1>2, <1>4, <2>1
  <2>2. CASE i # 1
    <3>1. i - 1 \in 1..Len(b) /\ 1 + (i - 1) = i
      BY <1>3, <1>4, <2>2
    <3>2. (a \o b)[i] = b[i - 1]
      BY <1>4, <3>1
    <3> QED
      BY <1>3, <3>1, <3>2
  <2> QED
    BY <2>1, <2>2
<1> QED
  BY <1>3, <1>4, <1>5 DEF Letters, IpChars, a, b

PortOf(sv) == IF ut2Mode = "UDP" THEN sv.udpPort ELSE sv.tcpPort

Pushed(a, b, c, d) == Append(Append(Append(Append(<<>>, a), b), c), d)
ServerRaw(sv) == Pushed(String(<<"ip">>), String(IpChars(sv.host)), String(<<"port">>), Uint(PortOf(sv)))
ServerDoc(sv) == ObjectOf(2, ServerRaw(sv))

LEMMA PushedIs ==
  ASSUME NEW a, NEW b, NEW c, NEW d
  PROVE  /\ IsSeq(Pushed(a, b, c, d)) /\ Len(Pushed(a, b, c, d)) = 4
         /\ Pushed(a, b, c, d)[1] = a /\ Pushed(a, b, c, d)[2] = b
         /\ Pushed(a, b, c, d)[3] = c /\ Pushed(a, b, c, d)[4] = d
<1> DEFINE r0 == <<>>
           r1 == Append(r0, a)
           r2 == Append(r1, b)
           r3 == Append(r2, c)
           r4 == Append(r3, d)
<1>0. IsSeq(r0) /\ Len(r0) = 0
  BY EmptyIs
<1>5. Pushed(a, b, c, d) = r4
  BY DEF Pushed
<1> HIDE DEF r0
<1>1. IsSeq(r1) /\ Len(r1) = 1 /\ r1[1] = a
  <2>0. IsSeq(r0)
    BY <1>0
  <2>1. IsSeq(r1)
    BY <2>0, AppendIs
  <2>2. Len(r1) = Len(r0) + 1
    BY <2>0, AppendIs
  <2>3. r1[Len(r0) + 1] = a
    BY <2>0, AppendIs
  <2>4. \A i \in 1..Len(r0) : r1[i] = r0[i]
    BY <2>0, AppendIs
  <2> HIDE DEF r1
  <2> QED
    BY <1>0, <2>1, <2>2, <2>3, <2>4
<1> HIDE DEF r1
<1>2. IsSeq(r2) /\ Len(r2) = 2 /\ r2[1] = a /\ r2[2] = b
  <2>0. IsSeq(r1)
    BY <1>1
  <2>1. IsSeq(r2)
    BY <2>0, AppendIs
  <2>2. Len(r2) = Len(r1) + 1
    BY <2>0, AppendIs
  <2>3. r2[Len(r1) + 1] = b
    BY <2>0, AppendIs
  <2>4. \A i \in 1..Len(r1) : r2[i] = r1[i]
    BY <2>0, AppendIs
  <2> HIDE DEF r2
  <2> QED
    BY <1>1, <2>1, <2>2, <2>3, <2>4
<1> HIDE DEF r2
<1>3. IsSeq(r3) /\ Len(r3) = 3 /\ r3[1] = a /\ r3[2] = b /\ r3[3] = c
  <2>0. IsSeq(r2)
    BY <1>2
  <2>1. IsSeq(r3)
    BY <2>0, AppendIs
  <2>2. Len(r3) = Len(r2) + 1
    BY <2>0, AppendIs
  <2>3. r3[Len(r2) + 1] = c
    BY <2>0, AppendIs
  <2>4. \A i \in 1..Len(r2) : r3[i] = r2[i]
    BY <2>0, AppendIs
  <2> HIDE DEF r3
  <2> QED
    BY <1>2, <2>1, <2>2, <2>3, <2>4
<1> HIDE DEF r3
<1>4. IsSeq(r4) /\ Len(r4) = 4 /\ r4[1] = a /\ r4[2] = b /\ r4[3] = c /\ r4[4] = d
  <2>0. IsSeq(r3)
    BY <1>3
  <2>1. IsSeq(r4)
    BY <2>0, AppendIs
  <2>2. Len(r4) = Len(r3) + 1
    BY <2>0, AppendIs
  <2>3. r4[Len(r3) + 1] = d
    BY <2>0, AppendIs
  <2>4. \A i \in 1..Len(r3) : r4[i] = r3[i]
    BY <2>0, AppendIs
  <2> HIDE DEF r4
  <2> QED
    BY <1>3, <2>1, <2>2, <2>3, <2>4
<1> HIDE DEF r4
<1> QED
  BY <1>4, <1>5

\* Four values pushed on a stack.
LEMMA StackPushed ==
  ASSUME NEW t, IsSeq(t), NEW a, NEW b, NEW c, NEW d
  PROVE  Append(Append(Append(Append(t, a), b), c), d) = t \o Pushed(a, b, c, d)
<1> DEFINE r1 == Append(<<>>, a)
           r2 == Append(r1, b)
           r3 == Append(r2, c)
           r4 == Append(r3, d)
<1>1. IsSeq(r1) /\ IsSeq(r2) /\ IsSeq(r3)
  BY EmptyIs, AppendIs
<1>2. t \o r1 = Append(t, a)
  BY EmptyIs, ConcatAppend, ConcatEmpty
<1>3. Pushed(a, b, c, d) = r4
  BY DEF Pushed
<1> HIDE DEF r1
<1>4. t \o r2 = Append(t \o r1, b)
  BY <1>1, ConcatAppend
<1> HIDE DEF r2
<1>5. t \o r3 = Append(t \o r2, c)
  BY <1>1, ConcatAppend
<1> HIDE DEF r3
<1>6. t \o r4 = Append(t \o r3, d)
  BY <1>1, ConcatAppend
<1> QED
  BY <1>2, <1>3, <1>4, <1>5, <1>6

ServerOK(sv) == sv.host \in 0..255 /\ PortOf(sv) \in 1..MaxPort

\* An address between quotes.
LEMMA TakesAddress ==
  ASSUME NEW o, IsSeq(o), NEW kind, NEW k \in Nat, NEW s, NEW host \in 0..255
  PROVE  Takes(Place("value", Append(o, Frame(kind, k)), s), IpAddr(host),
               Place("separator", Append(o, Frame(kind, k + 1)), Append(s, String(IpChars(host)))))
<1> DEFINE chars == IpChars(host)
<1>1. Letters(chars)
  BY IpLetters
<1>2. IpAddr(host) = Quoted(chars)
  BY DEF IpAddr, IpChars
<1> HIDE DEF chars
<1>3. Takes(Place("value", Append(o, Frame(kind, k)), s), Quoted(chars),
            Place("separator", Append(o, Frame(kind, k + 1)), Append(s, String(chars))))
  BY <1>1, TakesString
<1> QED
  BY <1>2, <1>3 DEF chars

LEMMA TakesServer ==
  ASSUME NEW e \in {"value", "firstElement"}, NEW o, IsSeq(o), NEW k \in Nat, NEW s, IsSeq(s),
         NEW sv, ServerOK(sv)
  PROVE  Takes(Place(e, Append(o, Frame("array", k)), s), ServerParam(sv),
               Place("separator", Append(o, Frame("array", k + 1)), Append(s, ServerDoc(sv))))
<1> DEFINE ip == String(IpChars(sv.host))
           v  == PortOf(sv)
           A  == Append(o, Frame("array", k))
           O0 == Append(A, Frame("object", 0))
           O1 == Append(A, Frame("object", 1))
           O2 == Append(A, Frame("object", 2))
           t  == Append(s, Object(<<>>))
           S1 == Append(t, String(<<"ip">>))
           S2 == Append(S1, ip)
           S3 == Append(S2, String(<<"port">>))
           S4 == Append(S3, Uint(v))
           x0 == Place(e, A, s)
           x1 == Place("firstName", O0, t)
           x2 == Place("value", O0, S1)
           x3 == Place("separator", O1, S2)
           x4 == Place("name", O1, S2)
           x5 == Place("value", O1, S3)
           x6 == Place("separator", O2, S4)
           x7 == Place("separator", Append(o, Frame("array", k + 1)), Append(s, ServerDoc(sv)))
           d  == Decimal[v]
<1>0. v \in 1..MaxPort /\ sv.host \in 0..255
  BY DEF ServerOK
<1>1. IsSeq(A) /\ IsSeq(O0) /\ IsSeq(O1) /\ IsSeq(t)
  BY AppendIs
<1>2. 0 \in Nat /\ 1 \in Nat /\ 2 \in Nat /\ 0 + 1 = 1 /\ 1 + 1 = 2
  OBVIOUS
<1>3. Takes(x0, <<LeftBrace, Break>>, x1)
  BY TakesOpenObject
<1> HIDE DEF A
<1>4. Takes(x1, Name("ip"), x2)
  <2>1. "ip" \notin {Quote, Break, EOF}
    BY DEF Quote, Break, EOF
  <2> HIDE DEF O0, t
  <2> QED
    BY <1>1, <2>1, TakesName
<1>5. Takes(x2, IpAddr(sv.host), x3)
  <2> HIDE DEF S1
  <2>1. Takes(x2, IpAddr(sv.host), Place("separator", Append(A, Frame("object", 0 + 1)), Append(S1, ip)))
    BY <1>0, <1>1, <1>2, TakesAddress
  <2> QED
    BY <1>2, <2>1
<1>6. Takes(x3, <<",", Break>>, x4)
  <2> HIDE DEF S2
  <2> QED
    BY <1>1, <1>2, TakesComma
<1>7. Takes(x4, Name("port"), x5)
  <2>1. "port" \notin {Quote, Break, EOF}
    BY DEF Quote, Break, EOF
  <2> HIDE DEF O1, S2
  <2> QED
    BY <1>1, <2>1, TakesName
<1>8. Takes(x5, d \o <<Break>>, x6)
  <2> HIDE DEF S3
  <2>1. Takes(x5, d \o <<Break>>, Place("separator", Append(A, Frame("object", 1 + 1)), Append(S3, Uint(v))))
    BY <1>0, <1>1, <1>2, TakesNumber
  <2> QED
    BY <1>2, <2>1
<1>9. Takes(x6, <<RightBrace>>, x7)
  <2> DEFINE raw == ServerRaw(sv)
  <2>1. S4 = t \o raw
    <3> DEFINE n1 == String(<<"ip">>)
               n2 == String(<<"port">>)
               u  == Uint(v)
    <3>1. raw = Pushed(n1, ip, n2, u)
      BY DEF ServerRaw
    <3> HIDE DEF t, ip, u, n1, n2, raw
    <3>2. Append(Append(Append(Append(t, n1), ip), n2), u) = t \o Pushed(n1, ip, n2, u)
      <4>1. IsSeq(t)
        BY <1>1
      <4> QED
        BY <4>1, StackPushed
    <3> QED
      BY <3>1, <3>2 DEF n1, n2, u
  <2>2. Pairs(2, raw)
    BY PushedIs DEF Pairs, ServerRaw
  <2> HIDE DEF raw, S4
  <2>3. Takes(Place("separator", Append(Append(o, Frame("array", k)), Frame("object", 2)), Append(s, Object(<<>>)) \o raw),
              <<RightBrace>>,
              Place("separator", Append(o, Frame("array", k + 1)), Append(s, ObjectOf(2, raw))))
    BY <1>2, <2>2, TakesEndObject
  <2> QED
    BY <2>1, <2>3 DEF ServerDoc, raw, A
<1> HIDE DEF x0, x1, x2, x3, x4, x5, x6, x7, d
<1>10. ServerParam(sv)
         = (((((<<LeftBrace, Break>> \o Name("ip")) \o IpAddr(sv.host)) \o <<",", Break>>) \o Name("port")) \o d)
             \o <<Break, RightBrace>>
  BY DEF ServerParam, PortOf, d
<1> DEFINE w == (((<<LeftBrace, Break>> \o Name("ip")) \o IpAddr(sv.host)) \o <<",", Break>>) \o Name("port")
<1>11. Takes(x0, w, x5)
  <2>1. Takes(x0, <<LeftBrace, Break>> \o Name("ip"), x2)
    BY <1>3, <1>4, TakesConcat
  <2>2. Takes(x0, (<<LeftBrace, Break>> \o Name("ip")) \o IpAddr(sv.host), x3)
    BY <1>5, <2>1, TakesConcat
  <2>3. Takes(x0, ((<<LeftBrace, Break>> \o Name("ip")) \o IpAddr(sv.host)) \o <<",", Break>>, x4)
    BY <1>6, <2>2, TakesConcat
  <2> QED
    BY <1>7, <2>3, TakesConcat
<1> HIDE DEF w
<1>12. Takes(x0, (w \o (d \o <<Break>>)) \o <<RightBrace>>, x7)
  <2>1. Takes(x0, w \o (d \o <<Break>>), x6)
    BY <1>8, <1>11, TakesConcat
  <2> QED
    BY <1>9, <2>1, TakesConcat
<1>13. (w \o (d \o <<Break>>)) \o <<RightBrace>> = (w \o d) \o <<Break, RightBrace>>
  <2>1. IsSeq(w) /\ IsSeq(d)
    <3>1. v \in 0..MaxPort
      BY <1>0, MaxPortIs
    <3> QED
      BY <1>11, <3>1, DecimalDigits DEF Takes, IsText, d
  <2> HIDE DEF d
  <2> DEFINE u1 == Break
             u2 == RightBrace
  <2> HIDE DEF u1, u2
  <2>2. (w \o (d \o <<u1>>)) \o <<u2>> = (w \o d) \o <<u1, u2>>
    BY <2>1, LastTwo, SMTT(30)
  <2> QED
    BY <2>2 DEF u1, u2
<1>14. ServerParam(sv) = (w \o d) \o <<Break, RightBrace>>
  BY <1>10 DEF w
<1> QED
  BY <1>12, <1>13, <1>14 DEF x0, x7, A

LEMMA FlattenBegins ==
  ASSUME NEW L, NEW M \in Nat \ {0}, Len(L) = M
  PROVE  \E f : /\ f = [i \in 1..M |-> IF i = 1 THEN L[i] ELSE f[i - 1] \o L[i]]
                /\ FlattenSeq(L) = f[M]
<1> DEFINE Upto(f, k) == f = [i \in 1..k |-> IF i = 1 THEN L[i] ELSE f[i - 1] \o L[i]]
           S == {k \in Nat : \E f : Upto(f, k)}
<1>1. 0 \in S
  <2> DEFINE f == [i \in 1..0 |-> L]
  <2>1. Upto(f, 0)
    OBVIOUS
  <2> QED
    BY <2>1
<1>2. ASSUME NEW k \in Nat, k \in S PROVE k + 1 \in S
  <2>1. PICK f : Upto(f, k)
    BY <1>2
  <2> DEFINE last == IF k = 0 THEN L[1] ELSE f[k] \o L[k + 1]
             g == [i \in 1..(k + 1) |-> IF i = k + 1 THEN last ELSE f[i]]
  <2>2. \A i \in 1..k : g[i] = f[i]
    OBVIOUS
  <2>3. ASSUME NEW i \in 1..(k + 1)
        PROVE  g[i] = IF i = 1 THEN L[i] ELSE g[i - 1] \o L[i]
    <3>1. CASE i = k + 1 /\ k = 0
      <4>1. i = 1 /\ g[i] = last /\ last = L[1]
        BY <3>1
      <4> HIDE DEF g, last
      <4> QED
        BY <4>1
    <3>2. CASE i = k + 1 /\ k # 0
      <4>2. last = f[k] \o L[k + 1]
        BY <3>2
      <4> HIDE DEF last
      <4>1. i - 1 = k /\ i # 1 /\ g[i] = last /\ g[k] = f[k]
        BY <2>2, <3>2
      <4> HIDE DEF g
      <4> QED
        BY <3>2, <4>1, <4>2
    <3>3. CASE i # k + 1
      <4>1. i \in 1..k /\ g[i] = f[i] /\ (i # 1 => g[i - 1] = f[i - 1])
        BY <2>2, <3>3
      <4>2. f[i] = IF i = 1 THEN L[i] ELSE f[i - 1] \o L[i]
        BY <2>1, <4>1
      <4> HIDE DEF g
      <4> QED
        BY <4>1, <4>2
    <3> QED
      BY <3>1, <3>2, <3>3
  <2>4. Upto(g, k + 1)
    <3>1. g = [i \in 1..(k + 1) |-> g[i]]
      OBVIOUS
    <3> HIDE DEF g
    <3> QED
      BY <2>3, <3>1
  <2> HIDE DEF g, Upto
  <2> QED
    BY <2>4
<1>3. \E f : Upto(f, M)
  <2> HIDE DEF Upto
  <2> QED
    BY <1>1, <1>2, SetInduction
<1>4. FlattenSeq(L) = (CHOOSE f : Upto(f, M))[M]
  BY DEF FlattenSeq
<1> QED
  BY <1>3, <1>4

LEMMA TakesEmpty ==
  ASSUME NEW x
  PROVE  Takes(x, <<>>, x)
<1>1. IsText(<<>>)
  BY EmptyIs DEF IsText
<1>2. \A p : Run(p, <<>>) = p
  BY RunEmpty
<1> QED
  BY <1>1, <1>2 DEF Takes

\* Pieces of text that follow each other.
Pieces(L, M, y) == Len(L) = M /\ (M = 0 => L = <<>>) /\ \A i \in 1..M : Takes(y[i - 1], L[i], y[i])

LEMMA TakesFlat ==
  ASSUME NEW L, NEW M \in Nat, NEW y, Pieces(L, M, y)
  PROVE  Takes(y[0], FlattenSeq(L), y[M])
<1>1. CASE M = 0
  <2>1. FlattenSeq(L) = <<>>
    BY <1>1 DEF Pieces, FlattenSeq
  <2> QED
    BY <1>1, <2>1, TakesEmpty
<1>2. CASE M # 0
  <2>1. PICK f : /\ f = [i \in 1..M |-> IF i = 1 THEN L[i] ELSE f[i - 1] \o L[i]]
                 /\ FlattenSeq(L) = f[M]
    BY <1>2, FlattenBegins DEF Pieces
  <2> DEFINE S == {k \in Nat : k + 1 \in 1..M => Takes(y[0], f[k + 1], y[k + 1])}
  <2>2. \A i \in 1..M : f[i] = IF i = 1 THEN L[i] ELSE f[i - 1] \o L[i]
    BY <2>1
  <2>3. 0 \in S
    <3>1. f[1] = L[1] /\ Takes(y[1 - 1], L[1], y[1]) /\ 1 - 1 = 0
      BY <1>2, <2>2 DEF Pieces
    <3> QED
      BY <3>1
  <2>4. ASSUME NEW k \in Nat, k \in S PROVE k + 1 \in S
    <3>0. PICK n \in Nat : n = k + 1
      OBVIOUS
    <3> SUFFICES ASSUME n + 1 \in 1..M PROVE Takes(y[0], f[n + 1], y[n + 1])
      BY <3>0
    <3>1. Takes(y[0], f[n], y[n])
      BY <2>4, <3>0
    <3>2. n + 1 # 1 /\ (n + 1) - 1 = n
      BY <3>0
    <3>3. f[n + 1] = f[n] \o L[n + 1]
      BY <2>2, <3>2
    <3>4. Takes(y[n], L[n + 1], y[n + 1])
      BY <3>2 DEF Pieces
    <3> QED
      BY <3>1, <3>3, <3>4, TakesConcat
  <2> HIDE DEF S
  <2>5. Nat \subseteq S
    BY <2>3, <2>4, SetInduction
  <2>6. M - 1 \in Nat /\ (M - 1) + 1 = M /\ M \in 1..M
    BY <1>2
  <2>7. Takes(y[0], f[M], y[M])
    BY <2>5, <2>6 DEF S
  <2> QED
    BY <2>1, <2>7
<1> QED
  BY <1>1, <1>2

ServersOK == IsSeq(servers) /\ \A i \in 1..Len(servers) : ServerOK(servers[i])
ServerDocs(i) == [j \in 1..i |-> ServerDoc(servers[j])]

LEMMA ServerDocsIs ==
  ASSUME NEW i \in Nat
  PROVE  /\ IsSeq(ServerDocs(i)) /\ Len(ServerDocs(i)) = i
         /\ ServerDocs(i + 1) = Append(ServerDocs(i), ServerDoc(servers[i + 1]))
<1> DEFINE D(j) == ServerDoc(servers[j])
           V(k) == {D(j) : j \in 1..k}
<1>1. ASSUME NEW k \in Nat
      PROVE  IsSeq(ServerDocs(k)) /\ Len(ServerDocs(k)) = k /\ \A j \in 1..k : ServerDocs(k)[j] = D(j)
  <2> HIDE DEF D
  <2>1. ServerDocs(k) = [j \in 1..k |-> D(j)]
    BY DEF ServerDocs, D
  <2>2. ServerDocs(k) \in Seq(V(k))
    BY <2>1
  <2>3. Len(ServerDocs(k)) = k
    BY <2>1
  <2> QED
    BY <2>1, <2>2, <2>3 DEF IsSeq
<1> HIDE DEF D
<1>2. PICK n \in Nat : n = i + 1
  OBVIOUS
<1> DEFINE a == ServerDocs(i)
           b == ServerDocs(n)
           c == Append(a, D(n))
<1>3. IsSeq(a) /\ Len(a) = i /\ \A j \in 1..i : a[j] = D(j)
  BY <1>1
<1>4. IsSeq(b) /\ Len(b) = n /\ \A j \in 1..n : b[j] = D(j)
  BY <1>1
<1> HIDE DEF a, b
<1>5. IsSeq(c)
  BY <1>3, AppendIs
<1>6. Len(c) = Len(a) + 1
  BY <1>3, AppendIs
<1>7. \A j \in 1..Len(a) : c[j] = a[j]
  BY <1>3, AppendIs
<1>8. c[Len(a) + 1] = D(n)
  BY <1>3, AppendIs
<1> HIDE DEF c
<1>9. ASSUME NEW j \in 1..Len(b) PROVE b[j] = c[j]
  <2>1. CASE j = n
    BY <1>2, <1>3, <1>4, <1>8, <2>1
  <2>2. CASE j # n
    <3>1. j \in 1..i
      BY <1>2, <1>4, <2>2
    <3> QED
      BY <1>3, <1>4, <1>7, <3>1
  <2> QED
    BY <2>1, <2>2
<1>10. b = c
  <2>1. Len(b) = Len(c)
    BY <1>2, <1>3, <1>4, <1>6
  <2> QED
    BY <1>4, <1>5, <1>9, <2>1, SameSeq
<1> QED
  BY <1>1, <1>2, <1>10 DEF a, b, c, D

\* The elements of the array, one by one.
LEMMA TakesListed ==
  ASSUME ServersOK, NEW o, IsSeq(o), NEW t, IsSeq(t), NEW k \in Nat, NEW i \in 1..Len(servers), i = k + 1
  PROVE  Takes(Place(IF k = 0 THEN "firstElement" ELSE "separator",
                     Append(o, Frame("array", k)), t \o ServerDocs(k)),
               Listed(i),
               Place("separator", Append(o, Frame("array", k + 1)), t \o ServerDocs(i)))
<1> DEFINE sv == servers[i]
           s  == t \o ServerDocs(k)
           oo == Append(o, Frame("array", k))
           y  == Place("separator", Append(o, Frame("array", k + 1)), t \o ServerDocs(i))
<1>1. ServerOK(sv)
  BY DEF ServersOK
<1>2. IsSeq(ServerDocs(k)) /\ ServerDocs(k + 1) = Append(ServerDocs(k), ServerDoc(sv))
  BY ServerDocsIs
<1>3. IsSeq(s)
  BY <1>2, ConcatIs
<1>4. t \o ServerDocs(i) = Append(s, ServerDoc(sv))
  <2> DEFINE a == ServerDocs(k)
             v == ServerDoc(sv)
  <2>1. IsSeq(a)
    BY <1>2
  <2>2. ServerDocs(i) = Append(a, v)
    BY <1>2
  <2> HIDE DEF a, v
  <2>3. t \o Append(a, v) = Append(t \o a, v)
    BY <2>1, ConcatAppend
  <2> QED
    BY <2>2, <2>3 DEF a, v
<1>5. \A e \in {"value", "firstElement"} : Takes(Place(e, oo, s), ServerParam(sv), y)
  <2> HIDE DEF sv, s
  <2>1. \A e \in {"value", "firstElement"} :
          Takes(Place(e, Append(o, Frame("array", k)), s), ServerParam(sv),
                Place("separator", Append(o, Frame("array", k + 1)), Append(s, ServerDoc(sv))))
    BY <1>1, <1>3, TakesServer
  <2> QED
    BY <1>4, <2>1
<1> HIDE DEF s, y
<1>6. CASE k = 0
  <2> DEFINE x == Place("firstElement", oo, s)
  <2>1. Takes(x, <<Break>>, x)
    BY TakesBreak
  <2>2. Takes(x, ServerParam(sv), y)
    BY <1>5
  <2> HIDE DEF x, sv
  <2>3. Takes(x, <<Break>> \o ServerParam(sv), y)
    BY <2>1, <2>2, TakesConcat
  <2>4. Listed(i) = <<Break>> \o ServerParam(sv)
    BY <1>6 DEF Listed, sv
  <2> QED
    BY <1>6, <2>3, <2>4 DEF x, s, y
<1>7. CASE k # 0
  <2> DEFINE x == Place("separator", oo, s)
             z == Place("value", oo, s)
  <2>1. Takes(x, <<",", Break>>, z)
    BY TakesComma
  <2>2. Takes(z, ServerParam(sv), y)
    BY <1>5
  <2> HIDE DEF x, z, sv
  <2>3. Takes(x, <<",", Break>> \o ServerParam(sv), y)
    BY <2>1, <2>2, TakesConcat
  <2>4. Listed(i) = <<",", Break>> \o ServerParam(sv)
    <3>1. i # 1
      BY <1>7
    <3> QED
      BY <3>1, Zenon DEF Listed, sv
  <2> QED
    BY <1>7, <2>3, <2>4 DEF x, s, y
<1> QED
  BY <1>6, <1>7

Elements == FlattenSeq([i \in DOMAIN servers |-> Listed(i)])

LEMMA TakesElements ==
  ASSUME ServersOK, NEW o, IsSeq(o), NEW t, IsSeq(t)
  PROVE  \E e \in {"firstElement", "separator"} :
           Takes(Place("firstElement", Append(o, Frame("array", 0)), t), Elements,
                 Place(e, Append(o, Frame("array", Len(servers))), t \o ServerDocs(Len(servers))))
<1> DEFINE M == Len(servers)
           E(i) == IF i = 0 THEN "firstElement" ELSE "separator"
           Y(i) == Place(E(i), Append(o, Frame("array", i)), t \o ServerDocs(i))
           y == [i \in 0..M |-> Y(i)]
           L == [i \in DOMAIN servers |-> Listed(i)]
<1>1. M \in Nat /\ DOMAIN servers = 1..M
  BY SeqIs DEF ServersOK
<1>2. Len(L) = M /\ (M = 0 => L = <<>>)
  BY <1>1
<1>3. ASSUME NEW i \in 1..M PROVE Takes(y[i - 1], L[i], y[i])
  <2>1. PICK k \in Nat : i = k + 1 /\ k = i - 1 /\ k \in 0..M /\ i # 0 /\ i \in 0..M
    BY <1>1
  <2>2. Takes(Place(IF k = 0 THEN "firstElement" ELSE "separator",
                     Append(o, Frame("array", k)), t \o ServerDocs(k)),
               Listed(i),
               Place("separator", Append(o, Frame("array", k + 1)), t \o ServerDocs(i)))
    BY <2>1, TakesListed
  <2>3. Takes(Y(k), Listed(i), Y(i))
    BY <2>1, <2>2
  <2> HIDE DEF Y
  <2>4. y[k] = Y(k) /\ y[i] = Y(i)
    BY <2>1
  <2>5. L[i] = Listed(i)
    BY <1>1
  <2> HIDE DEF y, L
  <2> QED
    BY <2>1, <2>3, <2>4, <2>5
<1>4. y[0] = Y(0) /\ y[M] = Y(M)
  <2> HIDE DEF Y
  <2> QED
    BY <1>1
<1>5. Elements = FlattenSeq(L)
  BY DEF Elements
<1> HIDE DEF y, L, Y
<1>6. Pieces(L, M, y)
  BY <1>2, <1>3 DEF Pieces
<1>7. Takes(y[0], FlattenSeq(L), y[M])
  BY <1>1, <1>6, TakesFlat
<1>8. Takes(Y(0), Elements, Y(M))
  BY <1>4, <1>5, <1>7
<1>9. t \o ServerDocs(0) = t
  <2>1. IsSeq(ServerDocs(0)) /\ Len(ServerDocs(0)) = 0
    BY ServerDocsIs
  <2>2. ServerDocs(0) = <<>>
    BY <2>1 DEF IsSeq
  <2> QED
    BY <2>2, ConcatEmpty
<1>10. Y(0) = Place("firstElement", Append(o, Frame("array", 0)), t)
  BY <1>9 DEF Y
<1>11. E(M) \in {"firstElement", "separator"}
  OBVIOUS
<1>12. Y(M) = Place(E(M), Append(o, Frame("array", M)), t \o ServerDocs(M))
  BY DEF Y
<1> HIDE DEF E
<1> QED
  BY <1>8, <1>10, <1>11, <1>12

Modes == Pushed(String(<<"tcp_mode">>), Bool(ut2Mode = "TCP"), String(<<"udp_mode">>), Bool(ut2Mode = "UDP"))
Addresses(d) == Pushed(String(<<"client_ip">>), String(IpChars(hosts[d])),
                       String(<<"servers">>), Array(ServerDocs(Len(servers))))
Doc(d) == ObjectOf(4, Modes \o Addresses(d))

\* A test whose configurations the program can read.
TestOK == ServersOK /\ \A d \in Clients : hosts[d] \in 0..255

LEMMA RawIs ==
  ASSUME NEW a, NEW b, IsSeq(a), IsSeq(b), Len(a) = 4, Len(b) = 4
  PROVE  Pairs(4, a \o b)
<1>1. IsSeq(a \o b)
  BY ConcatIs
<1>2. Len(a \o b) = Len(a) + Len(b)
  BY ConcatIs
<1> QED
  BY <1>1, <1>2 DEF Pairs

LEMMA NamesAreLetters ==
  {"tcp_mode", "udp_mode", "client_ip", "servers"} \cap {Quote, Break, EOF} = {}
BY DEF Quote, Break, EOF

\* The first half: the modes.
LEMMA TakesModes ==
  LET S0 == Append(<<>>, Object(<<>>))
  IN  Takes(Place("value", <<>>, <<>>),
            (((((<<LeftBrace, Break>> \o Name("tcp_mode")) \o BoolText(ut2Mode = "TCP")) \o <<",", Break>>)
                \o Name("udp_mode")) \o BoolText(ut2Mode = "UDP")) \o <<",", Break>>,
            Place("name", Append(<<>>, Frame("object", 2)), S0 \o Modes))
<1> DEFINE o  == <<>>
           S0 == Append(o, Object(o))
           b1 == ut2Mode = "TCP"
           b2 == ut2Mode = "UDP"
           n1 == "tcp_mode"
           n2 == "udp_mode"
           S1 == Append(S0, String(<<n1>>))
           S2 == Append(S1, Bool(b1))
           S3 == Append(S2, String(<<n2>>))
           S4 == Append(S3, Bool(b2))
           O0 == Append(o, Frame("object", 0))
           O1 == Append(o, Frame("object", 1))
           O2 == Append(o, Frame("object", 2))
           x0 == Place("value", o, o)
           x1 == Place("firstName", O0, S0)
           x2 == Place("value", O0, S1)
           x3 == Place("separator", O1, S2)
           x4 == Place("name", O1, S2)
           x5 == Place("value", O1, S3)
           x6 == Place("separator", O2, S4)
           x7 == Place("name", O2, S4)
<1>0. 0 \in Nat /\ 1 \in Nat /\ 2 \in Nat /\ 0 + 1 = 1 /\ 1 + 1 = 2 /\ b1 \in BOOLEAN /\ b2 \in BOOLEAN
  OBVIOUS
<1>1. IsSeq(o)
  BY EmptyIs
<1>2. Takes(x0, <<LeftBrace, Break>>, x1)
  BY TakesOpenObject
<1> HIDE DEF o
<1>3. IsSeq(O0) /\ IsSeq(O1) /\ IsSeq(O2) /\ IsSeq(S0)
  BY <1>1, AppendIs
<1>4. n1 \notin {Quote, Break, EOF} /\ n2 \notin {Quote, Break, EOF}
  BY NamesAreLetters
<1>5. S4 = S0 \o Modes
  <2> DEFINE a1 == String(<<n1>>)
             a2 == Bool(b1)
             a3 == String(<<n2>>)
             a4 == Bool(b2)
  <2>1. Modes = Pushed(a1, a2, a3, a4)
    BY DEF Modes
  <2> HIDE DEF a1, a2, a3, a4, S0
  <2>2. IsSeq(S0)
    BY <1>3
  <2>3. Append(Append(Append(Append(S0, a1), a2), a3), a4) = S0 \o Pushed(a1, a2, a3, a4)
    BY <2>2, StackPushed
  <2> QED
    BY <2>1, <2>3 DEF a1, a2, a3, a4
<1> HIDE DEF n1, n2, b1, b2
<1>6. Takes(x1, Name(n1), x2)
  <2> HIDE DEF O0, S0
  <2> QED
    BY <1>3, <1>4, TakesName
<1>7. Takes(x2, BoolText(b1), x3)
  <2> HIDE DEF S1
  <2>1. Takes(Place("value", Append(o, Frame("object", 0)), S1), BoolText(b1),
              Place("separator", Append(o, Frame("object", 0 + 1)), Append(S1, Bool(b1))))
    BY <1>0, <1>1, TakesBool
  <2> QED
    BY <1>0, <2>1
<1>8. Takes(x3, <<",", Break>>, x4)
  <2> HIDE DEF S2
  <2> QED
    BY <1>0, <1>1, TakesComma
<1>9. Takes(x4, Name(n2), x5)
  <2> HIDE DEF O1, S2
  <2> QED
    BY <1>3, <1>4, TakesName
<1>10. Takes(x5, BoolText(b2), x6)
  <2> HIDE DEF S3
  <2>1. Takes(Place("value", Append(o, Frame("object", 1)), S3), BoolText(b2),
              Place("separator", Append(o, Frame("object", 1 + 1)), Append(S3, Bool(b2))))
    BY <1>0, <1>1, TakesBool
  <2> QED
    BY <1>0, <2>1
<1>11. Takes(x6, <<",", Break>>, x7)
  <2> HIDE DEF S4
  <2> QED
    BY <1>0, <1>1, TakesComma
<1>12. x7 = Place("name", O2, S0 \o Modes)
  BY <1>5
<1> HIDE DEF x0, x1, x2, x3, x4, x5, x6, x7
<1>13. Takes(x0, (<<LeftBrace, Break>> \o Name(n1)) \o BoolText(b1), x3)
  <2>1. Takes(x0, <<LeftBrace, Break>> \o Name(n1), x2)
    BY <1>2, <1>6, TakesConcat
  <2> QED
    BY <1>7, <2>1, TakesConcat
<1> DEFINE w3 == (<<LeftBrace, Break>> \o Name(n1)) \o BoolText(b1)
<1>14. Takes(x0, (w3 \o <<",", Break>>) \o Name(n2), x5)
  <2> HIDE DEF w3
  <2>1. Takes(x0, w3, x3)
    BY <1>13 DEF w3
  <2>2. Takes(x0, w3 \o <<",", Break>>, x4)
    BY <1>8, <2>1, TakesConcat
  <2> QED
    BY <1>9, <2>2, TakesConcat
<1> DEFINE w5 == (w3 \o <<",", Break>>) \o Name(n2)
<1>15. Takes(x0, (w5 \o BoolText(b2)) \o <<",", Break>>, x7)
  <2> HIDE DEF w5
  <2>1. Takes(x0, w5, x5)
    BY <1>14 DEF w5
  <2>2. Takes(x0, w5 \o BoolText(b2), x6)
    BY <1>10, <2>1, TakesConcat
  <2> QED
    BY <1>11, <2>2, TakesConcat
<1> QED
  BY <1>12, <1>15 DEF x0, b1, b2, n1, n2, o

LEMMA TakesClosing ==
  ASSUME NEW x0, NEW x1, NEW x2, NEW w, NEW c, NEW d,
         Takes(x0, w, x1), Takes(x1, <<Break>>, x1), Takes(x1, <<c>>, x2),
         Takes(x2, <<Break>>, x2), NEW x3, Takes(x2, <<d>>, x3)
  PROVE  Takes(x0, w \o <<Break, c, Break, d>>, x3)
<1> DEFINE a == <<Break, c>>
           b == <<Break, d>>
           q == <<Break, c, Break, d>>
<1>1. Takes(x1, a, x2) /\ Takes(x2, b, x3)
  BY TakesTwo
<1>2. q = a \o b
  <2>1. IsSeq(<<Break>>) /\ IsSeq(<<c>>) /\ IsSeq(<<d>>)
    BY RunOne
  <2>2. IsSeq(a) /\ Len(a) = 2 /\ a[1] = Break /\ a[2] = c
    <3>1. a \in Seq({Break, c})
      OBVIOUS
    <3> QED
      BY <3>1 DEF IsSeq
  <2>3. IsSeq(b) /\ Len(b) = 2 /\ b[1] = Break /\ b[2] = d
    <3>1. b \in Seq({Break, d})
      OBVIOUS
    <3> QED
      BY <3>1 DEF IsSeq
  <2>4. IsSeq(q) /\ Len(q) = 4 /\ q[1] = Break /\ q[2] = c /\ q[3] = Break /\ q[4] = d
    <3>1. q \in Seq({Break, c, d})
      OBVIOUS
    <3> QED
      BY <3>1 DEF IsSeq
  <2> DEFINE ab == a \o b
  <2> HIDE DEF a, b, q
  <2>50. IsSeq(a) /\ IsSeq(b)
    BY <2>2, <2>3
  <2>5. IsSeq(ab)
    BY <2>50, ConcatIs
  <2>6. Len(ab) = Len(a) + Len(b)
    BY <2>50, ConcatIs
  <2>7. \A i \in 1..Len(a) : ab[i] = a[i]
    BY <2>50, ConcatIs
  <2>8. \A i \in 1..Len(b) : ab[Len(a) + i] = b[i]
    BY <2>50, ConcatIs
  <2> HIDE DEF ab
  <2>9. ab[1] = Break /\ ab[2] = c
    BY <2>2, <2>7
  <2>10. ab[2 + 1] = Break /\ ab[2 + 2] = d
    BY <2>2, <2>3, <2>8
  <2>11. Len(ab) = 4
    BY <2>2, <2>3, <2>6
  <2>12. ASSUME NEW i \in 1..Len(q) PROVE q[i] = ab[i]
    BY <2>4, <2>9, <2>10
  <2>13. q = ab
    <3>1. Len(q) = Len(ab)
      BY <2>4, <2>11
    <3> QED
      BY <2>4, <2>5, <2>12, <3>1, SameSeq
  <2> QED
    BY <2>13 DEF ab
<1> HIDE DEF a, b
<1>3. Takes(x1, q, x3)
  BY <1>1, <1>2, TakesConcat
<1> HIDE DEF q
<1>4. Takes(x0, w \o q, x3)
  BY <1>3, TakesConcat
<1> QED
  BY <1>4 DEF q

LEMMA ModesIs == IsSeq(Modes) /\ Len(Modes) = 4
BY PushedIs DEF Modes

LEMMA AddressesIs ==
  ASSUME NEW d
  PROVE  IsSeq(Addresses(d)) /\ Len(Addresses(d)) = 4
BY PushedIs DEF Addresses

LEMMA TakesAddresses ==
  ASSUME TestOK, NEW c \in Clients, NEW x, NEW w,
         Takes(x, w, Place("name", Append(<<>>, Frame("object", 2)), Append(<<>>, Object(<<>>)) \o Modes))
  PROVE  LET begin == ((((((w \o Name("client_ip")) \o IpAddr(hosts[c])) \o <<",", Break>>)
                       \o Name("servers")) \o <<"[">>) \o Elements)
         IN  /\ Takes(x, begin \o <<Break, "]", Break, RightBrace>>,
                      Place("end", <<>>, Append(<<>>, Doc(c))))
             /\ IsSeq(begin)
<1> DEFINE o  == <<>>
           S0 == Append(o, Object(<<>>))
           T  == S0 \o Modes
           h  == hosts[c]
           n1 == "client_ip"
           n2 == "servers"
           ip == String(IpChars(h))
           M  == Len(servers)
           docs == ServerDocs(M)
           S1 == Append(T, String(<<n1>>))
           S2 == Append(S1, ip)
           S3 == Append(S2, String(<<n2>>))
           S4 == Append(S3, Array(docs))
           S3a == Append(S3, Array(<<>>))
           O2 == Append(o, Frame("object", 2))
           O3 == Append(o, Frame("object", 3))
           O4 == Append(o, Frame("object", 4))
           x1 == Place("name", O2, T)
           x2 == Place("value", O2, S1)
           x3 == Place("separator", O3, S2)
           x4 == Place("name", O3, S2)
           x5 == Place("value", O3, S3)
           x6 == Place("firstElement", Append(O3, Frame("array", 0)), S3a)
           x7(e) == Place(e, Append(O3, Frame("array", M)), S3a \o docs)
           x8 == Place("separator", O4, S4)
           x9 == Place("end", <<>>, Append(<<>>, Doc(c)))
<1>0. 2 \in Nat /\ 3 \in Nat /\ 4 \in Nat /\ 2 + 1 = 3 /\ 3 + 1 = 4
  OBVIOUS
<1>1. IsSeq(o)
  BY EmptyIs
<1>2. IsSeq(docs) /\ Len(docs) = M /\ M \in Nat
  BY ServerDocsIs, SeqIs DEF TestOK, ServersOK
<1>3. n1 \notin {Quote, Break, EOF} /\ n2 \notin {Quote, Break, EOF}
  BY NamesAreLetters
<1>4. Letters(IpChars(h))
  BY IpLetters DEF TestOK
<1>5. T \o Addresses(c) = S4
  <2> DEFINE a1 == String(<<n1>>)
             a3 == String(<<n2>>)
             a4 == Array(docs)
  <2>1. Addresses(c) = Pushed(a1, ip, a3, a4)
    BY DEF Addresses
  <2>2. IsSeq(S0)
    BY <1>1, AppendIs
  <2> HIDE DEF a1, ip, a3, a4, S0
  <2>3. IsSeq(T)
    BY <2>2, ModesIs, ConcatIs
  <2> HIDE DEF T
  <2>4. Append(Append(Append(Append(T, a1), ip), a3), a4) = T \o Pushed(a1, ip, a3, a4)
    BY <2>3, StackPushed
  <2> QED
    BY <2>1, <2>4 DEF a1, a3, a4
<1>6. S4 = S0 \o (Modes \o Addresses(c))
  <2>1. IsSeq(S0) /\ IsSeq(Modes) /\ IsSeq(Addresses(c))
    BY <1>1, AppendIs, ModesIs, AddressesIs
  <2> HIDE DEF S0, S4
  <2>2. (S0 \o Modes) \o Addresses(c) = S0 \o (Modes \o Addresses(c))
    BY <2>1, ConcatAssoc
  <2> QED
    BY <1>5, <2>2
<1>7. IsSeq(T) /\ IsSeq(S3) /\ IsSeq(S3a)
  <2>1. IsSeq(S0)
    BY <1>1, AppendIs
  <2> HIDE DEF S0
  <2>2. IsSeq(T)
    BY <2>1, ModesIs, ConcatIs
  <2> HIDE DEF T
  <2>3. IsSeq(S1)
    BY <2>2, AppendIs
  <2> HIDE DEF S1
  <2>4. IsSeq(S2)
    BY <2>3, AppendIs
  <2> HIDE DEF S2
  <2>5. IsSeq(S3)
    BY <2>4, AppendIs
  <2> HIDE DEF S3
  <2>6. IsSeq(S3a)
    BY <2>5, AppendIs
  <2> QED
    BY <2>2, <2>5, <2>6
<1>8. IsSeq(O2) /\ IsSeq(O3)
  BY <1>1, AppendIs
<1> HIDE DEF n1, n2, h, docs, M, T
<1>9. Takes(x1, Name(n1), x2)
  <2> HIDE DEF O2
  <2> QED
    BY <1>8, <1>3, TakesName
<1> HIDE DEF o
<1>10. Takes(x2, IpAddr(h), x3)
  <2>1. IpAddr(h) = Quoted(IpChars(h))
    BY DEF IpAddr, IpChars
  <2> HIDE DEF S1
  <2>2. Takes(Place("value", Append(o, Frame("object", 2)), S1), Quoted(IpChars(h)),
              Place("separator", Append(o, Frame("object", 2 + 1)), Append(S1, String(IpChars(h)))))
    BY <1>0, <1>1, <1>4, TakesString
  <2> QED
    BY <1>0, <2>1, <2>2
<1>11. Takes(x3, <<",", Break>>, x4)
  <2> HIDE DEF S2
  <2> QED
    BY <1>0, <1>1, TakesComma
<1>12. Takes(x4, Name(n2), x5)
  <2> HIDE DEF O3, S2
  <2> QED
    BY <1>3, <1>8, TakesName
<1>13. Takes(x5, <<"[">>, x6)
  <2> HIDE DEF O3, S3
  <2> QED
    BY TakesOpenArray
<1>14. PICK e \in {"firstElement", "separator"} : Takes(x6, Elements, x7(e))
  <2> HIDE DEF O3, S3a
  <2>1. ServersOK
    BY DEF TestOK
  <2> QED
    BY <1>7, <1>8, <2>1, TakesElements DEF docs, M
<1>15. Takes(x7(e), <<Break>>, x7(e))
  BY TakesBreak
<1>16. Takes(x7(e), <<"]">>, x8)
  <2> HIDE DEF S3
  <2>1. Takes(Place(e, Append(Append(o, Frame("object", 3)), Frame("array", M)), Append(S3, Array(<<>>)) \o docs),
              <<"]">>,
              Place("separator", Append(o, Frame("object", 3 + 1)), Append(S3, Array(docs))))
    BY <1>0, <1>1, <1>2, <1>7, TakesEndArray
  <2> QED
    BY <1>0, <2>1
<1>17. Takes(x8, <<Break>>, x8)
  BY TakesBreak
<1>18. Takes(x8, <<RightBrace>>, x9)
  <2> DEFINE raw == Modes \o Addresses(c)
  <2>1. Pairs(4, raw)
    BY ModesIs, AddressesIs, RawIs
  <2>2. S4 = Append(<<>>, Object(<<>>)) \o raw
    BY <1>6 DEF o
  <2>3. x8 = Place("separator", Append(<<>>, Frame("object", 4)), Append(<<>>, Object(<<>>)) \o raw)
    BY <2>2 DEF o
  <2> HIDE DEF raw
  <2>4. Takes(Place("separator", Append(<<>>, Frame("object", 4)), Append(<<>>, Object(<<>>)) \o raw),
              <<RightBrace>>, Place("end", <<>>, Append(<<>>, ObjectOf(4, raw))))
    BY <1>0, <2>1, EmptyIs, TakesEndObject
  <2> QED
    BY <2>3, <2>4 DEF Doc, raw
<1>19. Takes(x, w, x1)
  BY DEF T, o
<1> HIDE DEF x1, x2, x3, x4, x5, x6, x7, x8, x9
<1>20. Takes(x, (w \o Name(n1)) \o IpAddr(h), x3)
  <2>1. Takes(x, w \o Name(n1), x2)
    BY <1>9, <1>19, TakesConcat
  <2> QED
    BY <1>10, <2>1, TakesConcat
<1> DEFINE w3 == (w \o Name(n1)) \o IpAddr(h)
<1>21. Takes(x, (w3 \o <<",", Break>>) \o Name(n2), x5)
  <2>1. Takes(x, w3, x3)
    BY <1>20
  <2> HIDE DEF w3
  <2>2. Takes(x, w3 \o <<",", Break>>, x4)
    BY <1>11, <2>1, TakesConcat
  <2> QED
    BY <1>12, <2>2, TakesConcat
<1> DEFINE w5 == (w3 \o <<",", Break>>) \o Name(n2)
<1>22. Takes(x, (w5 \o <<"[">>) \o Elements, x7(e))
  <2>1. Takes(x, w5, x5)
    BY <1>21
  <2> HIDE DEF w5
  <2>2. Takes(x, w5 \o <<"[">>, x6)
    BY <1>13, <2>1, TakesConcat
  <2> QED
    BY <1>14, <2>2, TakesConcat
<1> DEFINE w7 == (w5 \o <<"[">>) \o Elements
<1>24. IsSeq(w7)
  BY <1>22 DEF Takes, IsText
<1>23. Takes(x, w7 \o <<Break, "]", Break, RightBrace>>, x9)
  <2>1. Takes(x, w7, x7(e))
    BY <1>22
  <2> HIDE DEF w7
  <2> QED
    BY <1>15, <1>16, <1>17, <1>18, <2>1, TakesClosing
<1> QED
  BY <1>23, <1>24 DEF x9, n1, n2, h

\* The parser takes a whole configuration and has its document on the stack.
LEMMA TakesConfiguration ==
  ASSUME TestOK, NEW c \in Clients
  PROVE  /\ Takes(Place("value", <<>>, <<>>), Configuration(c), Place("end", <<>>, Append(<<>>, Doc(c))))
         /\ \E begin : IsSeq(begin) /\ Configuration(c) = begin \o <<Break, "]", Break, RightBrace>>
<1> DEFINE w == (((((<<LeftBrace, Break>> \o Name("tcp_mode")) \o BoolText(ut2Mode = "TCP")) \o <<",", Break>>)
                \o Name("udp_mode")) \o BoolText(ut2Mode = "UDP")) \o <<",", Break>>
           begin == ((((((w \o Name("client_ip")) \o IpAddr(hosts[c])) \o <<",", Break>>)
                       \o Name("servers")) \o <<"[">>) \o Elements)
           x == Place("value", <<>>, <<>>)
<1>1. Takes(x, w, Place("name", Append(<<>>, Frame("object", 2)), Append(<<>>, Object(<<>>)) \o Modes))
  BY TakesModes
<1>2. Configuration(c) = begin \o <<Break, "]", Break, RightBrace>>
  BY DEF Configuration, Elements
<1> HIDE DEF w, x
<1>3. /\ Takes(x, begin \o <<Break, "]", Break, RightBrace>>, Place("end", <<>>, Append(<<>>, Doc(c))))
      /\ IsSeq(begin)
  BY <1>1, TakesAddresses
<1> HIDE DEF begin
<1> QED
  BY <1>2, <1>3 DEF x

(* What every text keeps, and what no text undoes. *)

Places == {"value", "valueChars", "nameChars", "firstName", "name", "colon", "firstElement",
           "separator", "digits", "zero", "end"}

State(e, o, s, ch, n, err) ==
  [expects |-> e, open |-> o, stack |-> s, chars |-> ch, number |-> n, error |-> err]
IsParser(p) == \E e, o, s, ch, n, err : e \in Places /\ p = State(e, o, s, ch, n, err)

LEMMA HelpersKeep ==
  ASSUME NEW p, IsParser(p)
  PROVE  /\ \A code : IsParser(Fails(p, code))
         /\ \A what \in Places : IsParser(Expect(p, what))
         /\ \A v : IsParser(Push(p, v))
         /\ \A kind : IsParser(Enter(p, kind))
         /\ IsParser(Leave(p))
         /\ IsParser(ValueDone(p))
         /\ \A s : IsParser([p EXCEPT !.stack = s])
         /\ \A s : IsParser([p EXCEPT !.chars = s])
         /\ \A s : IsParser([p EXCEPT !.number = s])
<1>1. PICK e, o, s, ch, n, err : e \in Places /\ p = State(e, o, s, ch, n, err)
  BY DEF IsParser
<1>0. e \in Places
  BY <1>1
<1>2. \A code : Fails(p, code) = State(e, o, s, ch, n, code)
  BY <1>1 DEF Fails, State
<1>3. \A what : Expect(p, what) = State(what, o, s, ch, n, err)
  BY <1>1 DEF Expect, State
<1>4. ASSUME NEW v PROVE \E t : Push(p, v) = State(e, o, t, ch, n, err)
  <2>1. PICK t : t = Append(p.stack, v)
    OBVIOUS
  <2>2. Push(p, v) = [p EXCEPT !.stack = t]
    BY <2>1 DEF Push
  <2>3. [p EXCEPT !.stack = t] = State(e, o, t, ch, n, err)
    BY <1>1 DEF State
  <2> QED
    BY <2>2, <2>3
<1>5. ASSUME NEW kind PROVE \E o1 : Enter(p, kind) = State(e, o1, s, ch, n, err)
  <2>1. PICK t : t = Append(p.open, [kind |-> kind, count |-> 0])
    OBVIOUS
  <2>2. Enter(p, kind) = [p EXCEPT !.open = t]
    BY <2>1 DEF Enter
  <2>3. [p EXCEPT !.open = t] = State(e, t, s, ch, n, err)
    BY <1>1 DEF State
  <2> QED
    BY <2>2, <2>3
<1>6. Leave(p) = State(e, Front(o), s, ch, n, err)
  BY <1>1 DEF Leave, State
<1>7. IsParser(ValueDone(p))
  <2>1. CASE o = <<>>
    <3>1. ValueDone(p) = State("end", o, s, ch, n, err)
      BY <1>1, <1>3, <2>1 DEF ValueDone, State
    <3> QED
      BY <3>1 DEF IsParser, Places
  <2>2. CASE o # <<>>
    <3>1. ValueDone(p) = State("separator", [o EXCEPT ![Len(o)].count = @ + 1], s, ch, n, err)
      BY <1>1, <2>2 DEF ValueDone, State
    <3>2. "separator" \in Places
      BY DEF Places
    <3> QED
      BY <3>1, <3>2 DEF IsParser
  <2> QED
    BY <2>1, <2>2
<1>8. \A t : [p EXCEPT !.stack = t] = State(e, o, t, ch, n, err)
  BY <1>1 DEF State
<1>9. \A t : [p EXCEPT !.chars = t] = State(e, o, s, t, n, err)
  BY <1>1 DEF State
<1>10. \A t : [p EXCEPT !.number = t] = State(e, o, s, ch, t, err)
  BY <1>1 DEF State
<1>11. \A e1 \in Places : \A o1, s1, ch1, n1, err1 : IsParser(State(e1, o1, s1, ch1, n1, err1))
  BY DEF IsParser
<1> HIDE DEF State, IsParser
<1>12. \A code : IsParser(Fails(p, code))
  BY <1>2, <1>0, <1>11
<1>13. \A what \in Places : IsParser(Expect(p, what))
  BY <1>3, <1>0, <1>11
<1>14. \A v : IsParser(Push(p, v))
  BY <1>4, <1>0, <1>11
<1>15. \A kind : IsParser(Enter(p, kind))
  BY <1>5, <1>0, <1>11
<1>16. IsParser(Leave(p))
  BY <1>6, <1>0, <1>11
<1>17. ASSUME NEW t PROVE IsParser([p EXCEPT !.stack = t])
  <2>1. [p EXCEPT !.stack = t] = State(e, o, t, ch, n, err)
    BY <1>8
  <2> QED
    BY <1>0, <1>11, <2>1
<1>18. ASSUME NEW t PROVE IsParser([p EXCEPT !.chars = t])
  <2>1. [p EXCEPT !.chars = t] = State(e, o, s, t, n, err)
    BY <1>9
  <2> QED
    BY <1>0, <1>11, <2>1
<1>19. ASSUME NEW t PROVE IsParser([p EXCEPT !.number = t])
  <2>1. [p EXCEPT !.number = t] = State(e, o, s, ch, t, err)
    BY <1>10
  <2> QED
    BY <1>0, <1>11, <2>1
<1> QED
  BY <1>7, <1>12, <1>13, <1>14, <1>15, <1>16, <1>17, <1>18, <1>19

LEMMA CallsKeep ==
  ASSUME NEW p, IsParser(p), NEW c
  PROVE  /\ IsParser(ParseValue(p, c)) /\ IsParser(ParseString(p, c)) /\ IsParser(ParseName(p, c))
         /\ IsParser(ParseColon(p, c)) /\ IsParser(ParseFirstElement(p, c)) /\ IsParser(ParseSeparator(p, c))
         /\ IsParser(ParseDigit(p, c)) /\ IsParser(ParseEnd(p, c)) /\ IsParser(NumberDone(p))
<1> DEFINE Keeps(q) == IsParser(q)
<1>1. \A code : IsParser(Fails(p, code))
  BY HelpersKeep
<1>2. \A what \in {"value", "valueChars", "nameChars", "firstName", "name", "colon", "firstElement",
                    "digits", "zero"} : IsParser(Expect(p, what))
  BY HelpersKeep DEF Places
<1>3. ASSUME NEW v PROVE IsParser(Push(p, v)) /\ IsParser(ValueDone(Push(p, v)))
  BY HelpersKeep
<1>4. ASSUME NEW n, NEW made PROVE IsParser(Close(p, n, made))
  <2>1. PICK s : s = Append(Under(p, n), made)
    OBVIOUS
  <2>2. IsParser([p EXCEPT !.stack = s])
    BY HelpersKeep
  <2>3. IsParser(Leave([p EXCEPT !.stack = s]))
    BY <2>2, HelpersKeep
  <2>4. IsParser(ValueDone(Leave([p EXCEPT !.stack = s])))
    BY <2>3, HelpersKeep
  <2> QED
    BY <2>1, <2>4 DEF Close
<1>5. IsParser(EndObject(p)) /\ IsParser(EndArray(p))
  BY <1>4 DEF EndObject, EndArray
<1>6. IsParser(ParseNumber(p, c))
  <2>1. PICK d : d = DigitValue(c)
    OBVIOUS
  <2>2. CASE c \in DigitSymbols
    <3>1. PICK w \in {"zero", "digits"} : w = IF c = "0" THEN "zero" ELSE "digits"
      OBVIOUS
    <3>2. IsParser(Expect(p, w))
      BY <1>2
    <3>3. IsParser([Expect(p, w) EXCEPT !.number = d])
      BY <3>2, HelpersKeep
    <3> QED
      BY <2>1, <2>2, <3>1, <3>3 DEF ParseNumber
  <2>3. CASE c \notin DigitSymbols
    BY <1>1, <2>3 DEF ParseNumber
  <2> QED
    BY <2>2, <2>3
<1>7. IsParser(ParseValue(p, c))
  <2>1. IsParser([Expect(p, "valueChars") EXCEPT !.chars = <<>>])
    BY <1>2, HelpersKeep
  <2>2. IsParser(Expect(Enter(Push(p, Object(<<>>)), "object"), "firstName"))
    <3>1. IsParser(Enter(Push(p, Object(<<>>)), "object"))
      BY <1>3, HelpersKeep
    <3> QED
      BY <3>1, HelpersKeep DEF Places
  <2>3. IsParser(Expect(Enter(Push(p, Array(<<>>)), "array"), "firstElement"))
    <3>1. IsParser(Enter(Push(p, Array(<<>>)), "array"))
      BY <1>3, HelpersKeep
    <3> QED
      BY <3>1, HelpersKeep DEF Places
  <2>4. \A v : IsParser(ValueDone(Push(p, v)))
    BY <1>3
  <2> QED
    BY <1>1, <1>6, <2>1, <2>2, <2>3, <2>4, Zenon DEF ParseValue
<1>8. IsParser(ParseString(p, c))
  <2>1. \A v : IsParser(ValueDone(Push(p, v))) /\ IsParser(Expect(Push(p, v), "colon"))
    BY <1>3, HelpersKeep DEF Places
  <2>2. \A t : IsParser([p EXCEPT !.chars = t])
    BY HelpersKeep
  <2>3. IsParser([p EXCEPT !.chars = Append(@, c)])
    BY <2>2
  <2> QED
    BY <1>1, <2>1, <2>3, Zenon DEF ParseString
<1>9. IsParser(ParseName(p, c))
  <2>1. IsParser([Expect(p, "nameChars") EXCEPT !.chars = <<>>])
    BY <1>2, HelpersKeep
  <2> QED
    BY <1>1, <1>5, <2>1, Zenon DEF ParseName
<1>10. IsParser(ParseColon(p, c))
  BY <1>1, <1>2 DEF ParseColon
<1>11. IsParser(ParseFirstElement(p, c))
  BY <1>5, <1>7 DEF ParseFirstElement
<1>12. IsParser(ParseSeparator(p, c))
  <2>1. IsParser(Expect(p, "name")) /\ IsParser(Expect(p, "value"))
    BY <1>2
  <2> QED
    BY <1>1, <1>5, <2>1, Zenon DEF ParseSeparator
<1>13. IsParser(ParseDigit(p, c))
  <2>1. \A t : IsParser([p EXCEPT !.number = t])
    BY HelpersKeep
  <2> QED
    BY <2>1 DEF ParseDigit
<1>14. IsParser(ParseEnd(p, c))
  BY <1>1 DEF ParseEnd
<1>15. IsParser(NumberDone(p))
  BY <1>3 DEF NumberDone
<1> QED
  BY <1>7, <1>8, <1>9, <1>10, <1>11, <1>12, <1>13, <1>14, <1>15

LEMMA ScanKeeps ==
  ASSUME NEW p, IsParser(p), p.expects # "zero", NEW c
  PROVE  IsParser(Scan(p, c))
<1>1. p.expects \in Places
  BY DEF IsParser, State
<1>2. /\ IsParser(ParseValue(p, c)) /\ IsParser(ParseString(p, c)) /\ IsParser(ParseName(p, c))
      /\ IsParser(ParseColon(p, c)) /\ IsParser(ParseFirstElement(p, c)) /\ IsParser(ParseSeparator(p, c))
      /\ IsParser(ParseDigit(p, c)) /\ IsParser(ParseEnd(p, c))
  BY CallsKeep
<1> QED
  BY <1>1, <1>2 DEF Scan, Places

\* A number that ends is a value.
LEMMA NumberDoneIs ==
  ASSUME NEW p, IsParser(p)
  PROVE  /\ NumberDone(p).expects = IF p.open = <<>> THEN "end" ELSE "separator"
         /\ NumberDone(p).error = p.error
         /\ p.open = <<>> => NumberDone(p).open = <<>>
<1>1. PICK e, o, s, ch, n, err : e \in Places /\ p = State(e, o, s, ch, n, err)
  BY DEF IsParser
<1>2. PICK t : t = Append(p.stack, Uint(p.number))
  OBVIOUS
<1>3. Push(p, Uint(p.number)) = State(e, o, t, ch, n, err)
  <2>1. [p EXCEPT !.stack = t] = State(e, o, t, ch, n, err)
    BY <1>1 DEF State
  <2>2. Push(p, Uint(p.number)) = [p EXCEPT !.stack = t]
    BY <1>2 DEF Push
  <2> QED
    BY <2>1, <2>2
<1>4. NumberDone(p) = ValueDone(State(e, o, t, ch, n, err))
  BY <1>3 DEF NumberDone
<1>5. CASE o = <<>>
  BY <1>1, <1>4, <1>5 DEF ValueDone, State, Expect
<1>6. CASE o # <<>>
  BY <1>1, <1>4, <1>6 DEF ValueDone, State, Expect
<1> QED
  BY <1>5, <1>6

LEMMA StepKeeps ==
  ASSUME NEW p, IsParser(p), NEW c
  PROVE  IsParser(Step(p, c))
<1>1. CASE InNumber(p, c)
  <2>1. IsParser(NumberDone(p)) /\ NumberDone(p).expects # "zero"
    BY CallsKeep, NumberDoneIs
  <2>2. IsParser(Scan(NumberDone(p), c))
    BY <2>1, ScanKeeps
  <2> QED
    BY <1>1, <2>2 DEF Step
<1>2. CASE ~InNumber(p, c)
  <2>1. p.expects # "zero"
    BY <1>2 DEF InNumber
  <2>2. IsParser(Scan(p, c))
    BY <2>1, ScanKeeps
  <2> QED
    BY <1>2, <2>2 DEF Step
<1> QED
  BY <1>1, <1>2

\* The root is complete, or may be: only its last digit may still come.
Done(p) == \/ p.error # "none"
           \/ p.expects = "end"
           \/ p.open = <<>> /\ p.expects \in {"digits", "zero"}

LEMMA FailsIs ==
  ASSUME NEW p, IsParser(p), NEW code
  PROVE  Fails(p, code).error = code
BY DEF Fails, IsParser, State

LEMMA DigitsAreDigits ==
  RightBrace \notin DigitSymbols /\ EOF \notin DigitSymbols /\ RightBrace # Break /\ RightBrace # EOF
<1>1. EOF \notin DigitSymbols
  BY NotDigits
<1>2. RightBrace \notin DigitSymbols
  <2>1. RightBrace \notin {"0", "1", "2", "3", "4", "5", "6", "7", "8", "9"}
    BY DEF RightBrace
  <2>2. DigitSymbols = {"0", "1", "2", "3", "4", "5", "6", "7", "8", "9"}
    BY DEF DigitSymbols, Digits, Range
  <2> QED
    BY <2>1, <2>2
<1> QED
  BY <1>1, <1>2, Braces

\* After the root only white space does no harm.
LEMMA ScanEnd ==
  ASSUME NEW p, IsParser(p), p.expects = "end", NEW c, c # EOF
  PROVE  IF c = Break THEN Scan(p, c) = p ELSE Scan(p, c).error = "DocumentRootNotSingular"
<1>1. c = Break => Scan(p, c) = p
  BY DEF Scan, SkipsWhitespace
<1>2. c # Break => Scan(p, c) = Fails(p, "DocumentRootNotSingular")
  BY DEF Scan, SkipsWhitespace, ParseEnd
<1> QED
  BY <1>1, <1>2, FailsIs

LEMMA StepDone ==
  ASSUME NEW p, IsParser(p), Done(p), NEW c, c # EOF
  PROVE  Done(Step(p, c)) /\ Step(p, RightBrace).error # "none"
<1>0. RightBrace # EOF /\ RightBrace # Break /\ RightBrace \notin DigitSymbols
  BY DigitsAreDigits
<1>1. CASE p.error # "none"
  BY <1>1 DEF Step, Done
<1>2. CASE p.error = "none"
  <2>1. p.expects = "end" \/ (p.open = <<>> /\ p.expects \in {"digits", "zero"})
    BY <1>2 DEF Done
  <2>2. ASSUME NEW q, IsParser(q), q.expects = "end", NEW d, d # EOF
        PROVE  Done(Scan(q, d)) /\ (d # Break => Scan(q, d).error # "none")
    <3>1. IF d = Break THEN Scan(q, d) = q ELSE Scan(q, d).error = "DocumentRootNotSingular"
      BY <2>2, ScanEnd
    <3> QED
      BY <2>2, <3>1 DEF Done
  <2>3. p.open = <<>> => IsParser(NumberDone(p)) /\ NumberDone(p).expects = "end"
    BY CallsKeep, NumberDoneIs
  <2>4. ASSUME NEW d, d # EOF PROVE Done(Step(p, d)) /\ (d = RightBrace => Step(p, d).error # "none")
    <3>1. CASE InNumber(p, d)
      <4>1. Step(p, d) = Scan(NumberDone(p), d)
        BY <1>2, <3>1 DEF Step
      <4>2. p.open = <<>>
        BY <2>1, <3>1 DEF InNumber
      <4> QED
        BY <1>0, <2>2, <2>3, <2>4, <4>1, <4>2
    <3>2. CASE ~InNumber(p, d) /\ p.expects = "end"
      <4>1. Step(p, d) = Scan(p, d)
        BY <1>2, <3>2 DEF Step
      <4> QED
        BY <1>0, <2>1, <2>2, <2>4, <3>2, <4>1
    <3>3. CASE ~InNumber(p, d) /\ p.expects = "digits"
      <4>1. d \in DigitSymbols
        BY <3>3 DEF InNumber
      <4>2. Step(p, d) = Scan(p, d)
        BY <1>2, <3>3 DEF Step
      <4>3. d # Break
        BY <4>1, NotDigits
      <4>4. Scan(p, d) = ParseDigit(p, d)
        BY <3>3, <4>3 DEF Scan, SkipsWhitespace
      <4>5. ParseDigit(p, d).expects = p.expects /\ ParseDigit(p, d).open = p.open
        BY DEF ParseDigit, IsParser, State
      <4> QED
        BY <1>0, <2>1, <3>3, <4>1, <4>2, <4>4, <4>5 DEF Done
    <3> QED
      BY <2>1, <3>1, <3>2, <3>3 DEF InNumber
  <2> QED
    BY <1>0, <2>4
<1> QED
  BY <1>1, <1>2

\* The end of the text anywhere else is an error.
LEMMA EofFails ==
  ASSUME NEW p, IsParser(p), ~Done(p)
  PROVE  Step(p, EOF).error # "none"
<1>0. /\ EOF \notin DigitSymbols /\ EOF # RightBrace /\ EOF # LeftBrace
      /\ EOF \notin {Quote, Break, "null", "true", "false", "[", "]", ",", ":"}
  <2>1. EOF \notin {Quote, Break, "null", "true", "false", "[", "]", ",", ":"}
    BY DEF EOF, Quote, Break
  <2> QED
    BY <2>1, DigitsAreDigits, Braces
<1>1. p.error = "none"
  BY DEF Done
<1>2. ASSUME NEW q, IsParser(q), q.expects \in Places \ {"digits", "zero", "end"}
      PROVE  Scan(q, EOF).error # "none"
  <2>1. \A code : Fails(q, code).error = code
    BY <1>2, FailsIs
  <2>2. ParseNumber(q, EOF) = Fails(q, "ValueInvalid")
    BY <1>0 DEF ParseNumber
  <2>3. ParseValue(q, EOF) \in {Fails(q, "DocumentEmpty"), Fails(q, "ValueInvalid")}
    BY <1>0, <2>2, Zenon DEF ParseValue
  <2>4. ParseString(q, EOF) = Fails(q, "StringMissQuotationMark")
    BY <1>0, Zenon DEF ParseString
  <2>5. ParseName(q, EOF) = Fails(q, "ObjectMissName")
    BY <1>0, Zenon DEF ParseName
  <2>6. ParseColon(q, EOF) = Fails(q, "ObjectMissColon")
    BY <1>0 DEF ParseColon
  <2>7. ParseFirstElement(q, EOF) = ParseValue(q, EOF)
    BY <1>0 DEF ParseFirstElement
  <2>8. ParseSeparator(q, EOF) \in {Fails(q, "ObjectMissCommaOrCurlyBracket"),
                                    Fails(q, "ArrayMissCommaOrSquareBracket")}
    BY <1>0, Zenon DEF ParseSeparator
  <2>9. \E code \in {"DocumentEmpty", "ValueInvalid", "StringMissQuotationMark", "ObjectMissName",
                     "ObjectMissColon", "ObjectMissCommaOrCurlyBracket", "ArrayMissCommaOrSquareBracket"} :
          Scan(q, EOF) = Fails(q, code)
    <3> DEFINE E == EOF
    <3>1. Scan(q, E) \in {ParseValue(q, E), ParseString(q, E), ParseName(q, E), ParseColon(q, E),
                          ParseFirstElement(q, E), ParseSeparator(q, E)}
      BY <1>0, <1>2 DEF Scan, SkipsWhitespace, Places
    <3> QED
      BY <2>3, <2>4, <2>5, <2>6, <2>7, <2>8, <3>1
  <2> QED
    BY <2>1, <2>9
<1>3. CASE p.expects \in {"digits", "zero"}
  <2>1. Step(p, EOF) = Scan(NumberDone(p), EOF)
    BY <1>0, <1>1, <1>3 DEF Step, InNumber
  <2>2. p.open # <<>>
    BY <1>1, <1>3 DEF Done
  <2>3. IsParser(NumberDone(p)) /\ NumberDone(p).expects = "separator"
    BY <2>2, CallsKeep, NumberDoneIs
  <2> QED
    BY <1>2, <2>1, <2>3 DEF Places
<1>4. CASE p.expects \notin {"digits", "zero"}
  <2>1. Step(p, EOF) = Scan(p, EOF)
    BY <1>1, <1>4 DEF Step, InNumber
  <2>2. p.expects \in Places /\ p.expects # "end"
    BY DEF IsParser, State, Done
  <2> QED
    BY <1>2, <1>4, <2>1, <2>2
<1> QED
  BY <1>3, <1>4

\* The first symbols of a text, and the next one.
LEMMA RunNext ==
  ASSUME NEW p, NEW t, IsSeq(t), NEW k \in Nat, k + 1 <= Len(t)
  PROVE  Run(p, SubSeq(t, 1, k + 1)) = Step(Run(p, SubSeq(t, 1, k)), t[k + 1])
<1>1. Len(t) \in Nat
  BY SeqIs
<1>2. k \in 0..(Len(t) - 1)
  BY <1>1
<1>3. SubSeq(t, 1, k + 1) = Append(SubSeq(t, 1, k), t[k + 1])
  BY <1>2, PrefixIs
<1>4. k \in 0..Len(t)
  BY <1>1
<1>5. IsSeq(SubSeq(t, 1, k))
  BY <1>4, SplitIs
<1> DEFINE a == SubSeq(t, 1, k)
           v == t[k + 1]
<1>6. SubSeq(t, 1, k + 1) = Append(a, v) /\ IsSeq(a)
  BY <1>3, <1>5
<1> HIDE DEF a, v
<1>7. Run(p, Append(a, v)) = Step(Run(p, a), v)
  BY <1>6, RunAppend
<1> QED
  BY <1>6, <1>7 DEF a, v

LEMMA RunKeeps ==
  ASSUME NEW p, IsParser(p), NEW t, IsText(t)
  PROVE  IsParser(Run(p, t)) /\ (Done(p) => Done(Run(p, t)))
<1> DEFINE R(k) == Run(p, SubSeq(t, 1, k))
           S == {k \in Nat : k <= Len(t) => IsParser(R(k)) /\ (Done(p) => Done(R(k)))}
<1>1. IsSeq(t) /\ Len(t) \in Nat /\ \A i \in 1..Len(t) : t[i] # EOF
  BY SeqIs DEF IsText
<1>2. R(0) = p /\ R(Len(t)) = Run(p, t)
  BY <1>1, PrefixIs, RunEmpty
<1>3. 0 \in S
  BY <1>2
<1>4. ASSUME NEW k \in Nat, k \in S PROVE k + 1 \in S
  <2> SUFFICES ASSUME k + 1 <= Len(t) PROVE IsParser(R(k + 1)) /\ (Done(p) => Done(R(k + 1)))
    OBVIOUS
  <2>1. R(k + 1) = Step(R(k), t[k + 1])
    BY <1>1, RunNext
  <2>2. IsParser(R(k)) /\ (Done(p) => Done(R(k)))
    BY <1>1, <1>4
  <2>3. t[k + 1] # EOF
    BY <1>1
  <2> HIDE DEF R
  <2> QED
    BY <2>1, <2>2, <2>3, StepKeeps, StepDone
<1> HIDE DEF S, R
<1>5. Len(t) \in S
  BY <1>1, <1>3, <1>4, SetInduction
<1> QED
  BY <1>1, <1>2, <1>5 DEF S

\* An error stays; and at the end of the root only white space is no error.
LEMMA RunAfterEnd ==
  ASSUME NEW p, IsParser(p), p.error = "none", p.expects = "end", NEW t, IsText(t)
  PROVE  \/ Run(p, t) = p /\ \A i \in 1..Len(t) : t[i] = Break
         \/ Run(p, t).error # "none"
<1> DEFINE R(k) == Run(p, SubSeq(t, 1, k))
           S == {k \in Nat : k <= Len(t) => \/ R(k) = p /\ \A i \in 1..k : t[i] = Break
                                            \/ R(k).error # "none"}
<1>1. IsSeq(t) /\ Len(t) \in Nat /\ \A i \in 1..Len(t) : t[i] # EOF
  BY SeqIs DEF IsText
<1>2. R(0) = p /\ R(Len(t)) = Run(p, t)
  BY <1>1, PrefixIs, RunEmpty
<1>3. 0 \in S
  BY <1>2
<1>4. ASSUME NEW k \in Nat, k \in S PROVE k + 1 \in S
  <2> SUFFICES ASSUME k + 1 <= Len(t)
               PROVE  \/ R(k + 1) = p /\ \A i \in 1..(k + 1) : t[i] = Break
                      \/ R(k + 1).error # "none"
    OBVIOUS
  <2>1. R(k + 1) = Step(R(k), t[k + 1])
    BY <1>1, RunNext
  <2>2. \/ R(k) = p /\ \A i \in 1..k : t[i] = Break
        \/ R(k).error # "none"
    BY <1>1, <1>4
  <2>3. t[k + 1] # EOF
    BY <1>1
  <2> HIDE DEF R
  <2>4. CASE R(k).error # "none"
    BY <2>1, <2>4 DEF Step
  <2>5. CASE R(k) = p /\ \A i \in 1..k : t[i] = Break
    <3>1. Step(p, t[k + 1]) = Scan(p, t[k + 1])
      BY DEF Step, InNumber
    <3>2. IF t[k + 1] = Break THEN Scan(p, t[k + 1]) = p
                              ELSE Scan(p, t[k + 1]).error = "DocumentRootNotSingular"
      BY <2>3, ScanEnd
    <3>3. CASE t[k + 1] = Break
      <4>1. \A i \in 1..(k + 1) : t[i] = Break
        BY <2>5, <3>3
      <4> QED
        BY <2>1, <2>5, <3>1, <3>2, <3>3, <4>1
    <3>4. CASE t[k + 1] # Break
      BY <2>1, <2>5, <3>1, <3>2, <3>4
    <3> QED
      BY <3>3, <3>4
  <2> QED
    BY <2>2, <2>4, <2>5
<1> HIDE DEF S, R
<1>5. Len(t) \in S
  BY <1>1, <1>3, <1>4, SetInduction
<1> QED
  BY <1>1, <1>2, <1>5 DEF S

---------------------------------------------------------------------------
(* What becomes of a configuration, and of one that is cut short or goes on. *)

LEMMA StartIs == IsParser(Start) /\ Reached(Start, Place("value", <<>>, <<>>))
<1>1. Start = State("value", <<>>, <<>>, <<>>, 0, "none") /\ Start = At("value", <<>>, <<>>, <<>>, 0)
  BY DEF Start, State, At
<1>2. IsParser(Start)
  BY <1>1 DEF IsParser, Places
<1>3. Reached(Start, Place("value", <<>>, <<>>))
  BY <1>1, ReachedIs
<1> QED
  BY <1>2, <1>3

\* A configuration ends with a brace.
LEMMA ConfigurationEnds ==
  ASSUME TestOK, NEW c \in Clients
  PROVE  /\ IsText(Configuration(c)) /\ Len(Configuration(c)) \in Nat \ {0}
         /\ Configuration(c)[Len(Configuration(c))] = RightBrace
<1>1. IsText(Configuration(c))
  BY TakesConfiguration DEF Takes
<1>2. PICK begin : IsSeq(begin) /\ Configuration(c) = begin \o <<Break, "]", Break, RightBrace>>
  BY TakesConfiguration
<1> DEFINE q == <<Break, "]", Break, RightBrace>>
<1>3. IsSeq(q) /\ Len(q) = 4 /\ q[4] = RightBrace
  <2>1. q \in Seq({Break, "]", RightBrace})
    OBVIOUS
  <2> QED
    BY <2>1 DEF IsSeq
<1>4. Configuration(c) = begin \o q
  BY <1>2
<1> HIDE DEF q
<1>5. Len(begin) \in Nat
  BY <1>2, SeqIs
<1>6. IsSeq(begin) /\ IsSeq(q)
  BY <1>2, <1>3
<1>7. Len(begin \o q) = Len(begin) + Len(q)
  BY <1>6, ConcatIs
<1>8. \A i \in 1..Len(q) : (begin \o q)[Len(begin) + i] = q[i]
  BY <1>6, ConcatIs
<1>9. (begin \o q)[Len(begin) + 4] = RightBrace
  <2>1. 4 \in 1..Len(q)
    BY <1>3
  <2> QED
    BY <1>3, <1>8, <2>1
<1> QED
  BY <1>1, <1>3, <1>4, <1>5, <1>7, <1>9

\* At the end of a configuration the parser has its document.
LEMMA RunConfiguration ==
  ASSUME TestOK, NEW c \in Clients
  PROVE  LET p == Run(Start, Configuration(c))
         IN  IsParser(p) /\ p.error = "none" /\ p.expects = "end" /\ p.stack = Append(<<>>, Doc(c))
<1> DEFINE x == Place("value", <<>>, <<>>)
           y == Place("end", <<>>, Append(<<>>, Doc(c)))
           p == Run(Start, Configuration(c))
<1>1. Takes(x, Configuration(c), y)
  BY TakesConfiguration
<1>2. IsText(Configuration(c)) /\ Reached(p, y)
  BY <1>1, StartIs DEF Takes
<1>3. IsParser(p)
  BY <1>2, StartIs, RunKeeps
<1>4. PICK ch, n : p = At("end", <<>>, Append(<<>>, Doc(c)), ch, n)
  BY <1>2, ReachedIs
<1>5. p.error = "none" /\ p.expects = "end" /\ p.stack = Append(<<>>, Doc(c))
  BY <1>4 DEF At
<1> QED
  BY <1>3, <1>5

\* A text that goes on after it is refused, but for white space.
LEMMA ParseLonger ==
  ASSUME TestOK, NEW c \in Clients, NEW u, IsText(u)
  PROVE  \/ /\ \A i \in 1..Len(u) : u[i] = Break
            /\ ParseStream(Configuration(c) \o u) = Doc(c)
         \/ ParseStream(Configuration(c) \o u) = Null
<1> DEFINE conf == Configuration(c)
           p == Run(Start, conf)
           r == Run(Start, conf \o u)
<1>1. IsParser(p) /\ p.error = "none" /\ p.expects = "end" /\ p.stack = Append(<<>>, Doc(c))
  BY RunConfiguration
<1>2. IsSeq(conf) /\ IsSeq(u)
  BY ConfigurationEnds DEF IsText
<1> HIDE DEF conf
<1>3. r = Run(p, u)
  BY <1>2, RunConcat
<1>4. ParseStream(conf \o u) = IF Step(r, EOF).error = "none" THEN Head(Step(r, EOF).stack) ELSE Null
  BY DEF ParseStream, Parse
<1> HIDE DEF p, r
<1>5. CASE r.error # "none"
  <2>1. Step(r, EOF) = r
    BY <1>5 DEF Step
  <2> QED
    BY <1>4, <1>5, <2>1 DEF conf
<1>6. CASE r = p /\ \A i \in 1..Len(u) : u[i] = Break
  <2>1. EOF # Break
    BY DEF EOF, Break
  <2>2. Step(p, EOF) = p
    BY <1>1, <2>1 DEF Step, InNumber, Scan, SkipsWhitespace, ParseEnd
  <2>3. Head(Append(<<>>, Doc(c))) = Doc(c)
    <3> DEFINE d == Doc(c)
    <3> HIDE DEF d
    <3>1. Head(Append(<<>>, d)) = d
      OBVIOUS
    <3> QED
      BY <3>1 DEF d
  <2> QED
    BY <1>1, <1>4, <1>6, <2>2, <2>3 DEF conf
<1> QED
  BY <1>1, <1>3, <1>5, <1>6, RunAfterEnd

\* A configuration that is cut short is refused.
LEMMA ParseShorter ==
  ASSUME TestOK, NEW c \in Clients, NEW n \in Nat, n < Len(Configuration(c))
  PROVE  ParseStream(SubSeq(Configuration(c), 1, n)) = Null
<1> DEFINE conf == Configuration(c)
           m == Len(conf)
           a == SubSeq(conf, 1, n)
           b == SubSeq(conf, n + 1, m)
           q == Run(Start, a)
<1>1. /\ IsText(conf) /\ IsSeq(conf) /\ m \in Nat \ {0} /\ conf[m] = RightBrace
      /\ \A i \in 1..m : conf[i] # EOF
  BY ConfigurationEnds DEF IsText
<1>2. Run(Start, conf).error = "none"
  BY RunConfiguration
<1>3. n \in 0..Len(conf) /\ n < m
  BY <1>1
<1> HIDE DEF conf
<1>4. /\ IsSeq(a) /\ IsSeq(b) /\ Len(a) = n /\ Len(b) = m - n /\ conf = a \o b
  BY <1>1, <1>3, SplitIs
<1>5. /\ \A i \in 1..Len(a) : conf[i] = a[i]
      /\ \A i \in 1..Len(b) : conf[Len(a) + i] = b[i]
  <2> HIDE DEF a, b
  <2>1. IsSeq(a) /\ IsSeq(b)
    BY <1>4
  <2>2. \A i \in 1..Len(a) : (a \o b)[i] = a[i]
    BY <2>1, ConcatIs
  <2>3. \A i \in 1..Len(b) : (a \o b)[Len(a) + i] = b[i]
    BY <2>1, ConcatIs
  <2> QED
    BY <1>4, <2>2, <2>3
<1> HIDE DEF a, b
<1>6. IsText(a) /\ IsText(b)
  <2>1. ASSUME NEW i \in 1..Len(a) PROVE a[i] # EOF
    <3>1. i \in 1..m
      BY <1>1, <1>3, <1>4
    <3> QED
      BY <1>1, <1>5, <3>1
  <2>2. ASSUME NEW i \in 1..Len(b) PROVE b[i] # EOF
    <3>1. Len(a) + i \in 1..m
      BY <1>1, <1>3, <1>4
    <3> QED
      BY <1>1, <1>5, <3>1
  <2> QED
    BY <1>4, <2>1, <2>2 DEF IsText
<1>7. IsParser(q)
  BY <1>6, StartIs, RunKeeps
<1>8. Run(Start, conf) = Run(q, b)
  BY <1>4, RunConcat
<1> DEFINE k == m - n - 1
           front == SubSeq(b, 1, k)
<1>9. k \in Nat /\ k + 1 <= Len(b) /\ k + 1 = Len(b) /\ b[k + 1] = RightBrace
  <2>1. k \in Nat /\ k + 1 = Len(b) /\ Len(a) + (k + 1) = m /\ k + 1 \in 1..Len(b)
    <3>1. m \in Nat /\ n \in Nat /\ n < m /\ Len(a) = n /\ Len(b) = m - n
      BY <1>1, <1>3, <1>4
    <3> HIDE DEF m
    <3> QED
      BY <3>1
  <2>2. b[k + 1] = conf[m]
    BY <1>5, <2>1
  <2> QED
    BY <1>1, <2>1, <2>2
<1> HIDE DEF k, q
<1>10. Run(q, b) = Step(Run(q, front), RightBrace)
  <2>1. Run(q, SubSeq(b, 1, k + 1)) = Step(Run(q, SubSeq(b, 1, k)), b[k + 1])
    BY <1>4, <1>9, RunNext
  <2>2. SubSeq(b, 1, Len(b)) = b
    BY <1>4, PrefixIs
  <2> QED
    BY <1>9, <2>1, <2>2
<1>11. IsText(front)
  <2>1. k \in 0..Len(b)
    BY <1>4, <1>9, SeqIs
  <2>2. IsSeq(front) /\ Len(front) = k
    BY <1>4, <2>1, SplitIs
  <2>3. \A i \in 1..k : front[i] = b[i]
    BY <1>4, <2>1, SubSeqIs
  <2> HIDE DEF front
  <2>4. \A i \in 1..k : i \in 1..Len(b)
    BY <2>1, <1>9
  <2> QED
    BY <1>6, <2>2, <2>3, <2>4 DEF IsText
<1> HIDE DEF front
<1>12. ~Done(q)
  <2> SUFFICES ASSUME Done(q) PROVE FALSE
    OBVIOUS
  <2>1. IsParser(Run(q, front)) /\ Done(Run(q, front))
    BY <1>7, <1>11, RunKeeps
  <2>2. Step(Run(q, front), RightBrace).error # "none"
    BY <2>1, StepDone, DigitsAreDigits
  <2> QED
    BY <1>2, <1>8, <1>10, <2>2
<1>13. Step(q, EOF).error # "none"
  BY <1>7, <1>12, EofFails
<1>14. ParseStream(a) = Null
  BY <1>13 DEF ParseStream, Parse, q
<1> QED
  BY <1>14 DEF a, conf

---------------------------------------------------------------------------
(* What the program finds in the document of a configuration. *)

LEMMA MemberIs ==
  ASSUME NEW k \in Nat, NEW f, DOMAIN f = 1..k, NEW j \in 1..k, NEW name, f[j].name = <<name>>,
         \A i \in 1..(j - 1) : f[i].name # <<name>>
  PROVE  HasMember(Object(f), name) /\ Member(Object(f), name) = f[j].value
<1>1. Object(f).type = "object" /\ Object(f).value = f
  BY DEF Object
<1> DEFINE Is(i) == i \in 1..k /\ f[i].name = <<name>> /\ \A m \in 1..(i - 1) : f[m].name # <<name>>
           n == CHOOSE i \in 1..k : f[i].name = <<name>> /\ \A m \in 1..(i - 1) : f[m].name # <<name>>
<1>2. Is(n)
  OBVIOUS
<1>3. n \in 1..k /\ f[n].name = <<name>> /\ \A m \in 1..(n - 1) : f[m].name # <<name>>
  BY <1>2
<1>4. Member(Object(f), name) = f[n].value
  BY <1>1 DEF Member
<1> HIDE DEF n
<1>5. n = j
  <2>1. CASE n < j
    BY <1>3, <2>1
  <2>2. CASE j < n
    BY <1>3, <2>2
  <2> QED
    BY <1>3, <2>1, <2>2
<1>6. HasMember(Object(f), name)
  BY <1>1 DEF HasMember
<1> QED
  BY <1>4, <1>5, <1>6

LEMMA NamesDiffer ==
  ASSUME NEW a, NEW b, a # b
  PROVE  <<a>> # <<b>>
<1>1. <<a>>[1] = a /\ <<b>>[1] = b
  OBVIOUS
<1> QED
  BY <1>1

\* The entries of an object.
LEMMA EntryIs ==
  ASSUME NEW k \in Nat, NEW raw, NEW i \in 1..k
  PROVE  /\ DOMAIN ObjectOf(k, raw).value = 1..k
         /\ ObjectOf(k, raw) = Object(ObjectOf(k, raw).value)
         /\ ObjectOf(k, raw).value[i].name = raw[2 * i - 1].value
         /\ ObjectOf(k, raw).value[i].value = raw[2 * i]
BY DEF ObjectOf, Object

LEMMA TailIs ==
  ASSUME NEW c, NEW s, IsSeq(s)
  PROVE  Tail(<<c>> \o s) = s
<1> DEFINE a == <<c>>
           t == a \o s
           u == Tail(t)
<1>1. IsSeq(a) /\ Len(a) = 1 /\ Len(s) \in Nat
  BY RunOne, SeqIs
<1> HIDE DEF a
<1>2. IsSeq(a) /\ IsSeq(s)
  BY <1>1
<1>3. IsSeq(t)
  BY <1>2, ConcatIs
<1>4. Len(t) = Len(a) + Len(s)
  BY <1>2, ConcatIs
<1>5. \A i \in 1..Len(s) : t[Len(a) + i] = s[i]
  BY <1>2, ConcatIs
<1>6. PICK V : t \in Seq(V)
  BY <1>3 DEF IsSeq
<1> HIDE DEF t
<1>7. t # <<>>
  BY <1>1, <1>4
<1>8. u \in Seq(V) /\ Len(u) = Len(t) - 1 /\ \A i \in 1..Len(u) : u[i] = t[i + 1]
  BY <1>6, <1>7, HeadTailProperties
<1> HIDE DEF u
<1>9. Len(u) = Len(s)
  BY <1>1, <1>4, <1>8
<1>10. ASSUME NEW i \in 1..Len(u) PROVE u[i] = s[i]
  <2>1. i + 1 = 1 + i
    OBVIOUS
  <2> QED
    BY <1>1, <1>5, <1>8, <1>9, <2>1
<1>11. IsSeq(u)
  BY <1>8 DEF IsSeq
<1>12. u = s
  BY <1>9, <1>10, <1>11, SameSeq
<1> QED
  BY <1>12 DEF t, a, u

LEMMA IpRead ==
  ASSUME NEW host \in 0..255
  PROVE  InetPton(String(IpChars(host))) = host
<1> DEFINE d == Decimal[host]
<1>1. host \in 0..MaxPort
  BY MaxPortIs
<1>2. IsSeq(d)
  BY IpLetters
<1>3. NumberOf(d) = host
  BY <1>1, NumberOfDecimal
<1>4. IpChars(host) = <<"net.">> \o d
  BY DEF IpChars
<1>5. String(IpChars(host)).value = IpChars(host)
  BY DEF String
<1> HIDE DEF d
<1>6. Tail(<<"net.">> \o d) = d
  BY <1>2, TailIs
<1> QED
  BY <1>3, <1>4, <1>5, <1>6 DEF InetPton

LEMMA ServerDocIs ==
  ASSUME NEW sv, ServerOK(sv)
  PROVE  /\ HasMember(ServerDoc(sv), "ip") /\ Member(ServerDoc(sv), "ip").type = "string"
         /\ HasMember(ServerDoc(sv), "port") /\ Member(ServerDoc(sv), "port").type = "number"
         /\ InetPton(Member(ServerDoc(sv), "ip")) = sv.host
         /\ Member(ServerDoc(sv), "port").value = PortOf(sv)
<1> DEFINE raw == ServerRaw(sv)
           f == ObjectOf(2, raw).value
           ip == String(IpChars(sv.host))
           port == Uint(PortOf(sv))
<1>1. raw[1] = String(<<"ip">>) /\ raw[2] = ip /\ raw[3] = String(<<"port">>) /\ raw[4] = port
  BY PushedIs DEF ServerRaw
<1> HIDE DEF raw
<1>2. /\ DOMAIN f = 1..2 /\ ObjectOf(2, raw) = Object(f)
      /\ f[1].name = raw[2 * 1 - 1].value /\ f[1].value = raw[2 * 1]
      /\ f[2].name = raw[2 * 2 - 1].value /\ f[2].value = raw[2 * 2]
  BY EntryIs
<1>3. f[1].name = <<"ip">> /\ f[1].value = ip /\ f[2].name = <<"port">> /\ f[2].value = port
  BY <1>1, <1>2 DEF String
<1> HIDE DEF f
<1>4. <<"ip">> # <<"port">>
  BY NamesDiffer
<1>5. HasMember(Object(f), "ip") /\ Member(Object(f), "ip") = ip
  <2>1. 2 \in Nat /\ 1 \in 1..2 /\ \A i \in 1..(1 - 1) : f[i].name # <<"ip">>
    OBVIOUS
  <2> QED
    BY <1>2, <1>3, <2>1, MemberIs
<1>6. HasMember(Object(f), "port") /\ Member(Object(f), "port") = port
  <2>1. 2 \in Nat /\ 2 \in 1..2 /\ \A i \in 1..(2 - 1) : f[i].name # <<"port">>
    BY <1>3, <1>4
  <2> QED
    BY <1>2, <1>3, <2>1, MemberIs
<1>7. ServerDoc(sv) = Object(f)
  BY <1>2 DEF ServerDoc, raw
<1>8. ip.type = "string" /\ port.type = "number" /\ port.value = PortOf(sv)
  BY DEF String, Uint
<1>9. InetPton(ip) = sv.host
  BY IpRead DEF ServerOK
<1> HIDE DEF ip, port
<1> QED
  BY <1>5, <1>6, <1>7, <1>8, <1>9

LEMMA DocIs ==
  ASSUME NEW c \in Clients
  PROVE  /\ \A name \in {"tcp_mode", "udp_mode", "client_ip", "servers"} : HasMember(Doc(c), name)
         /\ Member(Doc(c), "tcp_mode") = Bool(ut2Mode = "TCP")
         /\ Member(Doc(c), "udp_mode") = Bool(ut2Mode = "UDP")
         /\ Member(Doc(c), "client_ip") = String(IpChars(hosts[c]))
         /\ Member(Doc(c), "servers") = Array(ServerDocs(Len(servers)))
<1> DEFINE a == Modes
           b == Addresses(c)
           raw == a \o b
           f == ObjectOf(4, raw).value
           n1 == "tcp_mode"
           n2 == "udp_mode"
           n3 == "client_ip"
           n4 == "servers"
           v1 == Bool(ut2Mode = "TCP")
           v2 == Bool(ut2Mode = "UDP")
           v3 == String(IpChars(hosts[c]))
           v4 == Array(ServerDocs(Len(servers)))
<1>1. /\ IsSeq(a) /\ Len(a) = 4
      /\ a[1] = String(<<n1>>) /\ a[2] = v1 /\ a[3] = String(<<n2>>) /\ a[4] = v2
  BY PushedIs DEF Modes
<1>2. /\ IsSeq(b) /\ Len(b) = 4
      /\ b[1] = String(<<n3>>) /\ b[2] = v3 /\ b[3] = String(<<n4>>) /\ b[4] = v4
  BY PushedIs DEF Addresses
<1>3. Doc(c) = ObjectOf(4, raw)
  BY DEF Doc
<1>4. n1 # n2 /\ n1 # n3 /\ n1 # n4 /\ n2 # n3 /\ n2 # n4 /\ n3 # n4
  OBVIOUS
<1> HIDE DEF a, b, n1, n2, n3, n4, v1, v2, v3, v4
<1>5. IsSeq(a) /\ IsSeq(b)
  BY <1>1, <1>2
<1>6. \A i \in 1..Len(a) : raw[i] = a[i]
  BY <1>5, ConcatIs
<1>7. \A i \in 1..Len(b) : raw[Len(a) + i] = b[i]
  BY <1>5, ConcatIs
<1> HIDE DEF raw
<1>8. raw[1] = a[1] /\ raw[2] = a[2] /\ raw[3] = a[3] /\ raw[4] = a[4]
  BY <1>1, <1>6
<1>9. raw[4 + 1] = b[1] /\ raw[4 + 2] = b[2] /\ raw[4 + 3] = b[3] /\ raw[4 + 4] = b[4]
  BY <1>1, <1>2, <1>7
<1>10. /\ DOMAIN f = 1..4 /\ ObjectOf(4, raw) = Object(f)
       /\ \A i \in 1..4 : f[i].name = raw[2 * i - 1].value /\ f[i].value = raw[2 * i]
  BY EntryIs
<1> HIDE DEF f
<1>11. f[1].name = raw[1].value /\ f[1].value = raw[2] /\ f[2].name = raw[3].value /\ f[2].value = raw[4]
  BY <1>10
<1>12. f[3].name = raw[5].value /\ f[3].value = raw[6] /\ f[4].name = raw[7].value /\ f[4].value = raw[8]
  BY <1>10
<1>13. \A x : String(x).value = x
  BY DEF String
<1>14. f[1].name = <<n1>> /\ f[1].value = v1 /\ f[2].name = <<n2>> /\ f[2].value = v2
  BY <1>1, <1>8, <1>11, <1>13
<1>15. f[3].name = <<n3>> /\ f[3].value = v3 /\ f[4].name = <<n4>> /\ f[4].value = v4
  BY <1>2, <1>9, <1>12, <1>13
<1>16. /\ <<n1>> # <<n2>> /\ <<n1>> # <<n3>> /\ <<n1>> # <<n4>>
       /\ <<n2>> # <<n3>> /\ <<n2>> # <<n4>> /\ <<n3>> # <<n4>>
  BY <1>4, NamesDiffer
<1>17. HasMember(Object(f), n1) /\ Member(Object(f), n1) = v1
  <2>1. \A i \in 1..(1 - 1) : f[i].name # <<n1>>
    BY <1>14
  <2>2. 4 \in Nat /\ 1 \in 1..4 /\ DOMAIN f = 1..4 /\ f[1].name = <<n1>> /\ f[1].value = v1
    BY <1>10, <1>14
  <2>3. HasMember(Object(f), n1)
    BY <2>1, <2>2, MemberIs
  <2>4. Member(Object(f), n1) = f[1].value
    BY <2>1, <2>2, MemberIs
  <2> QED
    BY <2>2, <2>3, <2>4
<1>18. HasMember(Object(f), n2) /\ Member(Object(f), n2) = v2
  <2>1. \A i \in 1..(2 - 1) : f[i].name # <<n2>>
    BY <1>14, <1>16
  <2>2. 4 \in Nat /\ 2 \in 1..4 /\ DOMAIN f = 1..4 /\ f[2].name = <<n2>> /\ f[2].value = v2
    BY <1>10, <1>14
  <2>3. HasMember(Object(f), n2)
    BY <2>1, <2>2, MemberIs
  <2>4. Member(Object(f), n2) = f[2].value
    BY <2>1, <2>2, MemberIs
  <2> QED
    BY <2>2, <2>3, <2>4
<1>19. HasMember(Object(f), n3) /\ Member(Object(f), n3) = v3
  <2>1. \A i \in 1..(3 - 1) : f[i].name # <<n3>>
    BY <1>14, <1>16
  <2>2. 4 \in Nat /\ 3 \in 1..4 /\ DOMAIN f = 1..4 /\ f[3].name = <<n3>> /\ f[3].value = v3
    BY <1>10, <1>15
  <2>3. HasMember(Object(f), n3)
    BY <2>1, <2>2, MemberIs
  <2>4. Member(Object(f), n3) = f[3].value
    BY <2>1, <2>2, MemberIs
  <2> QED
    BY <2>2, <2>3, <2>4
<1>20. HasMember(Object(f), n4) /\ Member(Object(f), n4) = v4
  <2>1. \A i \in 1..(4 - 1) : f[i].name # <<n4>>
    BY <1>14, <1>15, <1>16
  <2>2. 4 \in Nat /\ 4 \in 1..4 /\ DOMAIN f = 1..4 /\ f[4].name = <<n4>> /\ f[4].value = v4
    BY <1>10, <1>15
  <2>3. HasMember(Object(f), n4)
    BY <2>1, <2>2, MemberIs
  <2>4. Member(Object(f), n4) = f[4].value
    BY <2>1, <2>2, MemberIs
  <2> QED
    BY <2>2, <2>3, <2>4
<1>21. Doc(c) = Object(f)
  BY <1>3, <1>10
<1> QED
  BY <1>17, <1>18, <1>19, <1>20, <1>21 DEF n1, n2, n3, n4, v1, v2, v3, v4

LEMMA DocsAt ==
  ASSUME NEW i \in 1..Len(servers)
  PROVE  ServerDocs(Len(servers))[i] = ServerDoc(servers[i])
BY DEF ServerDocs

LEMMA DocComplete ==
  ASSUME TestOK, NEW c \in Clients
  PROVE  Complete(Doc(c))
<1> DEFINE docs == ServerDocs(Len(servers))
<1>1. \A name \in {"tcp_mode", "udp_mode", "client_ip", "servers"} : HasMember(Doc(c), name)
  BY DocIs
<1>2. \A name \in {"tcp_mode", "udp_mode"} : Member(Doc(c), name).type = "bool"
  BY DocIs DEF Bool
<1>3. Member(Doc(c), "client_ip").type = "string"
  BY DocIs DEF String
<1>4. Member(Doc(c), "servers").type = "array" /\ Member(Doc(c), "servers").value = docs
  BY DocIs DEF Array
<1>5. ASSUME NEW s \in Range(docs)
      PROVE  /\ HasMember(s, "ip") /\ Member(s, "ip").type = "string"
             /\ HasMember(s, "port") /\ Member(s, "port").type = "number"
  <2>1. PICK i \in 1..Len(servers) : s = docs[i]
    BY <1>5 DEF Range, ServerDocs
  <2>2. s = ServerDoc(servers[i])
    BY <2>1, DocsAt
  <2>3. ServerOK(servers[i])
    BY DEF TestOK, ServersOK
  <2> QED
    BY <2>2, <2>3, ServerDocIs
<1> HIDE DEF docs
<1> QED
  BY <1>1, <1>2, <1>3, <1>4, <1>5 DEF Complete

LEMMA DocAgrees ==
  ASSUME TestOK, NEW c \in Clients, NEW junk
  PROVE  Agrees(PoolOf(Doc(c), junk), c) /\ PoolOf(Doc(c), junk).bind = hosts[c]
<1> DEFINE M == Len(servers)
           docs == ServerDocs(M)
           tcp == ut2Mode = "TCP"
           udp == ut2Mode = "UDP"
           P == PoolOf(Doc(c), junk)
           H == [i \in DOMAIN docs |-> ServerAddr(docs[i], tcp, junk)]
<1>1. /\ Member(Doc(c), "tcp_mode").value = tcp
      /\ Member(Doc(c), "udp_mode").value = udp
      /\ Member(Doc(c), "servers").value = docs
  BY DocIs DEF Bool, Array
<1>2. InetPton(Member(Doc(c), "client_ip")) = hosts[c]
  BY DocIs, IpRead DEF TestOK
<1>3. P = [tcp |-> tcp, udp |-> udp, bind |-> hosts[c], hosts |-> H]
  <2> HIDE DEF docs, tcp, udp
  <2> QED
    BY <1>1, <1>2, Zenon DEF PoolOf
<1>4. M \in Nat /\ DOMAIN servers = 1..M /\ DOMAIN docs = 1..M
  BY SeqIs DEF TestOK, ServersOK, ServerDocs
<1>5. ASSUME NEW i \in 1..M
      PROVE  /\ H[i].host = servers[i].host
             /\ tcp => H[i].port_tcp = servers[i].tcpPort
             /\ udp => H[i].port_udp = servers[i].udpPort
  <2> DEFINE sv == servers[i]
  <2>1. ServerOK(sv)
    BY DEF TestOK, ServersOK
  <2>2. docs[i] = ServerDoc(sv)
    BY DocsAt
  <2>3. H[i] = ServerAddr(ServerDoc(sv), tcp, junk)
    <3> HIDE DEF docs, tcp, sv
    <3> QED
      BY <1>4, <2>2
  <2>4. InetPton(Member(ServerDoc(sv), "ip")) = sv.host /\ Member(ServerDoc(sv), "port").value = PortOf(sv)
    BY <2>1, ServerDocIs
  <2> HIDE DEF H
  <2>5. /\ H[i].host = sv.host
        /\ tcp => H[i].port_tcp = PortOf(sv)
        /\ ~tcp => H[i].port_udp = PortOf(sv)
    <3> HIDE DEF tcp, sv
    <3> QED
      BY <2>3, <2>4 DEF ServerAddr
  <2>6. (tcp => ~udp) /\ (tcp => PortOf(sv) = sv.tcpPort) /\ (udp => PortOf(sv) = sv.udpPort)
    BY DEF PortOf
  <2> HIDE DEF tcp, udp, sv
  <2> QED
    BY <2>5, <2>6 DEF sv
<1>6. Len(H) = M
  <2>1. DOMAIN H = 1..M
    BY <1>4
  <2> HIDE DEF H
  <2> QED
    BY <1>4, <2>1
<1> HIDE DEF H, tcp, udp, docs, P
<1>7. P.bind = hosts[c] /\ P.tcp = tcp /\ P.udp = udp /\ P.hosts = H
  BY <1>3
<1> QED
  BY <1>4, <1>5, <1>6, <1>7 DEF Agrees, P, tcp, udp

---------------------------------------------------------------------------
(* The inductive invariant. *)

TestTypes ==
  /\ ut2Mode \in {"TCP", "UDP"}
  /\ hosts \in [Clients -> ClientHosts]
  /\ servers \in [1..NServers -> Server]
  /\ \A i \in 1..NServers : PortOf(servers[i]) \in Ports

Types ==
  /\ javaPc \in {"new", "opened", "written", "sleep", "done", "failed"}
  /\ current \in Clients
  /\ clientPc \in [Clients -> {"none", "started", "read", "parse", "configured", "aborted"}]
  /\ DOMAIN text = Clients /\ DOMAIN pool = Clients
  /\ late \subseteq Clients

\* Which clients runTest has started.
StartedInv ==
  \A c \in Clients :
    /\ clientPc[c] # "none" => /\ c <= current
                               /\ javaPc \in {"new", "opened", "written"} => c < current
    /\ clientPc[c] \in {"none", "started"} => text[c] = <<>>

\* What the file holds.  After a failure it may be one configuration, that
\* no client was started after, or the beginning of one.
CutShort(t) ==
  \E d \in Clients : \E n \in 0..(Len(Configuration(d)) - 1) : t = SubSeq(Configuration(d), 1, n)

Whole(d) == file = Configuration(d) /\ d <= current /\ \A c \in Clients : clientPc[c] # "none" => c <= d

FileInv ==
  /\ javaPc = "new" => file = <<>> \/ \E d \in Clients : Whole(d)
  /\ javaPc = "opened" => file = <<>>
  /\ javaPc \in {"written", "sleep", "done"} => file = Configuration(current)
  /\ javaPc = "failed" => CutShort(file) \/ \E d \in Clients : Whole(d)

\* What a client has read: nothing, a whole configuration and perhaps more,
\* or all that there will ever be of a configuration that is cut short.
TextIs(c) ==
  \/ text[c] = <<>>
  \/ \E d \in c..current : IsPrefix(Configuration(d), text[c])
  \/ javaPc = "failed" /\ text[c] = file /\ CutShort(file)

TextInv == \A c \in Clients : IsText(text[c]) /\ TextIs(c)

\* A client that is in time sees its own configuration only.
OwnInv ==
  \A c \in Clients \ late :
    /\ clientPc[c] \in {"started", "read"} => /\ file = Configuration(c)
                                              /\ text[c] \in {<<>>, Configuration(c)}
    /\ clientPc[c] = "parse" => text[c] = Configuration(c)
    /\ clientPc[c] # "aborted"

PoolIs(c) ==
  /\ \E d \in c..current :
       /\ Agrees(pool[c], d) /\ IsPrefix(Configuration(d), text[c])
       /\ \A i \in (Len(Configuration(d)) + 1)..Len(text[c]) : text[c][i] = Break
  /\ c \notin late => Agrees(pool[c], c)

PoolInv ==
  \A c \in Clients : IF clientPc[c] = "configured" THEN PoolIs(c) ELSE pool[c] = NoPool

IndInv == TestTypes /\ Types /\ StartedInv /\ FileInv /\ TextInv /\ OwnInv /\ PoolInv

LEMMA TestIsOK ==
  ASSUME TestTypes
  PROVE  /\ TestOK
         /\ NServers \in Nat /\ Len(servers) = NServers /\ DOMAIN servers = 1..NServers
<1>1. NServers \in Nat
  BY ConfigurationAssumption, FS_CardinalityType DEF NServers
<1>2. servers \in Seq(Server) /\ Len(servers) = NServers /\ DOMAIN servers = 1..NServers
  BY <1>1 DEF TestTypes
<1>3. ASSUME NEW i \in 1..Len(servers) PROVE ServerOK(servers[i])
  <2>1. servers[i] \in Server /\ PortOf(servers[i]) \in Ports
    BY <1>2, <1>3 DEF TestTypes
  <2>2. servers[i].host \in 0..255
    BY <2>1, ConfigurationAssumption DEF Server
  <2>3. PortOf(servers[i]) \in 1..MaxPort
    BY <2>1, ConfigurationAssumption
  <2> QED
    BY <2>2, <2>3 DEF ServerOK
<1>4. ASSUME NEW d \in Clients PROVE hosts[d] \in 0..255
  BY ConfigurationAssumption DEF TestTypes
<1> QED
  BY <1>1, <1>2, <1>3, <1>4 DEF TestOK, ServersOK, IsSeq

LEMMA ConfigurationSame ==
  ASSUME UNCHANGED testVars
  PROVE  \A d : Configuration(d)' = Configuration(d)
<1>1. ut2Mode' = ut2Mode /\ hosts' = hosts /\ servers' = servers
  BY DEF testVars
<1>2. ASSUME NEW i PROVE Listed(i)' = Listed(i)
  BY <1>1 DEF Listed, ServerParam
<1>3. [i \in DOMAIN servers |-> Listed(i)]' = [i \in DOMAIN servers |-> Listed(i)]
  BY <1>1, <1>2
<1> QED
  BY <1>1, <1>3 DEF Configuration

\* What a text starts with, and what comes after.
LEMMA PrefixSplit ==
  ASSUME NEW s, NEW t, IsSeq(s), IsText(t), IsPrefix(s, t)
  PROVE  \E u : /\ IsText(u) /\ t = s \o u /\ Len(t) = Len(s) + Len(u)
                /\ \A i \in 1..Len(u) : t[Len(s) + i] = u[i]
<1> DEFINE L == Len(s)
           a == SubSeq(t, 1, L)
           u == SubSeq(t, L + 1, Len(t))
<1>1. IsSeq(t) /\ Len(t) \in Nat /\ L \in Nat /\ L <= Len(t) /\ \A i \in 1..Len(t) : t[i] # EOF
  BY SeqIs DEF IsText, IsPrefix
<1>2. L \in 0..Len(t)
  BY <1>1
<1>3. IsSeq(a) /\ IsSeq(u) /\ Len(u) = Len(t) - L /\ t = a \o u
  BY <1>1, <1>2, SplitIs
<1>4. a = s
  <2>1. SubSeq(s, 1, L) = s
    BY PrefixIs
  <2> QED
    BY <2>1 DEF IsPrefix
<1> HIDE DEF u, a
<1>5. t = s \o u
  BY <1>3, <1>4
<1>6. IsSeq(s) /\ IsSeq(u)
  BY <1>3
<1>7. \A i \in 1..Len(u) : (s \o u)[Len(s) + i] = u[i]
  BY <1>6, ConcatIs
<1>8. ASSUME NEW i \in 1..Len(u) PROVE u[i] # EOF
  <2>1. L + i \in 1..Len(t)
    BY <1>1, <1>3
  <2> QED
    BY <1>1, <1>5, <1>7, <2>1
<1>9. IsText(u)
  BY <1>3, <1>8 DEF IsText
<1> QED
  BY <1>1, <1>3, <1>5, <1>7, <1>9

LEMMA PrefixConcat ==
  ASSUME NEW s, NEW t, NEW u, IsSeq(s), IsSeq(t), IsSeq(u), IsPrefix(s, t)
  PROVE  IsPrefix(s, t \o u)
<1> DEFINE L == Len(s)
           tu == t \o u
<1>1. L \in Nat /\ Len(t) \in Nat /\ Len(u) \in Nat /\ L <= Len(t)
  BY SeqIs DEF IsPrefix
<1>2. Len(tu) = Len(t) + Len(u)
  BY ConcatIs
<1>3. IsSeq(tu)
  BY ConcatIs
<1>4. \A i \in 1..Len(t) : tu[i] = t[i]
  BY ConcatIs
<1> HIDE DEF tu
<1> DEFINE a == SubSeq(t, 1, L)
           b == SubSeq(tu, 1, L)
<1>5. 1 \in Nat \ {0} /\ L <= Len(t) /\ 1 <= L + 1 /\ L <= Len(tu)
  BY <1>1, <1>2
<1>6. IsSeq(a) /\ Len(a) = L - 1 + 1 /\ \A i \in 1..(L - 1 + 1) : a[i] = t[1 + i - 1]
  BY <1>1, <1>5, SubSeqIs
<1>7. IsSeq(b) /\ Len(b) = L - 1 + 1 /\ \A i \in 1..(L - 1 + 1) : b[i] = tu[1 + i - 1]
  BY <1>1, <1>3, <1>5, SubSeqIs
<1> HIDE DEF a, b
<1>8. ASSUME NEW i \in 1..Len(a) PROVE a[i] = b[i]
  <2>1. i \in 1..(L - 1 + 1) /\ 1 + i - 1 = i /\ i \in 1..Len(t)
    BY <1>1, <1>6
  <2> QED
    BY <1>4, <1>6, <1>7, <2>1
<1>9. a = b
  BY <1>6, <1>7, <1>8, SameSeq
<1> QED
  BY <1>5, <1>9 DEF IsPrefix, a, b

LEMMA PrefixSelf ==
  ASSUME NEW s, IsSeq(s)
  PROVE  IsPrefix(s, s)
BY SeqIs DEF IsPrefix

LEMMA PrefixText ==
  ASSUME NEW t, IsText(t), NEW n \in 0..Len(t)
  PROVE  IsText(SubSeq(t, 1, n))
<1> DEFINE a == SubSeq(t, 1, n)
<1>1. IsSeq(t) /\ Len(t) \in Nat /\ \A i \in 1..Len(t) : t[i] # EOF
  BY SeqIs DEF IsText
<1>2. 1 \in Nat \ {0} /\ n \in Nat /\ n <= Len(t) /\ 1 <= n + 1
  BY <1>1
<1>3. IsSeq(a) /\ Len(a) = n - 1 + 1 /\ \A i \in 1..(n - 1 + 1) : a[i] = t[1 + i - 1]
  BY <1>1, <1>2, SubSeqIs
<1> HIDE DEF a
<1>4. ASSUME NEW i \in 1..Len(a) PROVE a[i] # EOF
  <2>1. i \in 1..(n - 1 + 1) /\ 1 + i - 1 = i /\ i \in 1..Len(t)
    BY <1>1, <1>2, <1>3
  <2> QED
    BY <1>1, <1>3, <2>1
<1> QED
  BY <1>3, <1>4 DEF IsText, a

\* Only a text that starts with a whole configuration, and has nothing but
\* white space after it, is one that the program accepts.
LEMMA NullIncomplete == ~Complete(Null)
BY DEF Complete, HasMember, Null

LEMMA AcceptedPrefix ==
  ASSUME TestOK, NEW d \in Clients, NEW t, IsText(t), IsPrefix(Configuration(d), t),
         Complete(ParseStream(t))
  PROVE  /\ ParseStream(t) = Doc(d)
         /\ \A i \in (Len(Configuration(d)) + 1)..Len(t) : t[i] = Break
<1> DEFINE conf == Configuration(d)
<1>1. IsSeq(conf) /\ Len(conf) \in Nat
  BY ConfigurationEnds DEF IsText
<1>2. PICK u : /\ IsText(u) /\ t = conf \o u /\ Len(t) = Len(conf) + Len(u)
               /\ \A i \in 1..Len(u) : t[Len(conf) + i] = u[i]
  BY <1>1, PrefixSplit
<1>3. \/ (\A i \in 1..Len(u) : u[i] = Break) /\ ParseStream(conf \o u) = Doc(d)
      \/ ParseStream(conf \o u) = Null
  BY <1>2, ParseLonger
<1>4. (\A i \in 1..Len(u) : u[i] = Break) /\ ParseStream(t) = Doc(d)
  BY <1>2, <1>3, NullIncomplete
<1>5. Len(u) \in Nat
  BY <1>2, SeqIs DEF IsText
<1> HIDE DEF conf
<1>6. ASSUME NEW i \in (Len(conf) + 1)..Len(t) PROVE t[i] = Break
  <2>1. i - Len(conf) \in 1..Len(u) /\ Len(conf) + (i - Len(conf)) = i
    BY <1>1, <1>2, <1>5
  <2> QED
    BY <1>2, <1>4, <2>1
<1> QED
  BY <1>4, <1>6 DEF conf

LEMMA RefusedCut ==
  ASSUME TestOK, NEW t, t = <<>> \/ CutShort(t)
  PROVE  ~Complete(ParseStream(t))
<1>1. CASE CutShort(t)
  <2>1. PICK d \in Clients : \E n \in 0..(Len(Configuration(d)) - 1) : t = SubSeq(Configuration(d), 1, n)
    BY <1>1 DEF CutShort
  <2>2. PICK n \in 0..(Len(Configuration(d)) - 1) : t = SubSeq(Configuration(d), 1, n)
    BY <2>1
  <2>3. Len(Configuration(d)) \in Nat \ {0}
    BY ConfigurationEnds
  <2>4. n \in Nat /\ n < Len(Configuration(d))
    BY <2>2, <2>3
  <2>5. ParseStream(t) = Null
    BY <2>2, <2>4, ParseShorter
  <2> QED
    BY <2>5, NullIncomplete
<1>2. CASE t = <<>>
  <2>1. Run(Start, t) = Start
    BY <1>2, RunEmpty
  <2>2. ~Done(Start) /\ IsParser(Start)
    BY StartIs DEF Done, Start
  <2>3. Step(Start, EOF).error # "none"
    BY <2>2, EofFails
  <2>4. ParseStream(t) = Null
    BY <2>1, <2>3 DEF ParseStream, Parse
  <2> QED
    BY <2>4, NullIncomplete
<1> QED
  BY <1>1, <1>2

\* The configuration itself is accepted.
LEMMA AcceptedWhole ==
  ASSUME TestOK, NEW c \in Clients
  PROVE  Complete(ParseStream(Configuration(c))) /\ ParseStream(Configuration(c)) = Doc(c)
<1> DEFINE p == Run(Start, Configuration(c))
<1>4. p.error = "none" /\ p.expects = "end" /\ p.stack = Append(<<>>, Doc(c))
  BY RunConfiguration
<1> HIDE DEF p
<1>5. EOF # Break
  BY DEF EOF, Break
<1>6. Step(p, EOF) = p
  BY <1>4, <1>5 DEF Step, InNumber, Scan, SkipsWhitespace, ParseEnd
<1>7. Head(Append(<<>>, Doc(c))) = Doc(c)
  <2> DEFINE d == Doc(c)
  <2> HIDE DEF d
  <2>1. Head(Append(<<>>, d)) = d
    OBVIOUS
  <2> QED
    BY <2>1 DEF d
<1>8. ParseStream(Configuration(c)) = Doc(c)
  BY <1>4, <1>6, <1>7 DEF ParseStream, Parse, p
<1> QED
  BY <1>8, DocComplete

---------------------------------------------------------------------------
(* The invariant holds at the start. *)

LEMMA ListOfServers ==
  \A i \in 1..NServers : SetToSeq(ServerHosts)[i] \in ServerHosts
<1> DEFINE D == 1..Cardinality(ServerHosts)
           s == SetToSeq(ServerHosts)
<1>1. ExistsBijection(D, ServerHosts)
  BY ConfigurationAssumption, FS_CardinalityType
<1>2. \E f \in [D -> ServerHosts] : IsInjective(f)
  BY <1>1 DEF ExistsBijection, Bijection, Injection
<1>3. s \in [D -> ServerHosts]
  BY <1>2 DEF SetToSeq
<1> HIDE DEF s
<1> QED
  BY <1>3 DEF NServers, s

LEMMA InitInv ==
  ASSUME Init
  PROVE  IndInv
<1>0. NClients \in Nat \ {0} /\ 1 \in Clients
  BY ConfigurationAssumption DEF Clients
<1>1. TestTypes
  <2>1. ut2Mode \in {"TCP", "UDP"} /\ hosts \in [Clients -> ClientHosts]
    BY DEF Init, Injection
  <2>2. PICK port \in [1..NServers -> Ports] :
          servers = [i \in 1..NServers |-> HostOf(ut2Mode, SetToSeq(ServerHosts)[i], port[i])]
    BY DEF Init
  <2>3. ASSUME NEW i \in 1..NServers
        PROVE  HostOf(ut2Mode, SetToSeq(ServerHosts)[i], port[i]) \in Server
    <3>1. SetToSeq(ServerHosts)[i] \in ServerHosts /\ port[i] \in Ports
      BY ListOfServers
    <3> QED
      BY <3>1 DEF HostOf, Server
  <2>4. servers \in [1..NServers -> Server]
    BY <2>2, <2>3
  <2>5. ASSUME NEW i \in 1..NServers PROVE PortOf(servers[i]) \in Ports
    BY <2>1, <2>2 DEF PortOf, HostOf
  <2> QED
    BY <2>1, <2>4, <2>5 DEF TestTypes
<1>2. Types
  BY <1>0 DEF Init, Types
<1>3. StartedInv /\ FileInv /\ OwnInv /\ PoolInv
  BY DEF Init, StartedInv, FileInv, OwnInv, PoolInv
<1>4. TextInv
  <2>1. IsText(<<>>)
    BY EmptyIs DEF IsText
  <2> QED
    BY <2>1 DEF Init, TextInv, TextIs
<1> QED
  BY <1>1, <1>2, <1>3, <1>4 DEF IndInv

---------------------------------------------------------------------------
(* What the steps leave alone. *)

LEMMA TestSame ==
  ASSUME TestTypes, UNCHANGED testVars
  PROVE  TestTypes'
BY DEF TestTypes, testVars, PortOf

LEMMA CutSame ==
  ASSUME UNCHANGED testVars, file' = file
  PROVE  CutShort(file)' <=> CutShort(file)
<1>1. \A d : Configuration(d)' = Configuration(d)
  BY ConfigurationSame
<1> QED
  BY <1>1 DEF CutShort

LEMMA PoolSame ==
  ASSUME UNCHANGED testVars, NEW c \in Clients, PoolIs(c), pool'[c] = pool[c], text'[c] = text[c],
         current \in Clients, current' \in Clients, current <= current', late \subseteq late'
  PROVE  PoolIs(c)'
<1>1. \A d : Configuration(d)' = Configuration(d)
  BY ConfigurationSame
<1>2. PICK d \in c..current :
       /\ Agrees(pool[c], d) /\ IsPrefix(Configuration(d), text[c])
       /\ \A i \in (Len(Configuration(d)) + 1)..Len(text[c]) : text[c][i] = Break
  BY DEF PoolIs
<1>3. \A e : Agrees(pool[c], e) => Agrees(pool[c], e)'
  BY DEF Agrees, testVars
<1>4. d \in c..current'
  BY DEF Clients
<1>5. Agrees(pool[c], d)' /\ IsPrefix(Configuration(d), text[c])'
      /\ \A i \in (Len(Configuration(d)') + 1)..Len(text'[c]) : text'[c][i] = Break
  BY <1>1, <1>2, <1>3
<1>6. c \notin late' => Agrees(pool[c], c)'
  BY <1>3 DEF PoolIs
<1> QED
  BY <1>4, <1>5, <1>6 DEF PoolIs

\* A step that neither reads nor sets a pool up keeps the pools.
LEMMA PoolsSame ==
  ASSUME PoolInv, UNCHANGED <<testVars, text, pool>>,
         \A c \in Clients : clientPc'[c] = "configured" <=> clientPc[c] = "configured",
         current \in Clients, current' \in Clients, current <= current', late \subseteq late'
  PROVE  PoolInv'
<1>1. ASSUME NEW c \in Clients PROVE IF clientPc'[c] = "configured" THEN PoolIs(c)' ELSE pool'[c] = NoPool
  <2>1. CASE clientPc[c] = "configured"
    <3>1. PoolIs(c)
      BY <2>1 DEF PoolInv
    <3>2. PoolIs(c)'
      BY <3>1, PoolSame
    <3> QED
      BY <2>1, <3>2
  <2>2. CASE clientPc[c] # "configured"
    BY <2>2 DEF PoolInv
  <2> QED
    BY <2>1, <2>2
<1> QED
  BY <1>1 DEF PoolInv, NoPool

\* Before a failure texts are kept by every step but a read.
LEMMA TextsSame ==
  ASSUME TextInv, UNCHANGED <<testVars, text>>, current \in Clients, current' \in Clients, current <= current',
         javaPc = "failed" => javaPc' = "failed" /\ file' = file
  PROVE  TextInv'
<1>1. \A d : Configuration(d)' = Configuration(d)
  BY ConfigurationSame
<1>2. ASSUME NEW c \in Clients PROVE IsText(text'[c]) /\ TextIs(c)'
  <2>0. IsText(text[c]) /\ text' = text
    BY DEF TextInv
  <2>1. CASE text[c] = <<>>
    BY <2>0, <2>1 DEF TextIs
  <2>2. CASE \E d \in c..current : IsPrefix(Configuration(d), text[c])
    <3>1. PICK d \in c..current : IsPrefix(Configuration(d), text[c])
      BY <2>2
    <3>2. d \in c..current'
      BY DEF Clients
    <3>3. IsPrefix(Configuration(d)', text'[c])
      BY <1>1, <3>1
    <3> QED
      BY <2>0, <3>2, <3>3 DEF TextIs
  <2>3. CASE javaPc = "failed" /\ text[c] = file /\ CutShort(file)
    <3>1. CutShort(file)'
      BY <2>3, CutSame
    <3> QED
      BY <2>0, <2>3, <3>1 DEF TextIs
  <2> QED
    BY <2>1, <2>2, <2>3 DEF TextInv, TextIs
<1> QED
  BY <1>2 DEF TextInv

\* The numbers that the proofs compare.
LEMMA Numbers ==
  /\ NClients \in Nat \ {0} /\ Clients = 1..NClients
  /\ \A c \in Clients : c \in Nat /\ c \in c..c
BY ConfigurationAssumption DEF Clients

LEMMA ConfigurationLong ==
  ASSUME TestTypes, NEW d \in Clients
  PROVE  /\ IsText(Configuration(d)) /\ IsSeq(Configuration(d))
         /\ Len(Configuration(d)) \in Nat \ {0} /\ Configuration(d) # <<>>
<1>1. IsText(Configuration(d)) /\ Len(Configuration(d)) \in Nat \ {0}
  BY TestIsOK, ConfigurationEnds
<1>2. Configuration(d) # <<>>
  BY <1>1, EmptyIs
<1> QED
  BY <1>1, <1>2 DEF IsText

LEMMA OpenWriterInv ==
  ASSUME IndInv, OpenWriter
  PROVE  IndInv'
<1> USE DEF IndInv
<1>0. UNCHANGED testVars /\ UNCHANGED <<current, clientPc, text, pool>>
      /\ javaPc = "new" /\ javaPc' = "opened"
      /\ file' = <<>> /\ late' = late \cup Underway
  BY DEF OpenWriter
<1>1. TestTypes'
  BY <1>0, TestSame
<1>2. Types'
  BY <1>0 DEF Types, Underway
<1>3. StartedInv'
  BY <1>0 DEF StartedInv
<1>4. FileInv'
  BY <1>0 DEF FileInv
<1>5. TextInv'
  BY <1>0, <1>2, Numbers, TextsSame DEF Types
<1>6. OwnInv'
  <2>1. \A d : Configuration(d)' = Configuration(d)
    BY <1>0, ConfigurationSame
  <2>2. ASSUME NEW c \in Clients \ late'
        PROVE  /\ clientPc[c] \notin {"started", "read", "aborted"}
               /\ clientPc[c] = "parse" => text[c] = Configuration(c)
    BY <1>0, <2>2 DEF OwnInv, Underway
  <2> QED
    BY <1>0, <2>1, <2>2 DEF OwnInv
<1>7. PoolInv'
  BY <1>0, <1>2, Numbers, PoolsSame DEF Types
<1> QED
  BY <1>1, <1>2, <1>3, <1>4, <1>5, <1>6, <1>7

\* While the file is being written every client that is reading is late.
LEMMA AllLate ==
  ASSUME IndInv, javaPc = "opened", NEW c \in Clients \ late
  PROVE  clientPc[c] \notin {"started", "read", "aborted"} /\ (clientPc[c] = "parse" => text[c] = Configuration(c))
<1>1. file = <<>>
  BY DEF IndInv, FileInv
<1>2. Configuration(c) # <<>>
  BY ConfigurationLong DEF IndInv
<1> QED
  BY <1>1, <1>2 DEF IndInv, OwnInv

LEMMA WriteInv ==
  ASSUME IndInv, WriteClientConfiguration \/ WriteFails
  PROVE  IndInv'
<1> USE DEF IndInv
<1>0. UNCHANGED testVars /\ UNCHANGED <<current, clientPc, text, pool, late>> /\ javaPc = "opened"
      /\ javaPc' \in {"written", "failed"}
  BY DEF WriteClientConfiguration, WriteFails
<1>00. \A d : Configuration(d)' = Configuration(d)
  BY <1>0, ConfigurationSame
<1>1. TestTypes'
  BY <1>0, TestSame
<1>2. Types'
  BY <1>0 DEF Types
<1>3. StartedInv'
  BY <1>0 DEF StartedInv
<1>4. FileInv'
  <2>1. CASE WriteClientConfiguration
    BY <1>0, <1>00, <2>1 DEF FileInv, WriteClientConfiguration
  <2>2. CASE WriteFails
    <3>1. PICK n \in 0..(Len(Configuration(current)) - 1) : file' = SubSeq(Configuration(current), 1, n)
      BY <2>2 DEF WriteFails
    <3>2. CutShort(file)'
      BY <1>00, <3>1 DEF CutShort, Types
    <3> QED
      BY <2>2, <3>2 DEF FileInv, WriteFails
  <2> QED
    BY <2>1, <2>2
<1>5. TextInv'
  BY <1>0, <1>2, Numbers, TextsSame DEF Types
<1>6. OwnInv'
  <2>2. ASSUME NEW c \in Clients \ late'
        PROVE  /\ clientPc[c] \notin {"started", "read", "aborted"}
               /\ clientPc[c] = "parse" => text[c] = Configuration(c)
    BY <1>0, <2>2, AllLate
  <2> QED
    BY <1>0, <1>00, <2>2 DEF OwnInv
<1>7. PoolInv'
  BY <1>0, <1>2, Numbers, PoolsSame DEF Types
<1> QED
  BY <1>1, <1>2, <1>3, <1>4, <1>5, <1>6, <1>7

\* A step of runTest that leaves the file and the clients alone.
LEMMA OwnSame ==
  ASSUME OwnInv, UNCHANGED <<testVars, file, clientPc, text, late>>
  PROVE  OwnInv'
<1>1. \A d : Configuration(d)' = Configuration(d)
  BY ConfigurationSame
<1> QED
  BY <1>1 DEF OwnInv

LEMMA WholeSame ==
  ASSUME UNCHANGED <<testVars, file>>, NEW d, Whole(d),
         current \in Nat, current' \in Nat, d \in Nat, current <= current',
         \A c \in Clients : clientPc'[c] # "none" => clientPc[c] # "none"
  PROVE  Whole(d)'
<1>1. Configuration(d)' = Configuration(d)
  BY ConfigurationSame
<1> QED
  BY <1>1 DEF Whole

LEMMA ConstructorFailsInv ==
  ASSUME IndInv, ConstructorFails
  PROVE  IndInv'
<1> USE DEF IndInv
<1>0. UNCHANGED testVars /\ UNCHANGED <<current, file, clientPc, text, pool, late>>
      /\ javaPc \in {"new", "written"} /\ javaPc' = "failed"
  BY DEF ConstructorFails
<1>00. \A d : Configuration(d)' = Configuration(d)
  BY <1>0, ConfigurationSame
<1>1. TestTypes'
  BY <1>0, TestSame
<1>2. Types'
  BY <1>0 DEF Types
<1>3. StartedInv'
  BY <1>0 DEF StartedInv
<1>4. FileInv'
  <2>1. CASE file = <<>>
    <3>1. 1 \in Clients /\ Len(Configuration(1)) \in Nat \ {0} /\ IsSeq(Configuration(1))
      BY Numbers, ConfigurationLong
    <3>2. SubSeq(Configuration(1), 1, 0) = <<>>
      BY <3>1, PrefixIs
    <3>3. 0 \in 0..(Len(Configuration(1)) - 1)
      BY <3>1
    <3>4. CutShort(file)
      BY <2>1, <3>1, <3>2, <3>3 DEF CutShort
    <3>5. CutShort(file)'
      BY <1>0, <3>4, CutSame
    <3> QED
      BY <1>0, <3>5 DEF FileInv
  <2>2. CASE \E d \in Clients : Whole(d)
    <3>1. PICK d \in Clients : Whole(d)
      BY <2>2
    <3>2. Whole(d)'
      BY <1>0, <3>1, Numbers, WholeSame DEF Types
    <3> QED
      BY <1>0, <3>2 DEF FileInv
  <2>3. CASE javaPc = "written"
    <3>1. Whole(current)
      BY <2>3, Numbers DEF Whole, FileInv, StartedInv, Types
    <3> QED
      BY <2>2, <3>1 DEF Types
  <2> QED
    BY <1>0, <2>1, <2>2, <2>3 DEF FileInv
<1>5. TextInv'
  BY <1>0, <1>2, Numbers, TextsSame DEF Types
<1>6. OwnInv'
  BY <1>0, OwnSame
<1>7. PoolInv'
  BY <1>0, <1>2, Numbers, PoolsSame DEF Types
<1> QED
  BY <1>1, <1>2, <1>3, <1>4, <1>5, <1>6, <1>7

LEMMA StartClientInv ==
  ASSUME IndInv, StartClient
  PROVE  IndInv'
<1> USE DEF IndInv
<1>0. UNCHANGED testVars /\ UNCHANGED <<current, file, text, pool, late>>
      /\ javaPc = "written" /\ javaPc' = "sleep"
      /\ clientPc' = [clientPc EXCEPT ![current] = "started"]
  BY DEF StartClient
<1>00. \A d : Configuration(d)' = Configuration(d)
  BY <1>0, ConfigurationSame
<1>01. current \in Clients /\ current \in Nat
  BY Numbers DEF Types
<1>02. clientPc[current] = "none" /\ text[current] = <<>> /\ file = Configuration(current)
  BY <1>0, <1>01 DEF StartedInv, FileInv
<1>1. TestTypes'
  BY <1>0, TestSame
<1>2. Types'
  BY <1>0 DEF Types
<1>03. /\ clientPc'[current] = "started"
       /\ \A c \in Clients : c # current => clientPc'[c] = clientPc[c]
  BY <1>0, <1>01 DEF Types
<1>3. StartedInv'
  BY <1>0, <1>01, <1>02, <1>03 DEF StartedInv
<1>4. FileInv'
  BY <1>0, <1>00, <1>02 DEF FileInv
<1>5. TextInv'
  BY <1>0, <1>2, Numbers, TextsSame DEF Types
<1>6. OwnInv'
  <2>1. ASSUME NEW c \in Clients \ late'
        PROVE  /\ clientPc'[c] \in {"started", "read"} => /\ file = Configuration(c)
                                                          /\ text[c] \in {<<>>, Configuration(c)}
               /\ clientPc'[c] = "parse" => text[c] = Configuration(c)
               /\ clientPc'[c] # "aborted"
    <3>1. CASE c = current
      BY <1>02, <1>03, <3>1
    <3>2. CASE c # current
      BY <1>0, <1>03, <2>1, <3>2 DEF OwnInv
    <3> QED
      BY <3>1, <3>2
  <2> QED
    BY <1>0, <1>00, <2>1 DEF OwnInv
<1>7. PoolInv'
  BY <1>0, <1>01, <1>02, <1>03, <1>2, PoolsSame DEF Types
<1> QED
  BY <1>1, <1>2, <1>3, <1>4, <1>5, <1>6, <1>7

LEMMA SleptInv ==
  ASSUME IndInv, Slept
  PROVE  IndInv'
<1> USE DEF IndInv
<1>0. UNCHANGED testVars /\ UNCHANGED <<file, clientPc, text, pool, late>> /\ javaPc = "sleep"
      /\ \/ current < NClients /\ current' = current + 1 /\ javaPc' = "new"
         \/ current' = current /\ javaPc' = "done"
  BY DEF Slept
<1>00. \A d : Configuration(d)' = Configuration(d)
  BY <1>0, ConfigurationSame
<1>01. current \in Clients /\ current \in Nat /\ current' \in Clients /\ current' \in Nat /\ current <= current'
  BY <1>0, Numbers DEF Types
<1>1. TestTypes'
  BY <1>0, TestSame
<1>2. Types'
  BY <1>0, <1>01 DEF Types
<1>3. StartedInv'
  <2>1. ASSUME NEW c \in Clients
        PROVE  /\ clientPc[c] # "none" => c <= current' /\ (javaPc' = "new" => c < current')
               /\ clientPc[c] \in {"none", "started"} => text[c] = <<>>
    BY <1>0, <1>01, Numbers DEF StartedInv
  <2> QED
    BY <1>0, <2>1 DEF StartedInv
<1>4. FileInv'
  <2>1. Whole(current)
    BY <1>0, <1>01 DEF Whole, FileInv, StartedInv
  <2>2. file = Configuration(current)
    BY <1>0 DEF FileInv
  <2>3. CASE javaPc' = "new"
    <3>1. PICK d \in Clients : d = current
      BY <1>01
    <3>2. Whole(d) /\ d \in Nat
      BY <1>01, <2>1, <3>1
    <3>3. Whole(d)'
      BY <1>0, <1>01, <3>2, WholeSame
    <3> QED
      BY <2>3, <3>3 DEF FileInv
  <2>4. CASE javaPc' = "done"
    <3>1. current' = current
      BY <1>0, <2>4
    <3> QED
      BY <1>0, <1>00, <2>2, <2>4, <3>1 DEF FileInv
  <2> QED
    BY <1>0, <2>3, <2>4
<1>5. TextInv'
  BY <1>0, <1>01, TextsSame
<1>6. OwnInv'
  BY <1>0, OwnSame
<1>7. PoolInv'
  BY <1>0, <1>01, PoolsSame
<1> QED
  BY <1>1, <1>2, <1>3, <1>4, <1>5, <1>6, <1>7

\* What a step of a client program leaves alone.
LEMMA FileSame ==
  ASSUME FileInv, UNCHANGED <<testVars, javaPc, current, file>>, current \in Clients,
         \A c \in Clients : clientPc'[c] # "none" => clientPc[c] # "none"
  PROVE  FileInv'
<1>1. \A d : Configuration(d)' = Configuration(d)
  BY ConfigurationSame
<1>2. CutShort(file)' <=> CutShort(file)
  BY CutSame
<1>3. ASSUME NEW d \in Clients, Whole(d) PROVE Whole(d)'
  BY <1>3, Numbers, WholeSame
<1> QED
  BY <1>1, <1>2, <1>3 DEF FileInv

LEMMA StartedSame ==
  ASSUME StartedInv, UNCHANGED <<javaPc, current, text>>,
         \A c \in Clients : /\ clientPc'[c] # "none" => clientPc[c] # "none"
                            /\ clientPc'[c] \in {"none", "started"} => clientPc'[c] = clientPc[c]
  PROVE  StartedInv'
BY DEF StartedInv

LEMMA OpenInv ==
  ASSUME IndInv, NEW c \in Clients, Open(c)
  PROVE  IndInv'
<1> USE DEF IndInv
<1>0. /\ UNCHANGED testVars /\ UNCHANGED <<javaPc, current, file, text, pool, late>>
      /\ clientPc[c] = "started" /\ clientPc' = [clientPc EXCEPT ![c] = "read"]
  BY DEF Open
<1>01. current \in Clients /\ current \in Nat
  BY Numbers DEF Types
<1>02. clientPc'[c] = "read" /\ \A d \in Clients : d # c => clientPc'[d] = clientPc[d]
  BY <1>0 DEF Types
<1>03. \A d \in Clients : /\ clientPc'[d] # "none" => clientPc[d] # "none"
                          /\ clientPc'[d] \in {"none", "started"} => clientPc'[d] = clientPc[d]
  BY <1>0, <1>02
<1>1. TestTypes'
  BY <1>0, TestSame
<1>2. Types'
  BY <1>0 DEF Types
<1>3. StartedInv'
  BY <1>0, <1>03, StartedSame
<1>4. FileInv'
  BY <1>0, <1>01, <1>03, FileSame
<1>5. TextInv'
  BY <1>0, <1>01, TextsSame
<1>6. OwnInv'
  <2>0. \A d : Configuration(d)' = Configuration(d)
    BY <1>0, ConfigurationSame
  <2>1. ASSUME NEW d \in Clients \ late
        PROVE  /\ clientPc'[d] \in {"started", "read"} => /\ file = Configuration(d)
                                                          /\ text[d] \in {<<>>, Configuration(d)}
               /\ clientPc'[d] = "parse" => text[d] = Configuration(d)
               /\ clientPc'[d] # "aborted"
    BY <1>0, <1>02 DEF OwnInv
  <2> QED
    BY <1>0, <2>0, <2>1 DEF OwnInv
<1>7. PoolInv'
  BY <1>0, <1>01, <1>02, PoolsSame
<1> QED
  BY <1>1, <1>2, <1>3, <1>4, <1>5, <1>6, <1>7

LEMMA ReadEndInv ==
  ASSUME IndInv, NEW c \in Clients, ReadEnd(c)
  PROVE  IndInv'
<1> USE DEF IndInv
<1>0. /\ UNCHANGED testVars /\ UNCHANGED <<javaPc, current, file, text, pool, late>>
      /\ clientPc[c] = "read" /\ clientPc' = [clientPc EXCEPT ![c] = "parse"] /\ Len(file) <= Len(text[c])
  BY DEF ReadEnd
<1>01. current \in Clients /\ current \in Nat
  BY Numbers DEF Types
<1>02. clientPc'[c] = "parse" /\ \A d \in Clients : d # c => clientPc'[d] = clientPc[d]
  BY <1>0 DEF Types
<1>03. \A d \in Clients : /\ clientPc'[d] # "none" => clientPc[d] # "none"
                          /\ clientPc'[d] \in {"none", "started"} => clientPc'[d] = clientPc[d]
  BY <1>0, <1>02
<1>1. TestTypes'
  BY <1>0, TestSame
<1>2. Types'
  BY <1>0 DEF Types
<1>3. StartedInv'
  BY <1>0, <1>03, StartedSame
<1>4. FileInv'
  BY <1>0, <1>01, <1>03, FileSame
<1>5. TextInv'
  BY <1>0, <1>01, TextsSame
<1>6. OwnInv'
  <2>0. \A d : Configuration(d)' = Configuration(d)
    BY <1>0, ConfigurationSame
  <2>1. c \notin late => text[c] = Configuration(c)
    <3> SUFFICES ASSUME c \notin late PROVE text[c] = Configuration(c)
      OBVIOUS
    <3>1. file = Configuration(c) /\ text[c] \in {<<>>, Configuration(c)}
      BY <1>0 DEF OwnInv
    <3>2. Len(Configuration(c)) \in Nat \ {0} /\ Len(<<>>) = 0
      BY ConfigurationLong, EmptyIs
    <3> QED
      BY <1>0, <3>1, <3>2
  <2>2. ASSUME NEW d \in Clients \ late
        PROVE  /\ clientPc'[d] \in {"started", "read"} => /\ file = Configuration(d)
                                                          /\ text[d] \in {<<>>, Configuration(d)}
               /\ clientPc'[d] = "parse" => text[d] = Configuration(d)
               /\ clientPc'[d] # "aborted"
    <3>1. CASE d = c
      BY <1>02, <2>1, <3>1
    <3>2. CASE d # c
      BY <1>02, <3>2 DEF OwnInv
    <3> QED
      BY <3>1, <3>2
  <2> QED
    BY <1>0, <2>0, <2>2 DEF OwnInv
<1>7. PoolInv'
  BY <1>0, <1>01, <1>02, PoolsSame
<1> QED
  BY <1>1, <1>2, <1>3, <1>4, <1>5, <1>6, <1>7

\* Whatever the file holds is a text.
LEMMA FileIsText ==
  ASSUME IndInv
  PROVE  IsText(file)
<1> USE DEF IndInv
<1>1. CASE file = <<>>
  BY <1>1, EmptyIs DEF IsText
<1>2. CASE CutShort(file)
  <2>1. PICK d \in Clients : \E n \in 0..(Len(Configuration(d)) - 1) : file = SubSeq(Configuration(d), 1, n)
    BY <1>2 DEF CutShort
  <2>2. PICK n \in 0..(Len(Configuration(d)) - 1) : file = SubSeq(Configuration(d), 1, n)
    BY <2>1
  <2>3. IsText(Configuration(d)) /\ Len(Configuration(d)) \in Nat \ {0}
    BY ConfigurationLong
  <2>4. n \in 0..Len(Configuration(d))
    BY <2>3
  <2> QED
    BY <2>2, <2>3, <2>4, PrefixText
<1>3. CASE \E d \in Clients : file = Configuration(d)
  BY <1>3, ConfigurationLong
<1> QED
  BY <1>1, <1>2, <1>3 DEF FileInv, Whole, Types

LEMMA ReadInv ==
  ASSUME IndInv, NEW c \in Clients, Read(c)
  PROVE  IndInv'
<1> USE DEF IndInv
<1> DEFINE more == SubSeq(file, Len(text[c]) + 1, Len(file))
           new  == text[c] \o more
<1>0. /\ UNCHANGED testVars /\ UNCHANGED <<javaPc, current, file, clientPc, pool, late>>
      /\ clientPc[c] = "read" /\ Len(text[c]) < Len(file)
  BY FileIsText, SeqIs DEF Read, TextInv, IsText
<1>01. current \in Clients /\ current \in Nat /\ c \in Nat
  BY Numbers DEF Types
<1>02. text'[c] = new /\ DOMAIN text' = Clients /\ \A d \in Clients : d # c => text'[d] = text[d]
  BY DEF Read, Types
<1>03. \A d : Configuration(d)' = Configuration(d)
  BY <1>0, ConfigurationSame
<1>04. /\ IsText(text[c]) /\ IsSeq(text[c]) /\ IsSeq(file) /\ Len(text[c]) \in Nat /\ Len(file) \in Nat
       /\ \A i \in 1..Len(file) : file[i] # EOF
  BY FileIsText, SeqIs DEF TextInv, IsText
<1>05. IsText(more)
  <2> DEFINE L == Len(text[c])
  <2>1. L \in 0..Len(file)
    BY <1>0, <1>04
  <2>2. IsSeq(more) /\ Len(more) = Len(file) - L
    BY <1>04, <2>1, SplitIs
  <2>3. L + 1 \in Nat \ {0} /\ Len(file) \in Nat /\ Len(file) <= Len(file) /\ L + 1 <= Len(file) + 1
    BY <1>04, <2>1
  <2>4. \A i \in 1..(Len(file) - (L + 1) + 1) : more[i] = file[(L + 1) + i - 1]
    BY <1>04, <2>3, SubSeqIs
  <2> HIDE DEF more
  <2>5. ASSUME NEW i \in 1..Len(more) PROVE more[i] # EOF
    <3>1. i \in 1..(Len(file) - (L + 1) + 1) /\ (L + 1) + i - 1 \in 1..Len(file)
      BY <1>04, <2>1, <2>2
    <3> QED
      BY <1>04, <2>4, <3>1
  <2> QED
    BY <2>2, <2>5 DEF IsText
<1>06. IsText(new)
  <2> HIDE DEF more
  <2> QED
    BY <1>04, <1>05, TextConcat
<1>07. text[c] = <<>> => new = file
  <2> SUFFICES ASSUME text[c] = <<>> PROVE new = file
    OBVIOUS
  <2>1. Len(text[c]) = 0 /\ 0 \in 0..Len(file)
    BY <1>04, EmptyIs
  <2>2. file = SubSeq(file, 1, 0) \o SubSeq(file, 0 + 1, Len(file))
    BY <1>04, <2>1, SplitIs
  <2>3. SubSeq(file, 1, 0) = <<>>
    BY <1>04, PrefixIs
  <2> QED
    BY <2>1, <2>2, <2>3
<1>1. TestTypes'
  BY <1>0, TestSame
<1>2. Types'
  BY <1>0, <1>02 DEF Types
<1>3. StartedInv'
  <2>1. ASSUME NEW d \in Clients
        PROVE  /\ clientPc[d] # "none" => /\ d <= current
                                          /\ javaPc \in {"new", "opened", "written"} => d < current
               /\ clientPc[d] \in {"none", "started"} => text'[d] = <<>>
    BY <1>0, <1>02 DEF StartedInv
  <2> QED
    BY <1>0, <2>1 DEF StartedInv
<1>4. FileInv'
  BY <1>0, <1>01, FileSame
<1>5. TextInv'
  <2>1. ASSUME NEW d \in Clients PROVE IsText(text'[d]) /\ TextIs(d)'
    <3>1. CASE d # c
      <4>1. text'[d] = text[d] /\ IsText(text[d]) /\ TextIs(d)
        BY <1>02, <3>1 DEF TextInv
      <4>2. CutShort(file)' <=> CutShort(file)
        BY <1>0, CutSame
      <4> QED
        BY <1>0, <1>03, <4>1, <4>2 DEF TextIs
    <3>2. CASE d = c
      <4>1. CASE text[c] = <<>>
        <5>1. text'[c] = file /\ file # <<>>
          BY <1>0, <1>02, <1>07, <1>04, <4>1, EmptyIs
        <5>2. CASE javaPc = "failed" /\ CutShort(file)
          <6>1. CutShort(file)'
            BY <1>0, <5>2, CutSame
          <6> QED
            BY <1>0, <1>02, <1>06, <3>2, <5>1, <5>2, <6>1 DEF TextIs
        <5>3. CASE \E e \in c..current : file = Configuration(e)
          <6>1. PICK e \in c..current : file = Configuration(e)
            BY <5>3
          <6>2. IsPrefix(file, file)
            BY <1>04, PrefixSelf
          <6>3. IsPrefix(Configuration(e)', text'[c]) /\ e \in c..current'
            BY <1>0, <1>03, <5>1, <6>1, <6>2
          <6> QED
            BY <1>02, <1>06, <3>2, <6>3 DEF TextIs
        <5>4. c <= current
          BY <1>0 DEF StartedInv
        <5>5. CASE javaPc \in {"written", "sleep", "done"}
          <6>1. file = Configuration(current) /\ current \in c..current
            BY <1>01, <5>4, <5>5 DEF FileInv
          <6> QED
            BY <5>3, <6>1
        <5>6. CASE \E e \in Clients : Whole(e)
          <6>1. PICK e \in Clients : Whole(e)
            BY <5>6
          <6>2. c <= e /\ e <= current /\ e \in Nat /\ file = Configuration(e)
            BY <1>0, <6>1, Numbers DEF Whole
          <6>3. e \in c..current
            BY <1>01, <6>2
          <6> QED
            BY <5>3, <6>2, <6>3
        <5> QED
          BY <5>1, <5>2, <5>5, <5>6 DEF FileInv, Types
      <4>2. CASE \E e \in c..current : IsPrefix(Configuration(e), text[c])
        <5>1. PICK e \in c..current : IsPrefix(Configuration(e), text[c])
          BY <4>2
        <5>2. e \in Clients
          BY <1>01, Numbers, <5>1 DEF Clients
        <5>3. IsSeq(Configuration(e)) /\ IsSeq(text[c]) /\ IsSeq(more)
          BY <1>04, <1>05, <5>2, ConfigurationLong DEF IsText
        <5> HIDE DEF more
        <5>4. IsPrefix(Configuration(e), text[c] \o more)
          BY <5>1, <5>3, PrefixConcat
        <5>5. IsPrefix(Configuration(e)', text'[c]) /\ e \in c..current'
          BY <1>0, <1>02, <1>03, <5>4
        <5> QED
          BY <1>02, <1>06, <3>2, <5>5 DEF TextIs
      <4>3. CASE javaPc = "failed" /\ text[c] = file /\ CutShort(file)
        BY <1>0, <1>04, <4>3
      <4> QED
        BY <4>1, <4>2, <4>3 DEF TextInv, TextIs
    <3> QED
      BY <3>1, <3>2
  <2> QED
    BY <2>1 DEF TextInv
<1>6. OwnInv'
  <2>1. c \notin late => file = Configuration(c) /\ new = Configuration(c)
    <3> SUFFICES ASSUME c \notin late PROVE file = Configuration(c) /\ new = Configuration(c)
      OBVIOUS
    <3>1. file = Configuration(c) /\ text[c] \in {<<>>, Configuration(c)}
      BY <1>0 DEF OwnInv
    <3>2. text[c] # Configuration(c)
      BY <1>0, <1>04, <3>1
    <3> HIDE DEF new
    <3> QED
      BY <1>07, <3>1, <3>2
  <2> HIDE DEF new
  <2>2. ASSUME NEW d \in Clients \ late
        PROVE  /\ clientPc[d] \in {"started", "read"} => /\ file = Configuration(d)
                                                         /\ text'[d] \in {<<>>, Configuration(d)}
               /\ clientPc[d] = "parse" => text'[d] = Configuration(d)
               /\ clientPc[d] # "aborted"
    <3>1. CASE d = c
      BY <1>0, <1>02, <2>1, <3>1
    <3>2. CASE d # c
      BY <1>02, <3>2 DEF OwnInv
    <3> QED
      BY <3>1, <3>2
  <2> QED
    BY <1>0, <1>03, <2>2 DEF OwnInv
<1>7. PoolInv'
  <2>1. ASSUME NEW d \in Clients PROVE IF clientPc'[d] = "configured" THEN PoolIs(d)' ELSE pool'[d] = NoPool
    <3>1. CASE clientPc[d] = "configured"
      <4>1. PoolIs(d) /\ d # c
        BY <1>0, <3>1 DEF PoolInv
      <4>2. PoolIs(d)'
        BY <1>0, <1>01, <1>02, <4>1, PoolSame
      <4> QED
        BY <1>0, <3>1, <4>2
    <3>2. CASE clientPc[d] # "configured"
      BY <1>0, <3>2 DEF PoolInv
    <3> QED
      BY <3>1, <3>2
  <2> QED
    BY <2>1 DEF PoolInv, NoPool
<1> QED
  BY <1>1, <1>2, <1>3, <1>4, <1>5, <1>6, <1>7

\* A text that is accepted starts with the configuration of a client that
\* was not started before the one that has read it.
LEMMA AcceptedIs ==
  ASSUME IndInv, NEW c \in Clients, Complete(ParseStream(text[c]))
  PROVE  \E d \in c..current : d \in Clients /\ IsPrefix(Configuration(d), text[c])
<1>1. TestOK /\ IsText(text[c]) /\ TextIs(c)
  BY TestIsOK DEF IndInv, TextInv
<1>2. ~(text[c] = <<>> \/ CutShort(text[c]))
  BY <1>1, RefusedCut
<1>3. \E d \in c..current : IsPrefix(Configuration(d), text[c])
  BY <1>1, <1>2 DEF TextIs
<1>4. PICK d \in c..current : IsPrefix(Configuration(d), text[c])
  BY <1>3
<1>5. current \in Clients
  BY DEF IndInv, Types
<1>6. d \in Clients
  BY <1>4, <1>5, Numbers
<1> QED
  BY <1>4, <1>6

LEMMA SetUpInv ==
  ASSUME IndInv, NEW c \in Clients, SetUp(c)
  PROVE  IndInv'
<1> USE DEF IndInv
<1>0. /\ UNCHANGED testVars /\ UNCHANGED <<javaPc, current, file, text, late>>
      /\ clientPc[c] = "parse" /\ clientPc' = [clientPc EXCEPT ![c] = "configured"]
      /\ Complete(ParseStream(text[c]))
  BY DEF SetUp
<1>01. current \in Clients /\ current \in Nat
  BY Numbers DEF Types
<1>02. clientPc'[c] = "configured" /\ \A d \in Clients : d # c => clientPc'[d] = clientPc[d]
  BY <1>0 DEF Types
<1>03. \A d \in Clients : /\ clientPc'[d] # "none" => clientPc[d] # "none"
                          /\ clientPc'[d] \in {"none", "started"} => clientPc'[d] = clientPc[d]
  BY <1>0, <1>02
<1>04. PICK junk \in Uninitialised : pool' = [pool EXCEPT ![c] = PoolOf(ParseStream(text[c]), junk)]
  BY DEF SetUp
<1>05. /\ pool'[c] = PoolOf(ParseStream(text[c]), junk) /\ DOMAIN pool' = Clients
       /\ \A d \in Clients : d # c => pool'[d] = pool[d]
  BY <1>04 DEF Types
<1>06. TestOK
  BY TestIsOK
<1>07. \A d : Configuration(d)' = Configuration(d)
  BY <1>0, ConfigurationSame
<1>1. TestTypes'
  BY <1>0, TestSame
<1>2. Types'
  BY <1>0, <1>05 DEF Types
<1>3. StartedInv'
  BY <1>0, <1>03, StartedSame
<1>4. FileInv'
  BY <1>0, <1>01, <1>03, FileSame
<1>5. TextInv'
  BY <1>0, <1>01, TextsSame
<1>6. OwnInv'
  <2>1. ASSUME NEW d \in Clients \ late
        PROVE  /\ clientPc'[d] \in {"started", "read"} => /\ file = Configuration(d)
                                                          /\ text[d] \in {<<>>, Configuration(d)}
               /\ clientPc'[d] = "parse" => text[d] = Configuration(d)
               /\ clientPc'[d] # "aborted"
    BY <1>0, <1>02 DEF OwnInv
  <2> QED
    BY <1>0, <1>07, <2>1 DEF OwnInv
<1>7. PoolInv'
  <2>1. PoolIs(c)'
    <3>1. PICK d \in c..current : d \in Clients /\ IsPrefix(Configuration(d), text[c])
      BY <1>0, AcceptedIs
    <3>2. IsText(text[c])
      BY DEF TextInv
    <3>3. /\ ParseStream(text[c]) = Doc(d)
          /\ \A i \in (Len(Configuration(d)) + 1)..Len(text[c]) : text[c][i] = Break
      BY <1>0, <1>06, <3>1, <3>2, AcceptedPrefix
    <3>4. Agrees(pool'[c], d)
      <4>1. Agrees(PoolOf(Doc(d), junk), d)
        BY <1>06, <3>1, DocAgrees
      <4> QED
        BY <1>05, <3>3, <4>1
    <3>5. ASSUME c \notin late PROVE Agrees(pool'[c], c)
      <4>1. text[c] = Configuration(c)
        BY <1>0, <3>5 DEF OwnInv
      <4>2. ParseStream(text[c]) = Doc(c)
        BY <1>06, <4>1, AcceptedWhole
      <4>3. Agrees(PoolOf(Doc(c), junk), c)
        BY <1>06, DocAgrees
      <4> QED
        BY <1>05, <4>2, <4>3
    <3>6. \A e : Agrees(pool'[c], e) => Agrees(pool[c], e)'
      BY <1>0 DEF Agrees, testVars
    <3>7. d \in c..current' /\ text'[c] = text[c]
      BY <1>0, <3>1
    <3>8. /\ Agrees(pool[c], d)' /\ IsPrefix(Configuration(d), text[c])'
          /\ \A i \in (Len(Configuration(d)') + 1)..Len(text'[c]) : text'[c][i] = Break
      BY <1>07, <3>1, <3>3, <3>4, <3>6, <3>7
    <3>9. c \notin late' => Agrees(pool[c], c)'
      BY <1>0, <3>5, <3>6
    <3> QED
      BY <3>7, <3>8, <3>9 DEF PoolIs
  <2>2. ASSUME NEW d \in Clients PROVE IF clientPc'[d] = "configured" THEN PoolIs(d)' ELSE pool'[d] = NoPool
    <3>1. CASE d = c
      BY <1>02, <2>1, <3>1
    <3>2. CASE d # c /\ clientPc[d] = "configured"
      <4>1. PoolIs(d)
        BY <3>2 DEF PoolInv
      <4>2. PoolIs(d)'
        BY <1>0, <1>01, <1>05, <3>2, <4>1, PoolSame
      <4> QED
        BY <1>02, <3>2, <4>2
    <3>3. CASE d # c /\ clientPc[d] # "configured"
      BY <1>02, <1>05, <3>3 DEF PoolInv
    <3> QED
      BY <3>1, <3>2, <3>3
  <2> QED
    BY <2>2 DEF PoolInv, NoPool
<1> QED
  BY <1>1, <1>2, <1>3, <1>4, <1>5, <1>6, <1>7

LEMMA AbortInv ==
  ASSUME IndInv, NEW c \in Clients, Abort(c)
  PROVE  IndInv'
<1> USE DEF IndInv
<1>0. /\ UNCHANGED testVars /\ UNCHANGED <<javaPc, current, file, text, pool, late>>
      /\ clientPc[c] = "parse" /\ clientPc' = [clientPc EXCEPT ![c] = "aborted"]
      /\ ~Complete(ParseStream(text[c]))
  BY DEF Abort
<1>01. current \in Clients /\ current \in Nat
  BY Numbers DEF Types
<1>02. clientPc'[c] = "aborted" /\ \A d \in Clients : d # c => clientPc'[d] = clientPc[d]
  BY <1>0 DEF Types
<1>03. \A d \in Clients : /\ clientPc'[d] # "none" => clientPc[d] # "none"
                          /\ clientPc'[d] \in {"none", "started"} => clientPc'[d] = clientPc[d]
  BY <1>0, <1>02
<1>1. TestTypes'
  BY <1>0, TestSame
<1>2. Types'
  BY <1>0 DEF Types
<1>3. StartedInv'
  BY <1>0, <1>03, StartedSame
<1>4. FileInv'
  BY <1>0, <1>01, <1>03, FileSame
<1>5. TextInv'
  BY <1>0, <1>01, TextsSame
<1>6. OwnInv'
  <2>0. \A d : Configuration(d)' = Configuration(d)
    BY <1>0, ConfigurationSame
  <2>1. c \in late
    <3>1. ASSUME c \notin late PROVE FALSE
      <4>1. text[c] = Configuration(c)
        BY <1>0, <3>1 DEF OwnInv
      <4>2. TestOK
        BY TestIsOK
      <4> QED
        BY <1>0, <4>1, <4>2, AcceptedWhole
    <3> QED
      BY <3>1
  <2>2. ASSUME NEW d \in Clients \ late
        PROVE  /\ clientPc'[d] \in {"started", "read"} => /\ file = Configuration(d)
                                                          /\ text[d] \in {<<>>, Configuration(d)}
               /\ clientPc'[d] = "parse" => text[d] = Configuration(d)
               /\ clientPc'[d] # "aborted"
    BY <1>02, <2>1 DEF OwnInv
  <2> QED
    BY <1>0, <2>0, <2>2 DEF OwnInv
<1>7. PoolInv'
  BY <1>0, <1>01, <1>02, PoolsSame
<1> QED
  BY <1>1, <1>2, <1>3, <1>4, <1>5, <1>6, <1>7

LEMMA StutterInv ==
  ASSUME IndInv, UNCHANGED vars
  PROVE  IndInv'
<1> USE DEF IndInv
<1>0. UNCHANGED testVars /\ UNCHANGED <<javaPc, current, file, clientPc, text, pool, late>>
  BY DEF vars
<1>01. current \in Clients /\ current \in Nat
  BY Numbers DEF Types
<1>1. TestTypes'
  BY <1>0, TestSame
<1>2. Types'
  BY <1>0 DEF Types
<1>3. StartedInv'
  BY <1>0, StartedSame
<1>4. FileInv'
  BY <1>0, <1>01, FileSame
<1>5. TextInv'
  BY <1>0, <1>01, TextsSame
<1>6. OwnInv'
  BY <1>0, OwnSame
<1>7. PoolInv'
  BY <1>0, <1>01, PoolsSame
<1> QED
  BY <1>1, <1>2, <1>3, <1>4, <1>5, <1>6, <1>7

LEMMA NextInv ==
  ASSUME IndInv, [Next]_vars
  PROVE  IndInv'
<1>1. CASE OpenWriter
  BY <1>1, OpenWriterInv
<1>2. CASE WriteClientConfiguration \/ WriteFails
  BY <1>2, WriteInv
<1>3. CASE ConstructorFails
  BY <1>3, ConstructorFailsInv
<1>4. CASE StartClient
  BY <1>4, StartClientInv
<1>5. CASE Slept
  BY <1>5, SleptInv
<1>6. ASSUME NEW c \in Clients, Program(c) PROVE IndInv'
  <2>1. CASE Open(c)
    BY <2>1, OpenInv
  <2>2. CASE Read(c)
    BY <2>2, ReadInv
  <2>3. CASE ReadEnd(c)
    BY <2>3, ReadEndInv
  <2>4. CASE SetUp(c)
    BY <2>4, SetUpInv
  <2>5. CASE Abort(c)
    BY <2>5, AbortInv
  <2> QED
    BY <1>6, <2>1, <2>2, <2>3, <2>4, <2>5 DEF Program
<1>7. CASE UNCHANGED vars
  BY <1>7, StutterInv
<1> QED
  BY <1>1, <1>2, <1>3, <1>4, <1>5, <1>6, <1>7 DEF Next, RunTest

LEMMA IndInvHolds == Spec => []IndInv
BY InitInv, NextInv, PTL DEF Spec

(***************************************************************************)
(* What the constructor of a client writes, the client program accepts     *)
(* and reads back as it was meant: its transport, its address, and every   *)
(* server with its port, for any number of servers, any addresses and any  *)
(* ports, whatever the memory of the ports that are not set holds.         *)
(***************************************************************************)
THEOREM ConfigurationReadsBack ==
  Spec => [](\A c \in Clients, junk \in Uninitialised :
               LET document == ParseStream(Configuration(c))
               IN  Complete(document) /\ Agrees(PoolOf(document, junk), c))
<1> DEFINE ReadBack == \A c \in Clients, junk \in Uninitialised :
                         LET document == ParseStream(Configuration(c))
                         IN  Complete(document) /\ Agrees(PoolOf(document, junk), c)
<1>1. IndInv => ReadBack
  <2> SUFFICES ASSUME IndInv, NEW c \in Clients, NEW junk \in Uninitialised
               PROVE  /\ Complete(ParseStream(Configuration(c)))
                      /\ Agrees(PoolOf(ParseStream(Configuration(c)), junk), c)
    OBVIOUS
  <2>1. TestOK
    BY TestIsOK DEF IndInv
  <2>2. Complete(ParseStream(Configuration(c))) /\ ParseStream(Configuration(c)) = Doc(c)
    BY <2>1, AcceptedWhole
  <2>3. Agrees(PoolOf(Doc(c), junk), c)
    BY <2>1, DocAgrees
  <2> QED
    BY <2>2, <2>3
<1> HIDE DEF ReadBack
<1>2. Spec => []ReadBack
  BY <1>1, IndInvHolds, PTL
<1> QED
  BY <1>2 DEF ReadBack

\* A configuration that is cut short anywhere, as a write that fails leaves
\* it, ends the client program in an assertion.
THEOREM CutConfigurationRefused ==
  Spec => [](\A c \in Clients : \A n \in 0..(Len(Configuration(c)) - 1) :
               ~Complete(ParseStream(SubSeq(Configuration(c), 1, n))))
<1> DEFINE Refused == \A c \in Clients : \A n \in 0..(Len(Configuration(c)) - 1) :
                        ~Complete(ParseStream(SubSeq(Configuration(c), 1, n)))
<1>1. IndInv => Refused
  <2> SUFFICES ASSUME IndInv, NEW c \in Clients, NEW n \in 0..(Len(Configuration(c)) - 1)
               PROVE  ~Complete(ParseStream(SubSeq(Configuration(c), 1, n)))
    OBVIOUS
  <2>1. CutShort(SubSeq(Configuration(c), 1, n))
    BY DEF CutShort
  <2>2. TestOK
    BY TestIsOK DEF IndInv
  <2> QED
    BY <2>1, <2>2, RefusedCut
<1> HIDE DEF Refused
<1>2. Spec => []Refused
  BY <1>1, IndInvHolds, PTL
<1> QED
  BY <1>2 DEF Refused

\* So does any text that follows a configuration and is not white space, as
\* is read from a file that was rewritten meanwhile.
THEOREM LongerConfigurationRefused ==
  Spec => [](\A c \in Clients : \A u :
               IsText(u) /\ Complete(ParseStream(Configuration(c) \o u)) => \A i \in 1..Len(u) : u[i] = Break)
<1> DEFINE Refused ==
      \A c \in Clients : \A u :
        IsText(u) /\ Complete(ParseStream(Configuration(c) \o u)) => \A i \in 1..Len(u) : u[i] = Break
<1>1. IndInv => Refused
  <2> SUFFICES ASSUME IndInv, NEW c \in Clients, NEW u,
                      IsText(u), Complete(ParseStream(Configuration(c) \o u))
               PROVE  \A i \in 1..Len(u) : u[i] = Break
    OBVIOUS
  <2>1. TestOK
    BY TestIsOK DEF IndInv
  <2>2. \/ (\A i \in 1..Len(u) : u[i] = Break) /\ ParseStream(Configuration(c) \o u) = Doc(c)
        \/ ParseStream(Configuration(c) \o u) = Null
    BY <2>1, ParseLonger
  <2> QED
    BY <2>2, NullIncomplete
<1> HIDE DEF Refused
<1>2. Spec => []Refused
  BY <1>1, IndInvHolds, PTL
<1> QED
  BY <1>2 DEF Refused

\* Every value stays in the set that its variable is declared for.  In
\* particular the address that a client binds its pool to is one of the
\* addresses of the clients, whatever the client has read and whenever.
THEOREM TypeCorrect == Spec => []TypeOK
<1>1. IndInv => TypeOK
  <2> SUFFICES ASSUME IndInv PROVE TypeOK
    OBVIOUS
  <2> USE DEF IndInv
  <2>1. ASSUME NEW c \in Clients PROVE pool[c].bind \in ClientHosts \cup {-1}
    <3>1. CASE clientPc[c] = "configured"
      <4>1. PICK d \in c..current : Agrees(pool[c], d)
        BY <3>1 DEF PoolInv, PoolIs
      <4>2. d \in Clients
        BY <4>1, Numbers DEF Types
      <4>3. pool[c].bind = hosts[d]
        BY <4>1 DEF Agrees
      <4> QED
        BY <4>2, <4>3 DEF TestTypes
    <3>2. CASE clientPc[c] # "configured"
      BY <3>2 DEF PoolInv, NoPool
    <3> QED
      BY <3>1, <3>2
  <2> QED
    BY <2>1 DEF TypeOK, TestTypes, Types
<1> QED
  BY <1>1, IndInvHolds, PTL

\* The file is rewritten under clients that are reading it, and writing it
\* may fail half way: for any number of clients and servers no client runs
\* on a text that is not the whole configuration of one client with nothing
\* but white space after it.
THEOREM WholeTextOnlyHolds == Spec => []WholeTextOnly
<1>1. IndInv => WholeTextOnly
  <2> SUFFICES ASSUME IndInv, NEW c \in Configured
               PROVE  \E d \in Clients :
                        /\ IsPrefix(Configuration(d), text[c])
                        /\ \A i \in (Len(Configuration(d)) + 1)..Len(text[c]) : text[c][i] = Break
    BY DEF WholeTextOnly
  <2>1. PICK d \in c..current :
          /\ IsPrefix(Configuration(d), text[c])
          /\ \A i \in (Len(Configuration(d)) + 1)..Len(text[c]) : text[c][i] = Break
    BY DEF IndInv, PoolInv, PoolIs, Configured
  <2>2. d \in Clients
    BY <2>1, Numbers DEF IndInv, Types, Configured
  <2> QED
    BY <2>1, <2>2
<1> QED
  BY <1>1, IndInvHolds, PTL

\* What a client program makes of the text agrees with the test that wrote
\* it: transport, address, and every server in its place with its port.
THEOREM ReadsBackHolds == Spec => []ReadsBack
<1>1. IndInv => ReadsBack
  <2> SUFFICES ASSUME IndInv, NEW c \in Configured
               PROVE  \E d \in Clients : Agrees(pool[c], d)
    BY DEF ReadsBack
  <2>1. PICK d \in c..current : Agrees(pool[c], d)
    BY DEF IndInv, PoolInv, PoolIs, Configured
  <2>2. d \in Clients
    BY <2>1, Numbers DEF IndInv, Types, Configured
  <2> QED
    BY <2>1, <2>2
<1> QED
  BY <1>1, IndInvHolds, PTL

\* A client that has read its configuration before runTest opens the file
\* again has its own address and never aborts; one that has not takes the
\* address of a client started after it, never of one before, or aborts.
THEOREM OwnUnlessOvertakenHolds == Spec => []OwnUnlessOvertaken
<1>1. IndInv => OwnUnlessOvertaken
  <2> SUFFICES ASSUME IndInv PROVE OwnUnlessOvertaken
    OBVIOUS
  <2> USE DEF IndInv
  <2>1. ASSUME NEW c \in Configured \ late PROVE pool[c].bind = hosts[c]
    <3>1. Agrees(pool[c], c)
      BY <2>1 DEF PoolInv, PoolIs, Configured
    <3> QED
      BY <3>1 DEF Agrees
  <2>2. ASSUME NEW c \in Configured PROVE \E d \in c..current : pool[c].bind = hosts[d]
    <3>1. PICK d \in c..current : Agrees(pool[c], d)
      BY <2>2 DEF PoolInv, PoolIs, Configured
    <3> QED
      BY <3>1 DEF Agrees
  <2>3. ASSUME NEW c \in Clients, clientPc[c] = "aborted" PROVE c \in late
    BY <2>3 DEF OwnInv
  <2> QED
    BY <2>1, <2>2, <2>3 DEF OwnUnlessOvertaken
<1> QED
  BY <1>1, IndInvHolds, PTL
=============================================================================
