--------------------------- MODULE TestStandProofs ---------------------------
(***************************************************************************)
(* Proofs about TestStand, for any number of test methods, combinations    *)
(* and file sizes.                                                         *)
(*                                                                         *)
(* IndInv says what the fields of the interface name at each statement of  *)
(* executeTest (ThreadsKnown), where threads may have been interrupted     *)
(* (InterruptKnown), and how many starts and results there have been by    *)
(* then (StartsCounted, ResultsCounted).                                   *)
(***************************************************************************)
EXTENDS TestStand, FiniteSetTheorems, TLAPS

---------------------------------------------------------------------------
(* The inductive invariant. *)

AliveStates == {"top", "native"}

\* Only the thread that a field names may be at work.
AliveIsNamed ==
  \A k \in Kinds, s \in Starts : pc[k][s] \in AliveStates => s = thread[k]

\* No start that is still to come has left a trace.
FutureUntouched ==
  \A k \in Kinds : /\ thread[k] <= starts
                   /\ \A s \in interrupted[k] : s <= starts

\* Between start and stop both threads are those of the last start, and run.
ThreadsKnown ==
  /\ mainPc \in {"run", "clear", "clearAfterError", "stop"} =>
       /\ statisticOf = starts
       /\ \A k \in Kinds : /\ thread[k] = starts
                           /\ starts \in Starts
                           /\ pc[k][starts] \in AliveStates
                           /\ starts \notin interrupted[k]
  /\ mainPc = "joinReceiving" =>
       /\ statisticOf = starts
       /\ \A k \in Kinds : thread[k] = starts /\ starts \in Starts
  /\ mainPc = "joinSending" =>
       /\ statisticOf = starts
       /\ thread["receiving"] = Null
       /\ thread["sending"] = starts /\ starts \in Starts

\* A thread that has been told to end is being joined.
InterruptKnown ==
  \A k \in Kinds, s \in Starts :
    pc[k][s] \in AliveStates /\ s \in interrupted[k] => mainPc \in {"joinReceiving", "joinSending"}

\* A start per combination, with the one under way or without it.
StartsCounted ==
  /\ mainPc \in {"beforeAll", "start"} => starts <= (test - 1) * Combos + combo - 1
  /\ mainPc \in {"run", "clear", "clearAfterError", "stop", "joinReceiving",
                 "joinSending", "relax", "alreadyStarted"} =>
       starts <= (test - 1) * Combos + combo

\* A method that is over has as many results as its outcome says; the one
\* under way has those of the combinations before this one, or of this too.
ResultsCounted ==
  /\ \A t \in 1..Tests : t > test => results[t] = 0 /\ outcome[t] = "none"
  /\ \A t \in 1..Tests :
       t # test /\ outcome[t] = "passed" => results[t] = Combos * FileSizes
  /\ mainPc \in {"beforeAll", "start", "run", "clearAfterError", "alreadyStarted"} =>
       results[test] = (combo - 1) * FileSizes /\ outcome[test] = "none"
  /\ mainPc \in {"clear", "stop", "joinReceiving", "joinSending"} =>
       results[test] = combo * FileSizes /\ outcome[test] = "none"
  /\ outcome[test] = "passed" => results[test] = Combos * FileSizes

IndInv ==
  /\ TypeOK
  /\ AliveIsNamed
  /\ FutureUntouched
  /\ ThreadsKnown
  /\ InterruptKnown
  /\ StartsCounted
  /\ ResultsCounted

---------------------------------------------------------------------------
(* Arithmetic. *)

LEMMA ProductMonotonic ==
  ASSUME NEW a \in Nat, NEW b \in Nat, NEW n \in Nat, a <= b
  PROVE  a * n <= b * n
<1>1. (b - a) * n >= 0
  <2>1. b - a \in Nat
    OBVIOUS
  <2>2. \A d \in Nat : d * n >= 0
    OBVIOUS
  <2> QED
    BY <2>1, <2>2
<1>2. b * n = a * n + (b - a) * n
  OBVIOUS
<1>3. a * n \in Int /\ b * n \in Int /\ (b - a) * n \in Int
  OBVIOUS
<1> QED
  BY <1>1, <1>2, <1>3

LEMMA ProductStep ==
  ASSUME NEW a \in Nat, NEW n \in Nat
  PROVE  /\ (a - 1) * n + n = a * n
         /\ (a + 1 - 1) * n = a * n
         /\ a * n \in Nat
         /\ (1 - 1) * n = 0
OBVIOUS

\* There is room for one more start, and for one more set of results.
LEMMA Room ==
  ASSUME TypeOK
  PROVE  /\ (test - 1) * Combos + combo \in Int
         /\ (test - 1) * Combos + combo <= Tests * Combos
         /\ combo * FileSizes <= Combos * FileSizes
         /\ (combo - 1) * FileSizes + FileSizes = combo * FileSizes
         /\ (combo - 1) * FileSizes \in Nat
         /\ combo * FileSizes \in Nat
         /\ Combos * FileSizes \in Nat
         /\ Tests * Combos \in Nat
<1>1. /\ test \in Nat /\ test >= 1 /\ test <= Tests
      /\ combo \in Nat /\ combo >= 1 /\ combo <= Combos
      /\ Tests \in Nat /\ Combos \in Nat /\ FileSizes \in Nat
  BY TestStandAssumption DEF TypeOK
<1>2. test * Combos <= Tests * Combos
  BY <1>1, ProductMonotonic
<1>3. combo * FileSizes <= Combos * FileSizes
  BY <1>1, ProductMonotonic
<1>4. (test - 1) * Combos + Combos = test * Combos /\ test * Combos \in Nat
  BY <1>1, ProductStep
<1>5. (combo - 1) * FileSizes + FileSizes = combo * FileSizes
  BY <1>1, ProductStep
<1>6. /\ (combo - 1) * FileSizes \in Nat
      /\ combo * FileSizes \in Nat
      /\ Combos * FileSizes \in Nat
      /\ Tests * Combos \in Nat
      /\ (test - 1) * Combos \in Nat
  <2>1. combo - 1 \in Nat /\ test - 1 \in Nat
    BY <1>1
  <2>2. \A x \in Nat, y \in Nat : x * y \in Nat
    BY ProductStep
  <2> QED
    BY <1>1, <2>1, <2>2
<1> QED
  BY <1>1, <1>2, <1>3, <1>4, <1>5, <1>6

---------------------------------------------------------------------------
LEMMA InitIndInv == Init => IndInv
<1> SUFFICES ASSUME Init PROVE IndInv
  OBVIOUS
<1>1. /\ Tests \in Nat \ {0} /\ Combos \in Nat \ {0} /\ FileSizes \in Nat \ {0}
      /\ Combos * FileSizes \in Nat
      /\ (1 - 1) * FileSizes = 0 /\ (1 - 1) * Combos = 0
  BY TestStandAssumption, ProductStep
<1>2. TypeOK
  <2>1. /\ test \in 1..Tests /\ combo \in 1..Combos
        /\ results \in [1..Tests -> 0..(Combos * FileSizes)]
        /\ outcome \in [1..Tests -> {"none", "passed", "failed"}]
    BY <1>1 DEF Init
  <2>2. thread \in [Kinds -> Starts \cup {Null}]
    BY DEF Init
  <2>3. /\ pc \in [Kinds -> [Starts -> {"unborn", "top", "native", "dead"}]]
        /\ interrupted \in [Kinds -> SUBSET Starts]
    BY DEF Init
  <2>4. starts \in Starts \cup {0} /\ statisticOf \in 0..starts
    BY DEF Init
  <2>5. aborted \in BOOLEAN
    BY DEF Init
  <2> QED
    BY <2>1, <2>2, <2>3, <2>4, <2>5 DEF Init, TypeOK
<1>3. AliveIsNamed /\ FutureUntouched /\ ThreadsKnown /\ InterruptKnown
  BY <1>1 DEF Init, AliveIsNamed, FutureUntouched, ThreadsKnown, InterruptKnown, AliveStates,
              Kinds, Null
<1>4. StartsCounted /\ ResultsCounted
  BY <1>1 DEF Init, StartsCounted, ResultsCounted
<1> QED
  BY <1>2, <1>3, <1>4 DEF IndInv

LEMMA NextIndInv == IndInv /\ [Next]_vars => IndInv'
<1> SUFFICES ASSUME IndInv, [Next]_vars PROVE IndInv'
  OBVIOUS
<1> USE DEF IndInv
<1>0. /\ Tests \in Nat \ {0} /\ Combos \in Nat \ {0} /\ FileSizes \in Nat \ {0}
      /\ Kinds = {"receiving", "sending"}
      /\ Null = 0
      /\ Starts = 1..(Tests * Combos)
      /\ test \in 1..Tests /\ combo \in 1..Combos
      /\ starts \in Nat
  BY TestStandAssumption DEF TypeOK, Kinds, Null, Starts
<1>1. CASE BeforeAll
  <2>1. TypeOK'
    BY <1>1 DEF BeforeAll, TypeOK, suiteVars, threadVars
  <2>2. AliveIsNamed'
    BY <1>1 DEF BeforeAll, AliveIsNamed, suiteVars, threadVars, TypeOK
  <2>3. FutureUntouched'
    BY <1>1 DEF BeforeAll, FutureUntouched, threadVars
  <2>4. ThreadsKnown'
    BY <1>1 DEF BeforeAll, ThreadsKnown, suiteVars, threadVars
  <2>5. StartsCounted'
    BY <1>1 DEF BeforeAll, StartsCounted, suiteVars
  <2>6. ResultsCounted'
    BY <1>1 DEF BeforeAll, ResultsCounted, suiteVars
  <2>7. InterruptKnown'
    BY <1>1 DEF BeforeAll, InterruptKnown, threadVars
  <2> QED
    BY <2>1, <2>2, <2>3, <2>4, <2>5, <2>6, <2>7
<1>2. CASE AfterAll
  <2>1. TypeOK'
    BY <1>2 DEF AfterAll, TypeOK, suiteVars, threadVars
  <2>2. AliveIsNamed'
    BY <1>2 DEF AfterAll, AliveIsNamed, suiteVars, threadVars, TypeOK
  <2>3. FutureUntouched'
    BY <1>2 DEF AfterAll, FutureUntouched, threadVars
  <2>4. ThreadsKnown'
    BY <1>2 DEF AfterAll, ThreadsKnown, threadVars
  <2>5. StartsCounted'
    BY <1>2 DEF AfterAll, StartsCounted, suiteVars
  <2>6. ResultsCounted'
    BY <1>2 DEF AfterAll, ResultsCounted, suiteVars
  <2>7. InterruptKnown'
    BY <1>2 DEF AfterAll, InterruptKnown, threadVars
  <2> QED
    BY <2>1, <2>2, <2>3, <2>4, <2>5, <2>6, <2>7
<1>3. CASE SetRef
  <2>1. TypeOK'
    BY <1>3 DEF SetRef, TypeOK, suiteVars, threadVars
  <2>2. AliveIsNamed'
    BY <1>3 DEF SetRef, AliveIsNamed, suiteVars, threadVars, TypeOK
  <2>3. FutureUntouched'
    BY <1>3 DEF SetRef, FutureUntouched, threadVars
  <2>4. ThreadsKnown'
    BY <1>3 DEF SetRef, ThreadsKnown, threadVars
  <2>5. StartsCounted'
    BY <1>3 DEF SetRef, StartsCounted, suiteVars
  <2>6. ResultsCounted'
    BY <1>3 DEF SetRef, ResultsCounted, suiteVars
  <2>7. InterruptKnown'
    BY <1>3 DEF SetRef, InterruptKnown, threadVars
  <2> QED
    BY <2>1, <2>2, <2>3, <2>4, <2>5, <2>6, <2>7
<1>4. CASE Start
  <2>1. TypeOK'
    <3>1. starts + 1 \in Starts
      BY <1>4, <1>0, Room DEF Start, StartsCounted, TypeOK
    <3>2. /\ thread' \in [Kinds -> Starts \cup {Null}]
          /\ pc' \in [Kinds -> [Starts -> {"unborn", "top", "native", "dead"}]]
      BY <1>4, <3>1 DEF Start, TypeOK
    <3>3. starts' \in Starts \cup {0} /\ statisticOf' \in 0..starts'
      BY <1>4, <1>0, <3>1 DEF Start
    <3> QED
      BY <1>4, <3>2, <3>3 DEF Start, TypeOK, suiteVars
  <2>2. AliveIsNamed'
    BY <1>4, <1>0 DEF Start, AliveIsNamed, suiteVars, TypeOK
  <2>3. FutureUntouched'
    BY <1>4, <1>0 DEF Start, FutureUntouched, TypeOK
  <2>4. ThreadsKnown'
    <3>1. CASE \A k \in Kinds : thread[k] = Null
      <4>1. starts + 1 \in Starts
        BY <1>4, <1>0, Room DEF Start, StartsCounted, TypeOK
      <4>2. ASSUME NEW k \in Kinds
            PROVE  /\ thread'[k] = starts + 1
                   /\ pc'[k][starts + 1] = "top"
                   /\ starts + 1 \notin interrupted'[k]
        BY <1>4, <1>0, <3>1, <4>1, <4>2 DEF Start, TypeOK, FutureUntouched
      <4>3. starts' = starts + 1 /\ statisticOf' = starts + 1 /\ mainPc' = "run"
        BY <1>4, <3>1 DEF Start
      <4> QED
        BY <4>1, <4>2, <4>3 DEF ThreadsKnown, AliveStates
    <3>2. CASE \E k \in Kinds : thread[k] # Null
      BY <1>4, <3>2 DEF Start, ThreadsKnown
    <3> QED
      BY <3>1, <3>2
  <2>5. StartsCounted'
    BY <1>4, <1>0 DEF Start, StartsCounted, suiteVars
  <2>6. ResultsCounted'
    BY <1>4, <1>0 DEF Start, ResultsCounted, suiteVars
  <2>7. InterruptKnown'
    BY <1>4, <1>0 DEF Start, InterruptKnown, FutureUntouched, TypeOK
  <2> QED
    BY <2>1, <2>2, <2>3, <2>4, <2>5, <2>6, <2>7
<1>5. CASE Run
  <2>1. TypeOK'
    <3>1. results[test] + FileSizes \in 0..(Combos * FileSizes)
      BY <1>5, <1>0 DEF Run, ResultsCounted
    <3>2. results' \in [1..Tests -> 0..(Combos * FileSizes)]
      BY <1>5, <3>1 DEF Run, TypeOK
    <3> QED
      BY <1>5, <3>2 DEF Run, TypeOK, threadVars
  <2>2. AliveIsNamed'
    BY <1>5 DEF Run, AliveIsNamed, threadVars, TypeOK
  <2>3. FutureUntouched'
    BY <1>5 DEF Run, FutureUntouched, threadVars
  <2>4. ThreadsKnown'
    BY <1>5 DEF Run, ThreadsKnown, threadVars
  <2>5. StartsCounted'
    BY <1>5, <1>0 DEF Run, StartsCounted, threadVars, TypeOK
  <2>6. ResultsCounted'
    BY <1>5, <1>0 DEF Run, ResultsCounted, TypeOK
  <2>7. InterruptKnown'
    BY <1>5 DEF Run, InterruptKnown, threadVars
  <2> QED
    BY <2>1, <2>2, <2>3, <2>4, <2>5, <2>6, <2>7
<1>6. CASE RunError
  <2>1. TypeOK'
    BY <1>6 DEF RunError, TypeOK, suiteVars, threadVars
  <2>2. AliveIsNamed'
    BY <1>6 DEF RunError, AliveIsNamed, suiteVars, threadVars, TypeOK
  <2>3. FutureUntouched'
    BY <1>6 DEF RunError, FutureUntouched, threadVars
  <2>4. ThreadsKnown'
    BY <1>6 DEF RunError, ThreadsKnown, suiteVars, threadVars
  <2>5. StartsCounted'
    BY <1>6 DEF RunError, StartsCounted, suiteVars, threadVars
  <2>6. ResultsCounted'
    BY <1>6 DEF RunError, ResultsCounted, suiteVars
  <2>7. InterruptKnown'
    BY <1>6 DEF RunError, InterruptKnown, threadVars
  <2> QED
    BY <2>1, <2>2, <2>3, <2>4, <2>5, <2>6, <2>7
<1>7. CASE Clear
  <2>1. TypeOK'
    BY <1>7 DEF Clear, TypeOK, suiteVars, threadVars
  <2>2. AliveIsNamed'
    BY <1>7 DEF Clear, AliveIsNamed, suiteVars, threadVars, TypeOK
  <2>3. FutureUntouched'
    BY <1>7 DEF Clear, FutureUntouched, threadVars
  <2>4. ThreadsKnown'
    BY <1>7 DEF Clear, ThreadsKnown, suiteVars, threadVars
  <2>5. StartsCounted'
    BY <1>7 DEF Clear, StartsCounted, suiteVars, threadVars
  <2>6. ResultsCounted'
    BY <1>7 DEF Clear, ResultsCounted, suiteVars
  <2>7. InterruptKnown'
    BY <1>7 DEF Clear, InterruptKnown, threadVars
  <2> QED
    BY <2>1, <2>2, <2>3, <2>4, <2>5, <2>6, <2>7
<1>8. CASE Stop
  <2>1. TypeOK'
    <3>1. \A k \in Kinds : thread[k] \in Starts
      BY <1>8 DEF Stop, ThreadsKnown
    <3>2. interrupted' \in [Kinds -> SUBSET Starts]
      BY <1>8, <3>1 DEF Stop, TypeOK
    <3> QED
      BY <1>8, <3>2 DEF Stop, TypeOK, suiteVars
  <2>2. AliveIsNamed'
    BY <1>8 DEF Stop, AliveIsNamed, suiteVars, TypeOK
  <2>3. FutureUntouched'
    BY <1>8 DEF Stop, FutureUntouched
  <2>4. ThreadsKnown'
    BY <1>8 DEF Stop, ThreadsKnown, suiteVars
  <2>5. StartsCounted'
    BY <1>8 DEF Stop, StartsCounted, suiteVars
  <2>6. ResultsCounted'
    BY <1>8 DEF Stop, ResultsCounted, suiteVars
  <2>7. InterruptKnown'
    BY <1>8 DEF Stop, InterruptKnown
  <2> QED
    BY <2>1, <2>2, <2>3, <2>4, <2>5, <2>6, <2>7
<1>9. CASE JoinReceiving
  <2>1. TypeOK'
    BY <1>9 DEF JoinReceiving, TypeOK, suiteVars
  <2>2. AliveIsNamed'
    BY <1>9, <1>0 DEF JoinReceiving, AliveIsNamed, suiteVars, AliveStates, TypeOK
  <2>3. FutureUntouched'
    BY <1>9, <1>0 DEF JoinReceiving, FutureUntouched
  <2>4. ThreadsKnown'
    <3>1. thread'["receiving"] = Null /\ thread'["sending"] = thread["sending"]
      BY <1>9, <1>0 DEF JoinReceiving, TypeOK
    <3> QED
      BY <1>9, <1>0, <3>1 DEF JoinReceiving, ThreadsKnown
  <2>5. StartsCounted'
    BY <1>9, <1>0 DEF JoinReceiving, StartsCounted, suiteVars
  <2>6. ResultsCounted'
    BY <1>9 DEF JoinReceiving, ResultsCounted, suiteVars
  <2>7. InterruptKnown'
    BY <1>9 DEF JoinReceiving, InterruptKnown
  <2> QED
    BY <2>1, <2>2, <2>3, <2>4, <2>5, <2>6, <2>7
<1>10. CASE JoinSending
  <2>1. TypeOK'
    <3>1. combo' \in 1..Combos
      BY <1>10, <1>0 DEF JoinSending
    <3>2. outcome' \in [1..Tests -> {"none", "passed", "failed"}]
      BY <1>10, <1>0 DEF JoinSending, TypeOK
    <3>3. thread' \in [Kinds -> Starts \cup {Null}]
      BY <1>10 DEF JoinSending, TypeOK
    <3>4. mainPc' \in {"start", "relax"}
      BY <1>10 DEF JoinSending
    <3> QED
      BY <1>10, <3>1, <3>2, <3>3, <3>4 DEF JoinSending, TypeOK
  <2>2. AliveIsNamed'
    BY <1>10, <1>0 DEF JoinSending, AliveIsNamed, AliveStates, TypeOK
  <2>3. FutureUntouched'
    BY <1>10, <1>0 DEF JoinSending, FutureUntouched
  <2>4. ThreadsKnown'
    BY <1>10, <1>0 DEF JoinSending, ThreadsKnown
  <2>5. StartsCounted'
    <3>1. starts <= (test - 1) * Combos + combo
      BY <1>10 DEF JoinSending, StartsCounted
    <3>2. \/ mainPc' = "start" /\ combo' = combo + 1
          \/ mainPc' = "relax" /\ combo' = combo
      BY <1>10 DEF JoinSending
    <3>3. starts' = starts /\ test' = test
      BY <1>10 DEF JoinSending
    <3> HIDE DEF IndInv
    <3>4. (test - 1) * Combos + (combo + 1) - 1 = (test - 1) * Combos + combo
      BY <1>0
    <3> QED
      BY <3>1, <3>2, <3>3, <3>4 DEF StartsCounted
  <2>6. ResultsCounted'
    <3>1. results' = results /\ test' = test /\ mainPc' \in {"start", "relax"}
      BY <1>10 DEF JoinSending
    <3>2. results[test] = combo * FileSizes /\ outcome[test] = "none"
      BY <1>10 DEF JoinSending, ResultsCounted
    <3>3. CASE combo < Combos
      <4>1. combo' = combo + 1 /\ outcome' = outcome
        BY <1>10, <1>0, <3>3 DEF JoinSending
      <4>2. (combo + 1 - 1) * FileSizes = combo * FileSizes
        BY <1>0, ProductStep
      <4> QED
        BY <1>0, <3>1, <3>2, <4>1, <4>2 DEF ResultsCounted
    <3>4. CASE combo = Combos
      <4>1. outcome' = [outcome EXCEPT ![test] = "passed"] /\ mainPc' = "relax"
        BY <1>10, <1>0, <3>4 DEF JoinSending
      <4> QED
        BY <1>0, <3>1, <3>2, <3>4, <4>1 DEF ResultsCounted
    <3> QED
      BY <1>0, <3>3, <3>4
  <2>7. InterruptKnown'
    BY <1>10, <1>0 DEF JoinSending, InterruptKnown, ThreadsKnown, AliveIsNamed, AliveStates
  <2> QED
    BY <2>1, <2>2, <2>3, <2>4, <2>5, <2>6, <2>7
<1>11. CASE Relax
  <2>1. TypeOK'
    BY <1>11, <1>0 DEF Relax, TypeOK, threadVars
  <2>2. AliveIsNamed'
    BY <1>11, <1>0 DEF Relax, AliveIsNamed, threadVars, TypeOK
  <2>3. FutureUntouched'
    BY <1>11 DEF Relax, FutureUntouched, threadVars
  <2>4. ThreadsKnown'
    BY <1>11 DEF Relax, ThreadsKnown, threadVars
  <2>5. StartsCounted'
    <3>1. starts' = starts /\ starts <= (test - 1) * Combos + combo
      BY <1>11 DEF Relax, StartsCounted
    <3>2. CASE test < Tests
      <4>1. mainPc' = "start" /\ test' = test + 1 /\ combo' = 1
        BY <1>11, <1>0, <3>2 DEF Relax
      <4>2. /\ (test - 1) * Combos + Combos = test * Combos
            /\ (test + 1 - 1) * Combos = test * Combos
            /\ (test - 1) * Combos \in Int
        BY <1>0, ProductStep
      <4> QED
        BY <1>0, <3>1, <4>1, <4>2 DEF StartsCounted
    <3>3. CASE test = Tests
      BY <1>11, <1>0, <3>3 DEF Relax, StartsCounted
    <3> QED
      BY <1>0, <3>2, <3>3
  <2>6. ResultsCounted'
    <3>1. /\ results' = results /\ combo' = 1
          /\ outcome' = IF outcome[test] = "none"
                       THEN [outcome EXCEPT ![test] = "failed"] ELSE outcome
          /\ outcome[test] = "passed" => results[test] = Combos * FileSizes
      BY <1>11 DEF Relax, ResultsCounted
    <3>2. CASE test < Tests
      <4>1. mainPc' = "start" /\ test' = test + 1
        BY <1>11, <1>0, <3>2 DEF Relax
      <4>2. (1 - 1) * FileSizes = 0
        BY <1>0, ProductStep
      <4>3. results[test + 1] = 0 /\ outcome[test + 1] = "none"
        BY <1>0, <3>2 DEF ResultsCounted
      <4>4. outcome'[test + 1] = "none"
        BY <1>0, <3>1, <3>2, <4>3
      <4> QED
        BY <1>0, <3>1, <3>2, <4>1, <4>2, <4>3, <4>4 DEF ResultsCounted
    <3>3. CASE test = Tests
      <4>1. mainPc' = "afterAll" /\ test' = test
        BY <1>11, <1>0, <3>3 DEF Relax
      <4> QED
        BY <1>0, <3>1, <4>1 DEF ResultsCounted
    <3> QED
      BY <1>0, <3>2, <3>3
  <2>7. InterruptKnown'
    BY <1>11 DEF Relax, InterruptKnown, threadVars
  <2> QED
    BY <2>1, <2>2, <2>3, <2>4, <2>5, <2>6, <2>7
<1>12. ASSUME NEW k \in Kinds, NEW s \in Starts, ThreadTop(k, s) PROVE IndInv'
  <2>1. TypeOK'
    BY <1>12 DEF ThreadTop, TypeOK, suiteVars
  <2>2. AliveIsNamed'
    BY <1>12 DEF ThreadTop, AliveIsNamed, suiteVars, AliveStates, TypeOK
  <2>3. FutureUntouched'
    BY <1>12 DEF ThreadTop, FutureUntouched
  <2>4. ThreadsKnown'
    BY <1>12 DEF ThreadTop, ThreadsKnown, suiteVars
  <2>5. StartsCounted'
    BY <1>12 DEF ThreadTop, StartsCounted, suiteVars
  <2>6. ResultsCounted'
    BY <1>12 DEF ThreadTop, ResultsCounted, suiteVars
  <2>7. InterruptKnown'
    BY <1>12 DEF ThreadTop, InterruptKnown, AliveStates, TypeOK
  <2> QED
    BY <2>1, <2>2, <2>3, <2>4, <2>5, <2>6, <2>7
<1>13. ASSUME NEW k \in Kinds, NEW s \in Starts, EnterNative(k, s) PROVE IndInv'
  <2>1. TypeOK'
    <3>1. pc' \in [Kinds -> [Starts -> {"unborn", "top", "native", "dead"}]]
      <4>1. pc' = [pc EXCEPT ![k][s] = "native"] \/ pc' = pc
        BY <1>13 DEF EnterNative
      <4> QED
        BY <4>1 DEF TypeOK
    <3>2. aborted' \in BOOLEAN
      BY <1>13 DEF EnterNative, TypeOK
    <3> QED
      BY <1>13, <3>1, <3>2 DEF EnterNative, TypeOK, suiteVars
  <2>2. AliveIsNamed'
    BY <1>13, Room DEF EnterNative, AliveIsNamed, suiteVars, AliveStates, TypeOK
  <2>3. FutureUntouched'
    BY <1>13, Room DEF EnterNative, FutureUntouched, TypeOK
  <2>4. ThreadsKnown'
    BY <1>13 DEF EnterNative, ThreadsKnown, suiteVars, AliveStates, TypeOK
  <2>5. StartsCounted'
    BY <1>13 DEF EnterNative, StartsCounted, suiteVars, TypeOK
  <2>6. ResultsCounted'
    BY <1>13 DEF EnterNative, ResultsCounted, suiteVars
  <2>7. InterruptKnown'
    <3>1. interrupted' = interrupted /\ mainPc' = mainPc /\ pc[k][s] \in AliveStates
      BY <1>13 DEF EnterNative, AliveStates
    <3>2. pc' = pc \/ (pc' = [pc EXCEPT ![k][s] = "native"] /\ s \notin interrupted[k])
      BY <1>13 DEF EnterNative
    <3>3. \A l \in Kinds, r \in Starts :
            pc'[l][r] \in AliveStates => pc[l][r] \in AliveStates
      BY <3>1, <3>2 DEF TypeOK
    <3> QED
      BY <3>1, <3>3 DEF InterruptKnown
  <2> QED
    BY <2>1, <2>2, <2>3, <2>4, <2>5, <2>6, <2>7
<1>14. ASSUME NEW k \in Kinds, NEW s \in Starts, LeaveNative(k, s) PROVE IndInv'
  <2>1. TypeOK'
    BY <1>14 DEF LeaveNative, TypeOK, suiteVars
  <2>2. AliveIsNamed'
    BY <1>14 DEF LeaveNative, AliveIsNamed, suiteVars, AliveStates, TypeOK
  <2>3. FutureUntouched'
    BY <1>14 DEF LeaveNative, FutureUntouched
  <2>4. ThreadsKnown'
    BY <1>14 DEF LeaveNative, ThreadsKnown, suiteVars, AliveStates
  <2>5. StartsCounted'
    BY <1>14 DEF LeaveNative, StartsCounted, suiteVars
  <2>6. ResultsCounted'
    BY <1>14 DEF LeaveNative, ResultsCounted, suiteVars
  <2>7. InterruptKnown'
    BY <1>14 DEF LeaveNative, InterruptKnown, AliveStates, TypeOK
  <2> QED
    BY <2>1, <2>2, <2>3, <2>4, <2>5, <2>6, <2>7
<1>15. CASE UNCHANGED vars
  BY <1>15 DEF vars, suiteVars, threadVars, TypeOK, AliveIsNamed, FutureUntouched,
              ThreadsKnown, InterruptKnown, StartsCounted, ResultsCounted
<1> QED
  BY <1>1, <1>2, <1>3, <1>4, <1>5, <1>6, <1>7, <1>8, <1>9, <1>10, <1>11, <1>12, <1>13, <1>14,
     <1>15
     DEF Next, MainThread, Thread

LEMMA SpecIndInv == Spec => []IndInv
BY InitIndInv, NextIndInv, PTL DEF Spec

---------------------------------------------------------------------------
(***************************************************************************)
(* The variables keep their types; above all, no more starts are counted   *)
(* than there are combinations in all tests.                               *)
(***************************************************************************)
THEOREM TypeCorrect == Spec => []TypeOK
<1>1. IndInv => TypeOK
  BY DEF IndInv
<1> QED
  BY <1>1, SpecIndInv, PTL

(***************************************************************************)
(* However tests end (TestStand.executeTest), there are never two          *)
(* receiving or two sending threads at work.                               *)
(***************************************************************************)
THEOREM OneOfEachHolds == Spec => []OneOfEach
<1>1. ASSUME IndInv, NEW k \in Kinds
      PROVE  Cardinality(Alive(k)) <= 1 /\ Alive(k) \subseteq {thread[k]}
  <2>1. Alive(k) \subseteq {thread[k]}
    BY <1>1 DEF IndInv, AliveIsNamed, AliveStates, Alive
  <2>2. IsFiniteSet({thread[k]}) /\ Cardinality({thread[k]}) = 1
    BY FS_Singleton
  <2>3. Cardinality(Alive(k)) <= Cardinality({thread[k]})
    BY <2>1, <2>2, FS_Subset
  <2> QED
    BY <2>1, <2>2, <2>3
<1>2. IndInv => OneOfEach
  BY <1>1 DEF OneOfEach
<1> QED
  BY <1>2, SpecIndInv, PTL

(***************************************************************************)
(* stop is called only where both threads run and are the ones that this   *)
(* combination started (TunnelInterface.java:189).                         *)
(***************************************************************************)
THEOREM StopFindsThreadsHolds == Spec => []StopFindsThreads
<1>1. ASSUME IndInv, mainPc = "stop", NEW k \in Kinds
      PROVE  thread[k] = starts /\ Alive(k) = {starts}
  BY <1>1 DEF IndInv, ThreadsKnown, AliveIsNamed, AliveStates, Alive
<1>2. IndInv => StopFindsThreads
  BY <1>1 DEF StopFindsThreads
<1> QED
  BY <1>2, SpecIndInv, PTL

(***************************************************************************)
(* After a start that was refused with running threads about               *)
(* (TunnelInterface.java:174-178) there is such a thread in every state    *)
(* to come: it is not interrupted, and no start succeeds beside it.        *)
(***************************************************************************)
LEMMA MixedStaysMixed ==
  ASSUME IndInv, Next, Mixed
  PROVE  /\ Mixed'
         /\ results' = results
         /\ \A t \in 1..Tests : outcome'[t] = "passed" => outcome[t] = "passed"
<1>1. PICK k \in Kinds : \E s \in Alive(k) : s # statisticOf
  BY DEF Mixed
<1>2. PICK s \in Alive(k) : s # statisticOf
  BY <1>1
<1>3. /\ s \in Starts /\ pc[k][s] \in AliveStates
      /\ s = thread[k] /\ s <= starts /\ s # Null
  BY <1>2 DEF IndInv, Alive, AliveStates, AliveIsNamed, FutureUntouched, Starts, Null
<1>4. mainPc \notin {"run", "clear", "clearAfterError", "stop", "joinReceiving", "joinSending"}
  BY <1>2, <1>3 DEF IndInv, ThreadsKnown, Kinds, Null
<1>5. s \notin interrupted[k]
  BY <1>3, <1>4 DEF IndInv, InterruptKnown
<1>6. ASSUME pc'[k][s] \in AliveStates, s # statisticOf' PROVE Mixed'
  BY <1>3, <1>6 DEF Mixed, Alive, AliveStates
<1>7. ASSUME results' = results, outcome' = outcome, pc' = pc, statisticOf' = statisticOf
      PROVE  /\ Mixed'
             /\ results' = results
             /\ \A t \in 1..Tests : outcome'[t] = "passed" => outcome[t] = "passed"
  BY <1>2, <1>3, <1>6, <1>7
<1>8. CASE BeforeAll \/ AfterAll \/ SetRef
  BY <1>7, <1>8 DEF BeforeAll, AfterAll, SetRef, suiteVars, threadVars
<1>9. CASE Start
  <2>1. /\ statisticOf' = starts + 1 /\ pc' = pc
        /\ results' = results /\ outcome' = outcome
    BY <1>3, <1>9 DEF Start, suiteVars
  <2>2. s # starts + 1
    BY <1>3 DEF IndInv, TypeOK, Starts
  <2> QED
    BY <1>3, <1>6, <2>1, <2>2
<1>10. CASE Relax
  <2>1. /\ statisticOf' = statisticOf /\ pc' = pc /\ results' = results
        /\ outcome' = outcome \/ outcome' = [outcome EXCEPT ![test] = "failed"]
    BY <1>10 DEF Relax, threadVars
  <2>2. \A t \in 1..Tests : outcome'[t] = "passed" => outcome[t] = "passed"
    BY <2>1 DEF IndInv, TypeOK
  <2> QED
    BY <1>2, <1>3, <1>6, <2>1, <2>2
<1>11. ASSUME NEW l \in Kinds, NEW r \in Starts, Thread(l, r)
       PROVE  /\ Mixed'
              /\ results' = results
              /\ \A t \in 1..Tests : outcome'[t] = "passed" => outcome[t] = "passed"
  <2>1. results' = results /\ outcome' = outcome /\ statisticOf' = statisticOf
    BY <1>11 DEF Thread, ThreadTop, EnterNative, LeaveNative, suiteVars
  <2>2. pc'[k][s] \in AliveStates
    BY <1>3, <1>5, <1>11
    DEF Thread, ThreadTop, EnterNative, LeaveNative, AliveStates, IndInv, TypeOK
  <2> QED
    BY <1>2, <1>6, <2>1, <2>2
<1> QED
  BY <1>4, <1>8, <1>9, <1>10, <1>11
  DEF Next, MainThread, Run, RunError, Clear, Stop, JoinReceiving, JoinSending

(***************************************************************************)
(* What a refused start has mixed up (TunnelInterface.java:174-178) serves *)
(* no test: nothing is added to the results and nothing passes any more.   *)
(***************************************************************************)
THEOREM RefusedForGoodHolds == Spec => RefusedForGood
<1>1. ASSUME IndInv, [Next]_vars
      PROVE  [Mixed => /\ Mixed'
                       /\ results' = results
                       /\ \A t \in 1..Tests : outcome'[t] = "passed" => outcome[t] = "passed"]_vars
  BY <1>1, MixedStaysMixed
<1> QED
  BY <1>1, SpecIndInv, PTL DEF Spec, RefusedForGood

(***************************************************************************)
(* A method that passes has one result per combination and file size, and  *)
(* no method has more (TestStand.executeTest, allTestsResults).            *)
(***************************************************************************)
THEOREM PassedIsCompleteHolds == Spec => []PassedIsComplete
<1>1. ASSUME IndInv, NEW t \in 1..Tests
      PROVE  /\ results[t] <= Combos * FileSizes
             /\ outcome[t] = "passed" => results[t] = Combos * FileSizes
  <2>1. results[t] \in 0..(Combos * FileSizes)
    BY <1>1 DEF IndInv, TypeOK
  <2>2. outcome[t] = "passed" => results[t] = Combos * FileSizes
    BY <1>1 DEF IndInv, ResultsCounted
  <2> QED
    BY <1>1, <2>1, <2>2, Room DEF IndInv
<1>2. IndInv => PassedIsComplete
  BY <1>1 DEF PassedIsComplete
<1> QED
  BY <1>2, SpecIndInv, PTL
===========================================================================
