----------------------------- MODULE TestStand -----------------------------
(***************************************************************************)
(* The life of a test suite: TestStand on the main thread, the interface   *)
(* it starts and stops once per combination of parameters, the two threads *)
(* of each start, and the native Tunnel object that both of them use.      *)
(*                                                                         *)
(* What a thread does in a turn is left out but for its call of the native *)
(* library (readPacket, writePacket), which fetches the reference to the   *)
(* Tunnel object and then uses the object for up to a second.              *)
(***************************************************************************)
EXTENDS Integers, FiniteSets

CONSTANTS
  Tests,        \* how many test methods
  Combos,       \* how many combinations of parameters each goes through
  FileSizes     \* configuration.fileSizes.length: results per combination

ASSUME TestStandAssumption ==
  Tests \in Nat \ {0} /\ Combos \in Nat \ {0} /\ FileSizes \in Nat \ {0}

Kinds == {"receiving", "sending"}

\* Every call of start has a number.
Starts == 1..(Tests * Combos)
Null == 0

VARIABLES
  mainPc,        \* the main thread
  test, combo,   \* the test method and the combination it is at
  results,       \* results[t]: how many were added to allTestsResults
  outcome,       \* what JUnit says of each test method
  starts,        \* number of calls of TunnelInterface.start
  statisticOf,   \* the start whose statistic and caches are in force
  thread,        \* the fields receivingThread and sendingThread
  pc,            \* pc[kind][s]: the thread that start s created
  interrupted,   \* interrupted[kind]: the starts whose thread was interrupted
  tunnel,        \* the Tunnel object and the reference to it
  aborted        \* assert(tunnel) has failed and ended the process

threadVars == <<thread, pc, interrupted>>
suiteVars == <<test, combo, results, outcome>>
vars == <<mainPc, suiteVars, starts, statisticOf, threadVars, tunnel, aborted>>

TypeOK ==
  /\ mainPc \in {"beforeAll", "start", "run", "clear", "clearAfterError", "stop",
                 "joinReceiving", "joinSending", "relax", "alreadyStarted", "afterAll",
                 "setRef", "done"}
  /\ test \in 1..Tests
  /\ combo \in 1..Combos
  /\ results \in [1..Tests -> 0..(Combos * FileSizes)]
  /\ outcome \in [1..Tests -> {"none", "passed", "failed"}]
  /\ starts \in Starts \cup {0}
  /\ statisticOf \in 0..starts
  /\ thread \in [Kinds -> Starts \cup {Null}]
  /\ pc \in [Kinds -> [Starts -> {"unborn", "top", "native", "dead"}]]
  /\ interrupted \in [Kinds -> SUBSET Starts]
  /\ tunnel \in {"none", "live", "deleted", "null"}
  /\ aborted \in BOOLEAN

Init ==
  /\ mainPc = "beforeAll"
  /\ test = 1
  /\ combo = 1
  /\ results = [t \in 1..Tests |-> 0]
  /\ outcome = [t \in 1..Tests |-> "none"]
  /\ starts = 0
  /\ statisticOf = 0
  /\ thread = [k \in Kinds |-> Null]
  /\ pc = [k \in Kinds |-> [s \in Starts |-> "unborn"]]
  /\ interrupted = [k \in Kinds |-> {}]
  /\ tunnel = "none"
  /\ aborted = FALSE

---------------------------------------------------------------------------
(***************************************************************************)
(* init and finish.  When tunnel.init fails no test runs, but finish does. *)
(***************************************************************************)
BeforeAll ==
  /\ mainPc = "beforeAll"
  /\ \/ tunnel' = "live" /\ mainPc' = "start"
     \/ tunnel' = "none" /\ mainPc' = "afterAll"
  /\ UNCHANGED <<suiteVars, starts, statisticOf, threadVars, aborted>>

\* Tunnel.stop: assert(tunnel), delete tunnel ...
AfterAll ==
  /\ mainPc = "afterAll"
  /\ \/ tunnel = "live" /\ tunnel' = "deleted" /\ mainPc' = "setRef" /\ UNCHANGED aborted
     \/ tunnel = "none" /\ aborted' = TRUE /\ UNCHANGED <<tunnel, mainPc>>
  /\ UNCHANGED <<suiteVars, starts, statisticOf, threadVars>>

\* ... and only then set_ref(objTunnel, 0); the results are written.
SetRef ==
  /\ mainPc = "setRef"
  /\ tunnel' = "null"
  /\ mainPc' = "done"
  /\ UNCHANGED <<suiteVars, starts, statisticOf, threadVars, aborted>>

---------------------------------------------------------------------------
(***************************************************************************)
(* executeTest, one combination: start, runTest, clear, stop.              *)
(***************************************************************************)
\* Mutant: the check for running threads is left out.
StartUnchecked ==
  /\ mainPc = "start"
  /\ starts' = starts + 1
  /\ statisticOf' = starts + 1
  /\ thread' = [k \in Kinds |-> starts + 1]
  /\ pc' = [k \in Kinds |-> [pc[k] EXCEPT ![starts + 1] = "top"]]
  /\ mainPc' = "run"
  /\ UNCHANGED <<suiteVars, interrupted, tunnel, aborted>>

\* Mutant: a second start returns as if it had done its work.
StartIdempotent ==
  /\ mainPc = "start"
  /\ starts' = starts + 1
  /\ statisticOf' = starts + 1
  /\ mainPc' = "run"
  /\ \/ /\ \A k \in Kinds : thread[k] = Null
        /\ thread' = [k \in Kinds |-> starts + 1]
        /\ pc' = [k \in Kinds |-> [pc[k] EXCEPT ![starts + 1] = "top"]]
     \/ /\ \E k \in Kinds : thread[k] # Null
        /\ UNCHANGED <<thread, pc>>
  /\ UNCHANGED <<suiteVars, interrupted, tunnel, aborted>>

\* Mutant: a start that is refused leaves the fields empty.
StartForgets ==
  /\ mainPc = "start"
  /\ starts' = starts + 1
  /\ statisticOf' = starts + 1
  /\ \/ /\ \A k \in Kinds : thread[k] = Null
        /\ thread' = [k \in Kinds |-> starts + 1]
        /\ pc' = [k \in Kinds |-> [pc[k] EXCEPT ![starts + 1] = "top"]]
        /\ mainPc' = "run"
     \/ /\ \E k \in Kinds : thread[k] # Null
        /\ mainPc' = "alreadyStarted"
        /\ thread' = [k \in Kinds |-> Null]
        /\ UNCHANGED pc
  /\ UNCHANGED <<suiteVars, interrupted, tunnel, aborted>>

\* start: statistic and caches are new even if it then throws.
Start ==
  /\ mainPc = "start"
  /\ starts' = starts + 1
  /\ statisticOf' = starts + 1
  /\ \/ /\ \A k \in Kinds : thread[k] = Null
        /\ thread' = [k \in Kinds |-> starts + 1]
        /\ pc' = [k \in Kinds |-> [pc[k] EXCEPT ![starts + 1] = "top"]]
        /\ mainPc' = "run"
     \/ /\ \E k \in Kinds : thread[k] # Null
        /\ mainPc' = "alreadyStarted"
        /\ UNCHANGED <<thread, pc>>
  /\ UNCHANGED <<suiteVars, interrupted, tunnel, aborted>>

\* A result for each file size, from runTest or from the handler of its exception.
Run ==
  /\ mainPc = "run"
  /\ results' = [results EXCEPT ![test] = @ + FileSizes]
  /\ mainPc' = "clear"
  /\ UNCHANGED <<test, combo, outcome, starts, statisticOf, threadVars, tunnel, aborted>>

\* An Error passes the handler by; no result is added.
RunError ==
  /\ mainPc = "run"
  /\ mainPc' = "clearAfterError"
  /\ UNCHANGED <<suiteVars, starts, statisticOf, threadVars, tunnel, aborted>>

(***************************************************************************)
(* The finally block.  clear itself may throw (it deletes and writes       *)
(* files, and logDir is null when the test's init failed); the stop that   *)
(* follows the block is then skipped, as it is after an Error.             *)
(***************************************************************************)
Clear ==
  /\ mainPc \in {"clear", "clearAfterError"}
  /\ \/ mainPc = "clear" /\ mainPc' = "stop"
     \/ mainPc' = "relax"
  /\ UNCHANGED <<suiteVars, starts, statisticOf, threadVars, tunnel, aborted>>

\* stop: both threads are interrupted ...
Stop ==
  /\ mainPc = "stop"
  /\ interrupted' = [k \in Kinds |-> interrupted[k] \cup {thread[k]}]
  /\ mainPc' = "joinReceiving"
  /\ UNCHANGED <<suiteVars, starts, statisticOf, thread, pc, tunnel, aborted>>

\* ... and joined in turn, which sets their fields to null.
JoinReceiving ==
  /\ mainPc = "joinReceiving"
  /\ pc["receiving"][thread["receiving"]] = "dead"
  /\ thread' = [thread EXCEPT !["receiving"] = Null]
  /\ mainPc' = "joinSending"
  /\ UNCHANGED <<suiteVars, starts, statisticOf, pc, interrupted, tunnel, aborted>>

\* Mutant: the loop over the combinations does not stop in time.
JoinSendingOneMore ==
  /\ mainPc = "joinSending"
  /\ pc["sending"][thread["sending"]] = "dead"
  /\ thread' = [thread EXCEPT !["sending"] = Null]
  /\ \/ /\ combo <= Combos
        /\ combo' = combo + 1
        /\ mainPc' = "start"
        /\ UNCHANGED outcome
     \/ /\ combo > Combos
        /\ outcome' = [outcome EXCEPT ![test] = "passed"]
        /\ mainPc' = "relax"
        /\ UNCHANGED combo
  /\ UNCHANGED <<test, results, starts, statisticOf, pc, interrupted, tunnel, aborted>>

JoinSending ==
  /\ mainPc = "joinSending"
  /\ pc["sending"][thread["sending"]] = "dead"
  /\ thread' = [thread EXCEPT !["sending"] = Null]
  /\ \/ /\ combo < Combos
        /\ combo' = combo + 1
        /\ mainPc' = "start"
        /\ UNCHANGED outcome
     \/ /\ combo = Combos
        /\ outcome' = [outcome EXCEPT ![test] = "passed"]
        /\ mainPc' = "relax"
        /\ UNCHANGED combo
  /\ UNCHANGED <<test, results, starts, statisticOf, pc, interrupted, tunnel, aborted>>

\* Mutant: the next test goes on with the combination the last one ended at.
RelaxKeepsCombo ==
  /\ mainPc \in {"relax", "alreadyStarted"}
  /\ outcome' = IF outcome[test] = "none" THEN [outcome EXCEPT ![test] = "failed"] ELSE outcome
  /\ \/ test < Tests /\ test' = test + 1 /\ mainPc' = "start"
     \/ test = Tests /\ test' = test /\ mainPc' = "afterAll"
  /\ UNCHANGED <<combo, results, starts, statisticOf, threadVars, tunnel, aborted>>

\* standRelax, after each test however it ended: an exception has ended it, or the loop
Relax ==
  /\ mainPc \in {"relax", "alreadyStarted"}
  /\ outcome' = IF outcome[test] = "none" THEN [outcome EXCEPT ![test] = "failed"] ELSE outcome
  /\ combo' = 1
  /\ \/ test < Tests /\ test' = test + 1 /\ mainPc' = "start"
     \/ test = Tests /\ test' = test /\ mainPc' = "afterAll"
  /\ UNCHANGED <<results, starts, statisticOf, threadVars, tunnel, aborted>>

---------------------------------------------------------------------------
(***************************************************************************)
(* A turn of ReceivingThread or SendingThread.                             *)
(***************************************************************************)
\* Mutant: the loop does not look at the interrupt flag.
ThreadTopForever(k, s) ==
  /\ pc[k][s] = "top"
  /\ pc' = [pc EXCEPT ![k][s] = "top"]
  /\ UNCHANGED <<mainPc, suiteVars, starts, statisticOf, thread, interrupted, tunnel, aborted>>

\* while (!isInterrupted()): the thread ends, ...
ThreadTop(k, s) ==
  /\ pc[k][s] = "top"
  /\ s \in interrupted[k]
  /\ pc' = [pc EXCEPT ![k][s] = "dead"]
  /\ UNCHANGED <<mainPc, suiteVars, starts, statisticOf, thread, interrupted, tunnel, aborted>>

\* ... or it calls the library: get_ref, assert(tunnel), ...
EnterNative(k, s) ==
  /\ pc[k][s] = "top"
  /\ s \notin interrupted[k]
  /\ \/ /\ tunnel \in {"live", "deleted"}
        /\ pc' = [pc EXCEPT ![k][s] = "native"]
        /\ UNCHANGED aborted
     \/ /\ tunnel \in {"none", "null"}
        /\ aborted' = TRUE
        /\ UNCHANGED pc
  /\ UNCHANGED <<mainPc, suiteVars, starts, statisticOf, thread, interrupted, tunnel>>

\* ... and returns from it.
LeaveNative(k, s) ==
  /\ pc[k][s] = "native"
  /\ pc' = [pc EXCEPT ![k][s] = "top"]
  /\ UNCHANGED <<mainPc, suiteVars, starts, statisticOf, thread, interrupted, tunnel, aborted>>

MainThread ==
  \/ BeforeAll \/ AfterAll \/ SetRef
  \/ Start \/ Run \/ RunError \/ Clear \/ Stop \/ JoinReceiving \/ JoinSending \/ Relax

Thread(k, s) == ThreadTop(k, s) \/ EnterNative(k, s) \/ LeaveNative(k, s)

Next ==
  /\ ~aborted
  /\ \/ MainThread
     \/ \E k \in Kinds, s \in Starts : Thread(k, s)

Spec == Init /\ [][Next]_vars

(***************************************************************************)
(* The tests come to an end (they wait for their clients with timeouts),   *)
(* native calls return, and the scheduler runs every thread.               *)
(***************************************************************************)
FairSpec ==
  /\ Spec
  /\ WF_vars(~aborted /\ MainThread)
  /\ \A k \in Kinds, s \in Starts : WF_vars(~aborted /\ Thread(k, s))

---------------------------------------------------------------------------
(* Properties. *)

Alive(k) == {s \in Starts : pc[k][s] \in {"top", "native"}}

(***************************************************************************)
(* However tests end, there are never two receiving or two sending threads *)
(* at work on the window and the caches, and the fields of the interface   *)
(* name the ones there are: start refuses while they are set, and stop     *)
(* unsets them only after join.                                            *)
(***************************************************************************)
OneOfEach == \A k \in Kinds : Cardinality(Alive(k)) <= 1 /\ Alive(k) \subseteq {thread[k]}

(***************************************************************************)
(* The IllegalStateException "Interface isn't running." is never thrown:   *)
(* where stop is called, both threads are there, started by this very      *)
(* combination (TunnelInterface.java:189).                                 *)
(***************************************************************************)
StopFindsThreads ==
  mainPc = "stop" => \A k \in Kinds : thread[k] = starts /\ Alive(k) = {starts}

(***************************************************************************)
(* A start that is refused has already replaced the statistic and the      *)
(* caches under the threads that it found running (TunnelInterface.java:   *)
(* 174-178).  From then on these threads count for a test that they do not *)
(* belong to, and nothing repairs it; but no test runs on that mixture, no *)
(* result is taken from it and no test passes: every later start is        *)
(* refused as well, to the end of the suite.                               *)
(***************************************************************************)
Mixed == \E k \in Kinds : \E s \in Alive(k) : s # statisticOf

RefusedForGood ==
  [][Mixed => /\ Mixed'
              /\ results' = results
              /\ \A t \in 1..Tests : outcome'[t] = "passed" => outcome[t] = "passed"]_vars

(***************************************************************************)
(* A test method that passes has put a result for every combination and    *)
(* file size into allTestsResults, and none has put in more than that.     *)
(***************************************************************************)
PassedIsComplete ==
  \A t \in 1..Tests :
    /\ results[t] <= Combos * FileSizes
    /\ outcome[t] = "passed" => results[t] = Combos * FileSizes

(***************************************************************************)
(* The suite comes to its end, where the results are written: no stop      *)
(* waits for ever.                                                         *)
(***************************************************************************)
SuiteEnds == <>(mainPc = "done" \/ aborted)

(***************************************************************************)
(* java_api.cpp:223 and :246, assert(tunnel): a thread that reads or       *)
(* writes finds the Tunnel object.  The code breaks it.                    *)
(***************************************************************************)
ThreadsFindTunnel == aborted => tunnel = "none"
===========================================================================
