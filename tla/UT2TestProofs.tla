---------------------------- MODULE UT2TestProofs ----------------------------
(***************************************************************************)
(* Proofs about UT2Test, for any number of clients, requests, rounds and   *)
(* faults.  IndInv relates the commands in the pipe of a client to the     *)
(* loops of the main thread (PipesKnown, ToldKnown), the line a client     *)
(* prints to the files it received (CountKnown, LinesKnown), and the last  *)
(* id of a handler to the clients that have still to send it (LastIdKnown).*)
(***************************************************************************)
EXTENDS UT2Test, TLAPS

---------------------------------------------------------------------------
(* The inductive invariant. *)

PipeType == stdin \in [ClientIds -> Seq(RoundIds \cup {Exit})]

\* The commands a client gets are 1, 2, ..., Rounds and exit.
Command(n) == IF n = Rounds + 1 THEN Exit ELSE n

\* How many of them have been written.
Told(c) == sending[c] + Len(stdin[c])

PipesKnown ==
  \A c \in ClientIds :
    /\ Told(c) <= Rounds + 1
    /\ \A k \in 1..Len(stdin[c]) : /\ stdin[c][k] <= installed
                                   /\ stdin[c][k] = Command(sending[c] + k)
    /\ sending[c] <= installed

ExitPcs == {"exitAlive", "exitWrite", "waitFor"}

\* The command that the main thread is writing to the clients.
CommandUnderWay == IF pc \in ExitPcs THEN Rounds + 1 ELSE round

\* Has it been written to c, unless c had ended?
Addressed(c) == c < i \/ pc = "join" \/ (c = i /\ pc \in {"spawn", "waitFor"})

ToldKnown ==
  pc \notin {"aborted", "validate", "returned"} =>
    \A c \in ClientIds : Running(c) =>
      Told(c) = IF Addressed(c) THEN CommandUnderWay ELSE CommandUnderWay - 1

MainKnown ==
  /\ pc \in {"handler", "install"} => i = 1 /\ installed = round - 1
  /\ pc = "install" => requestsHandler = round
  /\ pc \in {"alive", "write", "spawn", "join"} => installed = round /\ requestsHandler = round
  /\ pc \in ExitPcs => \A c \in ClientIds : c < i => ~Running(c)
  /\ pc \in {"validate", "returned"} => \A c \in ClientIds : ~Running(c)
  /\ pc \in ExitPcs \cup {"validate", "returned"} =>
       installed = Rounds /\ requestsHandler = Rounds
  /\ pc \notin {"validate", "returned"} => \A r \in RoundIds : results[r] = "none"

\* Where a client is in its loop.
LoopOf(c) ==
  /\ process[c] \in {"send", "wait"} => sending[c] # 0
  /\ process[c] = "wait" => index[c] < ReqAmount
  /\ process[c] \in {"command", "exited"} /\ sending[c] # 0 => index[c] = ReqAmount
  /\ process[c] = "exited" => sending[c] = Rounds

LoopKnown == \A c \in ClientIds : LoopOf(c)

\* success counts the requests that were answered, of all those made.
CountOf(c) ==
  /\ success[c] <= index[c]
  /\ process[c] \in {"send", "wait"} =>
       (success[c] = index[c] <=>
          \A id \in RequestIds : id < index[c] => <<c, sending[c], id>> \in answered)
  /\ \A r \in RoundIds, id \in RequestIds :
       <<c, r, id>> \in answered => r < sending[c] \/ (r = sending[c] /\ id < index[c])

CountKnown == \A c \in ClientIds : CountOf(c)

\* The line of a round, once it is printed, and what it says.
LineOf(c, r) ==
  /\ process[c] # "killed" =>
       (output[c][r] # NoLine <=>
          r < sending[c] \/ (r = sending[c] /\ process[c] \in {"command", "exited"}))
  /\ output[c][r] # NoLine =>
       (output[c][r] = ReqAmount <=> \A id \in RequestIds : <<c, r, id>> \in answered)

LinesKnown == \A c \in ClientIds, r \in RoundIds : LineOf(c, r)

\* The handler of a request is that of its round or a later one.
HandlersKnown ==
  \A q \in requests : /\ q.round <= installed
                      /\ q.handler # 0 => q.round <= q.handler

\* Without faults, nothing is under way that no client waits for.
RequestsKnown ==
  faults = 0 =>
    /\ \A c \in ClientIds : process[c] # "killed"
    /\ \A q \in requests : Awaited(q)
    /\ \A p, q \in requests : p.client = q.client => p = q

\* The last request of the last round of c has reached its handler.
Finished(c) ==
  /\ sending[c] = Rounds
  /\ \/ index[c] = ReqAmount
     \/ \E q \in requests : q.client = c /\ q.id = ReqAmount - 1 /\ q.served

LastIdKnown ==
  faults = 0 /\ (\A c \in ClientIds : Finished(c)) => lastRequestId[Rounds] = ReqAmount - 1

IndInv ==
  /\ TypeOK /\ PipeType
  /\ PipesKnown
  /\ ToldKnown
  /\ MainKnown
  /\ LoopKnown
  /\ CountKnown
  /\ LinesKnown
  /\ HandlersKnown
  /\ RequestsKnown
  /\ LastIdKnown
  /\ ResultsEarned

---------------------------------------------------------------------------
(* The parts of the invariant, by what they depend on. *)

LEMMA Numbers ==
  /\ Clients \in Nat \ {0} /\ ReqAmount \in Nat \ {0} /\ Rounds \in Nat \ {0}
  /\ 1 \in ClientIds /\ Clients \in ClientIds /\ 1 \in RoundIds /\ Rounds \in RoundIds
  /\ 0 \in RequestIds /\ ReqAmount - 1 \in RequestIds
  /\ \A c \in ClientIds : c \in Nat /\ 1 <= c /\ c <= Clients
  /\ \A r \in RoundIds : r \in Nat /\ 1 <= r /\ r <= Rounds
  /\ \A k \in RequestIds : k \in Nat /\ k <= ReqAmount - 1
  /\ \A n \in Nat : 1 <= n /\ n <= Clients => n \in ClientIds
  /\ \A n \in Nat : 1 <= n /\ n <= Rounds => n \in RoundIds
BY UT2TestAssumption DEF ClientIds, RoundIds, RequestIds

LEMMA PipeTypes ==
  ASSUME TypeOK, PipeType, NEW c \in ClientIds
  PROVE  /\ stdin[c] \in Seq(RoundIds \cup {Exit}) /\ Len(stdin[c]) \in Nat
         /\ sending[c] \in Nat /\ sending[c] <= Rounds
         /\ index[c] \in Nat /\ index[c] <= ReqAmount
         /\ success[c] \in Nat /\ success[c] <= ReqAmount
         /\ installed \in Nat /\ round \in Nat /\ i \in Nat /\ requestsHandler \in Nat
<1>1. stdin[c] \in Seq(RoundIds \cup {Exit}) /\ Len(stdin[c]) \in Nat
  <2>1. stdin[c] \in Seq(RoundIds \cup {Exit})
    BY DEF PipeType
  <2> QED
    BY <2>1
<1>2. /\ sending[c] \in RoundIds \cup {0} /\ index[c] \in 0..ReqAmount
      /\ success[c] \in 0..ReqAmount
      /\ installed \in RoundIds \cup {0} /\ requestsHandler \in RoundIds \cup {0}
      /\ round \in RoundIds /\ i \in ClientIds
  BY DEF TypeOK
<1>3. sending[c] \in Nat /\ sending[c] <= Rounds
  <2>1. sending[c] = 0 \/ sending[c] \in RoundIds
    BY <1>2
  <2>2. Rounds \in Nat /\ \A r \in RoundIds : r \in Nat /\ r <= Rounds
    BY Numbers
  <2> QED
    BY <2>1, <2>2
<1>4. /\ index[c] \in Nat /\ index[c] <= ReqAmount
      /\ success[c] \in Nat /\ success[c] <= ReqAmount
  BY <1>2, Numbers
<1>5. installed \in Nat /\ round \in Nat /\ i \in Nat /\ requestsHandler \in Nat
  BY <1>2, Numbers
<1> QED
  BY <1>1, <1>3, <1>4, <1>5

LEMMA ClientFrame ==
  ASSUME IndInv, UNCHANGED clientVars
  PROVE  LoopKnown' /\ CountKnown' /\ LinesKnown'
BY DEF clientVars, IndInv, LoopKnown, LoopOf, CountKnown, CountOf, LinesKnown, LineOf

LEMMA RequestFrame ==
  ASSUME IndInv, UNCHANGED <<clientVars, requests, faults, lastRequestId>>
  PROVE  RequestsKnown' /\ LastIdKnown'
BY DEF clientVars, IndInv, RequestsKnown, Awaited, LastIdKnown, Finished

LEMMA PipeFrame ==
  ASSUME IndInv, UNCHANGED <<stdin, sending, installed>>
  PROVE  PipeType' /\ PipesKnown'
BY DEF IndInv, PipeType, PipesKnown, Told

LEMMA ResultFrame ==
  ASSUME IndInv, UNCHANGED <<results, answered, process>>
  PROVE  ResultsEarned'
BY DEF IndInv, ResultsEarned

---------------------------------------------------------------------------
LEMMA InitIndInv == Init => IndInv
<1> SUFFICES ASSUME Init PROVE IndInv
  OBVIOUS
<1>1. TypeOK
  BY Numbers, UT2TestAssumption DEF Init, TypeOK
<1>2. PipeType
  BY DEF Init, PipeType
<1>3. \A c \in ClientIds : stdin[c] = <<>> /\ Len(stdin[c]) = 0 /\ sending[c] = 0 /\ Told(c) = 0
  BY DEF Init, Told
<1>4. PipesKnown
  BY <1>3, Numbers DEF Init, PipesKnown
<1>5. ToldKnown
  BY <1>3, Numbers DEF Init, ToldKnown, CommandUnderWay, Addressed, ExitPcs
<1>6. MainKnown
  BY DEF Init, MainKnown, ExitPcs
<1>7. LoopKnown
  BY DEF Init, LoopKnown, LoopOf
<1>8. CountKnown
  BY DEF Init, CountKnown, CountOf
<1>9. LinesKnown
  BY Numbers DEF Init, LinesKnown, LineOf
<1>10. HandlersKnown /\ RequestsKnown
  BY DEF Init, HandlersKnown, RequestsKnown
<1>11. LastIdKnown
  BY Numbers DEF Init, LastIdKnown, Finished
<1>12. ResultsEarned
  BY DEF Init, ResultsEarned
<1> QED
  BY <1>1, <1>2, <1>4, <1>5, <1>6, <1>7, <1>8, <1>9, <1>10, <1>11, <1>12 DEF IndInv

---------------------------------------------------------------------------
(***************************************************************************)
(* The main thread.                                                        *)
(***************************************************************************)
LEMMA NewHandlerIndInv == ASSUME IndInv, NewHandler PROVE IndInv'
<1>1. TypeOK'
  BY DEF NewHandler, clientVars, IndInv, TypeOK
<1>2. /\ LoopKnown' /\ CountKnown' /\ LinesKnown' /\ RequestsKnown' /\ LastIdKnown'
      /\ PipeType' /\ PipesKnown' /\ ResultsEarned'
  BY ClientFrame, RequestFrame, PipeFrame, ResultFrame DEF NewHandler, clientVars
<1>3. ToldKnown' /\ MainKnown' /\ HandlersKnown'
  BY DEF NewHandler, clientVars, IndInv, ToldKnown, Told, CommandUnderWay, Addressed, ExitPcs,
         Running, MainKnown, HandlersKnown
<1> QED
  BY <1>1, <1>2, <1>3 DEF IndInv

LEMMA SetServerHandlerIndInv == ASSUME IndInv, SetServerHandler PROVE IndInv'
<1>1. TypeOK'
  BY Numbers DEF SetServerHandler, clientVars, IndInv, TypeOK
<1>2. /\ LoopKnown' /\ CountKnown' /\ LinesKnown' /\ RequestsKnown' /\ LastIdKnown'
      /\ ResultsEarned'
  BY ClientFrame, RequestFrame, ResultFrame DEF SetServerHandler, clientVars
<1>3. installed \in Nat /\ installed <= installed' /\ round \in Nat /\ installed' \in Nat
  <2>1. installed = round - 1 /\ installed' = round
    BY DEF SetServerHandler, IndInv, MainKnown
  <2>2. round \in RoundIds
    BY DEF IndInv, TypeOK
  <2> QED
    BY <2>1, <2>2, Numbers
<1>4. PipeType' /\ PipesKnown'
  <2>1. ASSUME NEW c \in ClientIds, NEW k \in 1..Len(stdin[c]) PROVE stdin[c][k] <= installed'
    <3>1. stdin[c][k] \in Nat /\ stdin[c][k] <= installed
      <4>1. stdin[c][k] \in RoundIds \cup {Exit}
        BY PipeTypes DEF IndInv
      <4> QED
        BY <4>1, Numbers DEF IndInv, PipesKnown, Exit
    <3> QED
      BY <1>3, <3>1
  <2>2. \A c \in ClientIds : sending[c] <= installed'
    BY <1>3, PipeTypes DEF IndInv, PipesKnown
  <2> QED
    BY <2>1, <2>2 DEF SetServerHandler, clientVars, IndInv, PipeType, PipesKnown, Told
<1>5. ToldKnown'
  BY DEF SetServerHandler, clientVars, IndInv, TypeOK, MainKnown, ToldKnown, Told,
         CommandUnderWay, Addressed,
         ExitPcs, Running
<1>6. MainKnown'
  BY DEF SetServerHandler, IndInv, MainKnown, ExitPcs
<1>7. HandlersKnown'
  <2>1. \A q \in requests : q.round \in Nat
    BY Numbers DEF IndInv, TypeOK, Request
  <2> QED
    BY <1>3, <2>1 DEF SetServerHandler, IndInv, HandlersKnown
<1> QED
  BY <1>1, <1>2, <1>4, <1>5, <1>6, <1>7 DEF IndInv

LEMMA TestAliveIndInv == ASSUME IndInv, TestAlive PROVE IndInv'
<1>1. TypeOK'
  BY DEF TestAlive, clientVars, IndInv, TypeOK
<1>2. /\ LoopKnown' /\ CountKnown' /\ LinesKnown' /\ RequestsKnown' /\ LastIdKnown'
      /\ PipeType' /\ PipesKnown' /\ ResultsEarned'
  BY ClientFrame, RequestFrame, PipeFrame, ResultFrame DEF TestAlive, clientVars
<1>3. ToldKnown'
  BY DEF TestAlive, clientVars, IndInv, ToldKnown, Told, CommandUnderWay, Addressed, ExitPcs,
         Running
<1>4. MainKnown' /\ HandlersKnown'
  BY DEF TestAlive, clientVars, IndInv, MainKnown, ExitPcs, Running, HandlersKnown
<1> QED
  BY <1>1, <1>2, <1>3, <1>4 DEF IndInv

\* The command n goes into the pipe of client i, who has had all before it.
LEMMA WriteStep ==
  ASSUME IndInv, NEW n \in RoundIds \cup {Rounds + 1},
         Told(i) = n - 1, Command(n) <= installed,
         stdin' = [stdin EXCEPT ![i] = Append(@, Command(n))],
         UNCHANGED <<i, sending, installed>>
  PROVE  /\ PipeType' /\ PipesKnown'
         /\ Told(i)' = n
         /\ \A c \in ClientIds : c # i => Told(c)' = Told(c)
         /\ \A c \in ClientIds :
              /\ Len(stdin'[c]) <= Rounds + 1
              /\ \A k \in 1..Len(stdin'[c]) : stdin'[c][k] \in RoundIds \cup {Exit}
<1>1. /\ i \in ClientIds /\ stdin[i] \in Seq(RoundIds \cup {Exit})
      /\ Len(stdin[i]) \in Nat /\ sending[i] \in Nat
      /\ n \in Nat /\ n <= Rounds + 1 /\ Rounds \in Nat
      /\ Command(n) \in RoundIds \cup {Exit}
      /\ n = sending[i] + Len(stdin[i]) + 1
  <2>1. i \in ClientIds
    BY DEF IndInv, TypeOK
  <2>2. /\ stdin[i] \in Seq(RoundIds \cup {Exit})
        /\ Len(stdin[i]) \in Nat /\ sending[i] \in Nat
    BY <2>1, PipeTypes DEF IndInv
  <2>3. n \in Nat /\ n <= Rounds + 1 /\ Command(n) \in RoundIds \cup {Exit}
    BY Numbers DEF Command
  <2>4. sending[i] + Len(stdin[i]) = n - 1
    BY DEF Told
  <2> QED
    BY <2>1, <2>2, <2>3, <2>4, Numbers
<1> DEFINE s == Append(stdin[i], Command(n))
<1>2. /\ s \in Seq(RoundIds \cup {Exit}) /\ Len(s) = Len(stdin[i]) + 1
      /\ \A k \in 1..Len(stdin[i]) : s[k] = stdin[i][k]
      /\ s[Len(stdin[i]) + 1] = Command(n)
  BY <1>1
<1>3. /\ stdin' \in [ClientIds -> Seq(RoundIds \cup {Exit})]
      /\ stdin'[i] = s /\ \A c \in ClientIds : c # i => stdin'[c] = stdin[c]
  BY <1>1, <1>2 DEF IndInv, PipeType
<1> HIDE DEF s
<1>4. Told(i)' = n /\ \A c \in ClientIds : c # i => Told(c)' = Told(c)
  <2>1. Told(i)' = sending[i] + Len(s)
    BY <1>3 DEF Told
  <2>2. Told(i)' = n
    BY <1>1, <1>2, <2>1
  <2>3. \A c \in ClientIds : c # i => Told(c)' = Told(c)
    BY <1>3 DEF Told
  <2> QED
    BY <2>2, <2>3
<1>5. \A k \in 1..Len(s) : s[k] <= installed /\ s[k] = Command(sending[i] + k)
  <2> SUFFICES ASSUME NEW k \in 1..Len(s)
               PROVE  s[k] <= installed /\ s[k] = Command(sending[i] + k)
    OBVIOUS
  <2>1. CASE k \in 1..Len(stdin[i])
    BY <1>1, <1>2, <2>1 DEF IndInv, PipesKnown
  <2>2. CASE k = Len(stdin[i]) + 1
    <3>1. sending[i] + k = n
      BY <1>1, <2>2
    <3> QED
      BY <1>2, <2>2, <3>1
  <2> QED
    BY <1>1, <1>2, <2>1, <2>2
<1>6. PipesKnown'
  <2>1. ASSUME NEW c \in ClientIds
        PROVE  /\ Told(c)' <= Rounds + 1
               /\ \A k \in 1..Len(stdin'[c]) : /\ stdin'[c][k] <= installed
                                               /\ stdin'[c][k] = Command(sending[c] + k)
               /\ sending[c] <= installed
    <3>1. CASE c = i
      <4>1. Told(c)' = n /\ stdin'[c] = s
        BY <1>3, <1>4, <3>1
      <4>2. sending[c] <= installed
        BY DEF IndInv, PipesKnown
      <4> QED
        BY <1>1, <1>5, <3>1, <4>1, <4>2
    <3>2. CASE c # i
      BY <1>3, <1>4, <3>2 DEF IndInv, PipesKnown
    <3> QED
      BY <3>1, <3>2
  <2> QED
    BY <2>1 DEF PipesKnown
<1>7. \A c \in ClientIds : Len(stdin'[c]) <= Rounds + 1
  <2>1. Len(s) <= Rounds + 1
    BY <1>1, <1>2
  <2> QED
    BY <1>3, <2>1 DEF IndInv, TypeOK
<1>8. \A c \in ClientIds : \A k \in 1..Len(stdin'[c]) : stdin'[c][k] \in RoundIds \cup {Exit}
  BY <1>3
<1> QED
  BY <1>3, <1>4, <1>6, <1>7, <1>8 DEF PipeType

LEMMA WriteCommandIndInv == ASSUME IndInv, WriteCommand PROVE IndInv'
<1>1. /\ LoopKnown' /\ CountKnown' /\ LinesKnown' /\ RequestsKnown' /\ LastIdKnown'
      /\ ResultsEarned'
  BY ClientFrame, RequestFrame, ResultFrame DEF WriteCommand, clientVars
<1>2. HandlersKnown'
  BY DEF WriteCommand, IndInv, HandlersKnown
<1>3. i \in ClientIds /\ round \in RoundIds
  BY DEF IndInv, TypeOK
<1>4. CASE pc = "write" /\ Running(i)
  <2>1. /\ Told(i) = round - 1 /\ installed = round
        /\ Command(round) = round /\ round <= Rounds /\ round \in Nat
    BY <1>3, <1>4, Numbers
       DEF IndInv, ToldKnown, MainKnown, Addressed, CommandUnderWay, ExitPcs, Command
  <2>2. /\ stdin' = [stdin EXCEPT ![i] = Append(@, Command(round))]
        /\ UNCHANGED <<i, sending, installed>> /\ pc' = "spawn"
    BY <1>4, <2>1 DEF WriteCommand, clientVars
  <2>3. /\ PipeType' /\ PipesKnown'
        /\ Told(i)' = round
        /\ \A c \in ClientIds : c # i => Told(c)' = Told(c)
        /\ \A c \in ClientIds :
             /\ Len(stdin'[c]) <= Rounds + 1
             /\ \A k \in 1..Len(stdin'[c]) : stdin'[c][k] \in RoundIds \cup {Exit}
    <3>1. round \in RoundIds \cup {Rounds + 1} /\ Command(round) <= installed
      BY <1>3, <2>1
    <3> QED
      BY <2>1, <2>2, <3>1, WriteStep
  <2>4. TypeOK'
    BY <2>2, <2>3 DEF WriteCommand, clientVars, IndInv, TypeOK
  <2>5. ToldKnown'
    BY <1>3, <1>4, <2>2, <2>3, Numbers
       DEF WriteCommand, clientVars, IndInv, ToldKnown, Addressed, CommandUnderWay,
                                 ExitPcs, Running
  <2>6. MainKnown'
    BY <1>4, <2>2 DEF WriteCommand, IndInv, MainKnown, ExitPcs
  <2> QED
    BY <1>1, <1>2, <2>3, <2>4, <2>5, <2>6 DEF IndInv
<1>5. CASE pc = "exitWrite" /\ Running(i)
  <2> DEFINE n == Rounds + 1
  <2>1. /\ Told(i) = n - 1 /\ installed = Rounds
        /\ Command(n) = Exit /\ Exit <= installed
        /\ n \in RoundIds \cup {Rounds + 1}
    BY <1>3, <1>5, Numbers
       DEF IndInv, ToldKnown, MainKnown, Addressed, CommandUnderWay, ExitPcs, Command, Exit
  <2>2. /\ stdin' = [stdin EXCEPT ![i] = Append(@, Command(n))]
        /\ UNCHANGED <<i, sending, installed>> /\ pc' = "waitFor"
    BY <1>5, <2>1 DEF WriteCommand, clientVars
  <2>3. /\ PipeType' /\ PipesKnown'
        /\ Told(i)' = n
        /\ \A c \in ClientIds : c # i => Told(c)' = Told(c)
        /\ \A c \in ClientIds :
             /\ Len(stdin'[c]) <= Rounds + 1
             /\ \A k \in 1..Len(stdin'[c]) : stdin'[c][k] \in RoundIds \cup {Exit}
    <3>1. Command(n) <= installed
      BY <2>1
    <3> HIDE DEF n
    <3> QED
      BY <2>1, <2>2, <3>1, WriteStep
  <2>4. TypeOK'
    BY <2>2, <2>3 DEF WriteCommand, clientVars, IndInv, TypeOK
  <2>5. ToldKnown'
    BY <1>3, <1>5, <2>2, <2>3, Numbers
       DEF WriteCommand, clientVars, IndInv, ToldKnown, Addressed, CommandUnderWay,
                                 ExitPcs, Running
  <2>6. MainKnown'
    BY <1>5, <2>2 DEF WriteCommand, clientVars, IndInv, MainKnown, ExitPcs, Running
  <2> QED
    BY <1>1, <1>2, <2>3, <2>4, <2>5, <2>6 DEF IndInv
<1>6. CASE pc' = "aborted" /\ UNCHANGED stdin
  <2>1. PipeType' /\ PipesKnown'
    BY <1>6, PipeFrame DEF WriteCommand, clientVars
  <2>2. TypeOK' /\ ToldKnown' /\ MainKnown'
    BY <1>6 DEF WriteCommand, clientVars, IndInv, TypeOK, ToldKnown, MainKnown, ExitPcs
  <2> QED
    BY <1>1, <1>2, <2>1, <2>2 DEF IndInv
<1> QED
  BY <1>4, <1>5, <1>6 DEF WriteCommand

LEMMA StartResponseThreadIndInv == ASSUME IndInv, StartResponseThread PROVE IndInv'
<1>1. TypeOK'
  <2>1. thread' \in [RoundIds -> [ClientIds -> {"unborn", "check", "enter", "waiting", "done"}]]
    BY DEF StartResponseThread, IndInv, TypeOK
  <2>2. i' \in ClientIds
    <3>1. i \in ClientIds
      BY DEF IndInv, TypeOK
    <3> QED
      BY <3>1, Numbers DEF StartResponseThread
  <2> QED
    BY <2>1, <2>2 DEF StartResponseThread, clientVars, IndInv, TypeOK
<1>2. /\ LoopKnown' /\ CountKnown' /\ LinesKnown' /\ RequestsKnown' /\ LastIdKnown'
      /\ PipeType' /\ PipesKnown' /\ ResultsEarned'
  BY ClientFrame, RequestFrame, PipeFrame, ResultFrame DEF StartResponseThread, clientVars
<1>3. ToldKnown'
  <2>1. i \in ClientIds
    BY DEF IndInv, TypeOK
  <2> QED
    BY <2>1, Numbers DEF StartResponseThread, clientVars, IndInv, ToldKnown, Told, CommandUnderWay,
                         Addressed, ExitPcs, Running
<1>4. MainKnown' /\ HandlersKnown'
  BY DEF StartResponseThread, IndInv, MainKnown, ExitPcs, HandlersKnown
<1> QED
  BY <1>1, <1>2, <1>3, <1>4 DEF IndInv

LEMMA JoinIndInv == ASSUME IndInv, Join PROVE IndInv'
<1>1. TypeOK'
  <2>1. i' \in ClientIds /\ round' \in RoundIds
    <3>1. i \in ClientIds /\ round \in RoundIds
      BY DEF IndInv, TypeOK
    <3> QED
      BY <3>1, Numbers DEF Join, NextJoin
  <2> QED
    BY <2>1 DEF Join, NextJoin, clientVars, IndInv, TypeOK
<1>2. /\ LoopKnown' /\ CountKnown' /\ LinesKnown' /\ RequestsKnown' /\ LastIdKnown'
      /\ PipeType' /\ PipesKnown' /\ ResultsEarned'
  BY ClientFrame, RequestFrame, PipeFrame, ResultFrame DEF Join, NextJoin, clientVars
<1>3. round \in RoundIds /\ i \in ClientIds
  BY DEF IndInv, TypeOK
<1>4. ToldKnown'
  BY <1>3, Numbers
     DEF Join, NextJoin, clientVars, IndInv, ToldKnown, Told, CommandUnderWay, Addressed,
                       ExitPcs, Running
<1>5. MainKnown' /\ HandlersKnown'
  BY <1>3, Numbers DEF Join, NextJoin, IndInv, MainKnown, ExitPcs, HandlersKnown
<1> QED
  BY <1>1, <1>2, <1>4, <1>5 DEF IndInv

LEMMA WaitForIndInv == ASSUME IndInv, WaitFor PROVE IndInv'
<1>1. TypeOK'
  <2>1. i' \in ClientIds /\ round' \in RoundIds
    <3>1. i \in ClientIds /\ round \in RoundIds
      BY DEF IndInv, TypeOK
    <3> QED
      BY <3>1, Numbers DEF WaitFor
  <2> QED
    BY <2>1 DEF WaitFor, clientVars, IndInv, TypeOK
<1>2. /\ LoopKnown' /\ CountKnown' /\ LinesKnown' /\ RequestsKnown' /\ LastIdKnown'
      /\ PipeType' /\ PipesKnown' /\ ResultsEarned'
  BY ClientFrame, RequestFrame, PipeFrame, ResultFrame DEF WaitFor, clientVars
<1>3. i \in ClientIds
  BY DEF IndInv, TypeOK
<1>4. ToldKnown'
  BY <1>3, Numbers DEF WaitFor, clientVars, IndInv, ToldKnown, Told, CommandUnderWay, Addressed,
                       ExitPcs, Running
<1>5. MainKnown'
  BY <1>3, Numbers DEF WaitFor, clientVars, IndInv, MainKnown, ExitPcs, Running
<1>6. HandlersKnown'
  BY DEF WaitFor, IndInv, HandlersKnown
<1> QED
  BY <1>1, <1>2, <1>4, <1>5, <1>6 DEF IndInv

LEMMA ValidateIndInv == ASSUME IndInv, Validate PROVE IndInv'
<1>1. TypeOK'
  <2>1. results' \in [RoundIds -> {"none", "success", "failure"}]
    BY DEF Validate, IndInv, TypeOK
  <2>2. round' \in RoundIds
    <3>1. round \in RoundIds
      BY DEF IndInv, TypeOK
    <3> QED
      BY <3>1, Numbers DEF Validate
  <2> QED
    BY <2>1, <2>2 DEF Validate, clientVars, IndInv, TypeOK
<1>2. /\ LoopKnown' /\ CountKnown' /\ LinesKnown' /\ RequestsKnown' /\ LastIdKnown'
      /\ PipeType' /\ PipesKnown'
  BY ClientFrame, RequestFrame, PipeFrame DEF Validate, clientVars
<1>3. ToldKnown' /\ MainKnown' /\ HandlersKnown'
  BY DEF Validate, clientVars, IndInv, ToldKnown, MainKnown, Running, HandlersKnown
<1>4. ResultsEarned'
  <2> DEFINE All(r) == \A c \in ClientIds, id \in RequestIds : <<c, r, id>> \in answered
             Killed == \E c \in ClientIds : process[c] = "killed"
  <2>1. ASSUME NEW r \in RoundIds, \A c \in ClientIds : Validated(c, r) PROVE All(r)
    <3>1. \A c \in ClientIds : output[c][r] = ReqAmount /\ ReqAmount # NoLine
      BY <2>1, Numbers DEF Validated, NoLine
    <3> QED
      BY <3>1 DEF IndInv, LinesKnown, LineOf
  <2>2. ASSUME NEW r \in RoundIds, NEW c \in ClientIds, ~Validated(c, r)
        PROVE  ~All(r) \/ Killed
    <3>1. CASE process[c] = "exited"
      <4>1. output[c][r] # NoLine
        BY <3>1, Numbers DEF IndInv, LoopKnown, LoopOf, LinesKnown, LineOf
      <4> QED
        BY <2>2, <4>1 DEF Validated, IndInv, LinesKnown, LineOf
    <3>2. process[c] \in {"exited", "killed"}
      BY DEF Validate, IndInv, MainKnown, Running
    <3> QED
      BY <3>1, <3>2
  <2>3. \A r \in RoundIds : /\ results'[r] = "success" => All(r)
                            /\ results'[r] = "failure" => ~All(r) \/ Killed
    <3> SUFFICES ASSUME NEW r \in RoundIds
                 PROVE  /\ results'[r] = "success" => All(r)
                        /\ results'[r] = "failure" => ~All(r) \/ Killed
      OBVIOUS
    <3>1. CASE r = round
      <4>1. results'[r] = IF \A c \in ClientIds : Validated(c, r) THEN "success" ELSE "failure"
        BY <3>1 DEF Validate, IndInv, TypeOK
      <4> QED
        BY <2>1, <2>2, <4>1
    <3>2. CASE r # round
      <4>1. results'[r] = results[r]
        BY <3>2 DEF Validate, IndInv
      <4> QED
        BY <4>1 DEF IndInv, ResultsEarned
    <3> QED
      BY <3>1, <3>2
  <2> QED
    BY <2>3 DEF Validate, clientVars, ResultsEarned
<1> QED
  BY <1>1, <1>2, <1>3, <1>4 DEF IndInv

---------------------------------------------------------------------------
(***************************************************************************)
(* The response threads and the server.                                    *)
(***************************************************************************)
LEMMA MainFrame ==
  ASSUME IndInv, UNCHANGED standVars,
         \A c \in ClientIds : Told(c)' = Told(c) /\ (Running(c)' => Running(c))
  PROVE  ToldKnown' /\ MainKnown'
<1>1. UNCHANGED <<pc, round, i, requestsHandler, installed, results>>
  BY DEF standVars
<1>2. ToldKnown'
  BY <1>1 DEF IndInv, ToldKnown, CommandUnderWay, Addressed
<1>3. MainKnown'
  BY <1>1 DEF IndInv, MainKnown
<1> QED
  BY <1>2, <1>3

LEMMA ResponseThreadIndInv ==
  ASSUME IndInv, NEW r \in RoundIds, NEW c \in ClientIds, ResponseThread(r, c)
  PROVE  IndInv'
<1>1. /\ UNCHANGED <<standVars, lastRequestId, stdin, clientVars, requests, faults>>
      /\ \E to \in {"check", "enter", "waiting", "done"} : thread' = [thread EXCEPT ![r][c] = to]
  BY DEF ResponseThread, CheckLast, Wait, WaitTimeout, ThreadTo
<1>2. TypeOK'
  <2>1. thread' \in [RoundIds -> [ClientIds -> {"unborn", "check", "enter", "waiting", "done"}]]
    BY <1>1 DEF IndInv, TypeOK
  <2> QED
    BY <1>1, <2>1 DEF standVars, clientVars, IndInv, TypeOK
<1>3. /\ LoopKnown' /\ CountKnown' /\ LinesKnown' /\ RequestsKnown' /\ LastIdKnown'
      /\ PipeType' /\ PipesKnown' /\ ResultsEarned' /\ HandlersKnown'
  BY <1>1, ClientFrame, RequestFrame, PipeFrame, ResultFrame
     DEF standVars, clientVars, IndInv, HandlersKnown
<1>4. ToldKnown' /\ MainKnown'
  BY <1>1, MainFrame DEF clientVars, Told, Running
<1> QED
  BY <1>2, <1>3, <1>4 DEF IndInv

\* The fields of a request, and of one whose handler or answer is new.
LEMMA RequestFields ==
  ASSUME NEW q \in Request
  PROVE  /\ q.client \in ClientIds /\ q.round \in RoundIds /\ q.id \in RequestIds
         /\ q.handler \in RoundIds \cup {0} /\ q.served \in BOOLEAN
         /\ \A h \in RoundIds \cup {0} :
              LET p == [q EXCEPT !.handler = h]
              IN  /\ p \in Request /\ p.client = q.client /\ p.round = q.round
                  /\ p.id = q.id /\ p.handler = h /\ p.served = q.served
         /\ LET p == [q EXCEPT !.served = TRUE]
            IN  /\ p \in Request /\ p.client = q.client /\ p.round = q.round
                /\ p.id = q.id /\ p.handler = q.handler /\ p.served
BY DEF Request

LEMMA CreatePipeIndInv ==
  ASSUME IndInv, NEW q \in requests, CreatePipe(q)
  PROVE  IndInv'
<1> DEFINE p == [q EXCEPT !.handler = installed]
<1>1. /\ requests' = (requests \ {q}) \cup {p}
      /\ UNCHANGED <<standVars, lastRequestId, thread, stdin, clientVars, faults>>
  BY DEF CreatePipe
<1>2. /\ p \in Request /\ p.client = q.client /\ p.round = q.round
      /\ p.id = q.id /\ p.handler = installed /\ p.served = q.served
  BY RequestFields DEF IndInv, TypeOK
<1> HIDE DEF p
<1>3. TypeOK'
  BY <1>1, <1>2 DEF standVars, clientVars, IndInv, TypeOK
<1>4. /\ LoopKnown' /\ CountKnown' /\ LinesKnown' /\ PipeType' /\ PipesKnown' /\ ResultsEarned'
  BY <1>1, ClientFrame, PipeFrame, ResultFrame DEF standVars, clientVars
<1>5. ToldKnown' /\ MainKnown'
  BY <1>1, MainFrame DEF clientVars, Told, Running
<1>6. HandlersKnown'
  BY <1>1, <1>2 DEF standVars, IndInv, HandlersKnown
<1>7. RequestsKnown'
  BY <1>1, <1>2 DEF clientVars, IndInv, RequestsKnown, Awaited
<1>8. LastIdKnown'
  BY <1>1, <1>2 DEF clientVars, IndInv, LastIdKnown, Finished
<1> QED
  BY <1>3, <1>4, <1>5, <1>6, <1>7, <1>8 DEF IndInv

LEMMA OnChunkIndInv ==
  ASSUME IndInv, NEW q \in requests, OnChunk(q)
  PROVE  IndInv'
<1> DEFINE p == [q EXCEPT !.served = TRUE]
<1>1. /\ requests' = (requests \ {q}) \cup (IF Awaited(q) THEN {p} ELSE {})
      /\ UNCHANGED <<standVars, stdin, clientVars, faults>>
      /\ q.handler # 0
  BY DEF OnChunk
<1>2. /\ q \in Request /\ q.client \in ClientIds /\ q.id \in RequestIds /\ q.handler \in RoundIds
      /\ q.round \in RoundIds
      /\ p \in Request /\ p.client = q.client /\ p.round = q.round
      /\ p.id = q.id /\ p.handler = q.handler /\ p.served
  BY <1>1, RequestFields DEF IndInv, TypeOK
<1> HIDE DEF p
<1>3. TypeOK'
  <2>1. lastRequestId' \in [RoundIds -> RequestIds]
    BY <1>2 DEF OnChunk, IndInv, TypeOK
  <2>2. thread' \in [RoundIds -> [ClientIds -> {"unborn", "check", "enter", "waiting", "done"}]]
    <3>1. thread' = [r \in RoundIds |-> [c \in ClientIds |->
             IF thread[r][c] = "waiting" THEN "check" ELSE thread[r][c]]]
      BY DEF OnChunk
    <3>2. \A r \in RoundIds, c \in ClientIds :
             thread[r][c] \in {"unborn", "check", "enter", "waiting", "done"}
      BY DEF IndInv, TypeOK
    <3> QED
      BY <3>1, <3>2
  <2>3. requests' \subseteq Request
    BY <1>1, <1>2 DEF IndInv, TypeOK
  <2> QED
    BY <1>1, <2>1, <2>2, <2>3 DEF standVars, clientVars, IndInv, TypeOK
<1>4. /\ LoopKnown' /\ CountKnown' /\ LinesKnown' /\ PipeType' /\ PipesKnown' /\ ResultsEarned'
  BY <1>1, ClientFrame, PipeFrame, ResultFrame DEF standVars, clientVars
<1>5. ToldKnown' /\ MainKnown'
  BY <1>1, MainFrame DEF clientVars, Told, Running
<1>6. HandlersKnown'
  BY <1>1, <1>2 DEF standVars, IndInv, HandlersKnown
<1>7. RequestsKnown'
  BY <1>1, <1>2 DEF clientVars, IndInv, RequestsKnown, Awaited
<1>8. LastIdKnown'
  <2> SUFFICES ASSUME faults = 0, \A c \in ClientIds : Finished(c)'
               PROVE  lastRequestId'[Rounds] = ReqAmount - 1
    BY <1>1 DEF LastIdKnown
  <2>1. /\ Awaited(q)
        /\ \A d \in requests : d.client = q.client => d = q
    BY DEF IndInv, RequestsKnown
  <2>2. /\ process[q.client] = "wait" /\ sending[q.client] = q.round /\ index[q.client] = q.id
        /\ q.id # ReqAmount
    BY <1>2, <2>1, Numbers DEF Awaited, IndInv, LoopKnown, LoopOf
  <2>3. q.round = Rounds /\ q.id = ReqAmount - 1
    <3>1. Finished(q.client)'
      BY <1>1, <1>2, Numbers DEF clientVars, Finished
    <3>2. /\ sending[q.client] = Rounds
          /\ \E d \in requests' : d.client = q.client /\ d.id = ReqAmount - 1
      BY <1>1, <1>2, <2>2, <3>1 DEF clientVars, Finished
    <3> QED
      BY <1>1, <1>2, <2>1, <2>2, <3>2
  <2>4. q.handler = Rounds
    <3>1. q.round <= q.handler
      BY <1>1 DEF IndInv, HandlersKnown
    <3>2. q.handler \in Nat /\ q.handler <= Rounds /\ Rounds \in Nat
      BY <1>2, Numbers
    <3> QED
      BY <2>3, <3>1, <3>2
  <2> QED
    BY <2>3, <2>4, Numbers DEF OnChunk, IndInv, TypeOK
<1> QED
  BY <1>3, <1>4, <1>5, <1>6, <1>7, <1>8 DEF IndInv

---------------------------------------------------------------------------
(***************************************************************************)
(* The client program.                                                     *)
(***************************************************************************)
\* The next command, if there is one.
LEMMA NextCommand ==
  ASSUME IndInv, NEW c \in ClientIds, stdin[c] # <<>>
  PROVE  /\ Head(stdin[c]) = Command(sending[c] + 1)
         /\ Head(stdin[c]) <= installed
         /\ sending[c] + 1 \in Nat /\ sending[c] + 1 <= Rounds + 1
         /\ Tail(stdin[c]) \in Seq(RoundIds \cup {Exit})
         /\ Len(Tail(stdin[c])) = Len(stdin[c]) - 1
         /\ Len(stdin[c]) \in Nat
         /\ \A k \in 1..Len(Tail(stdin[c])) :
              /\ Tail(stdin[c])[k] = stdin[c][k + 1]
              /\ k + 1 \in 1..Len(stdin[c])
<1> DEFINE s == stdin[c]
<1>1. s \in Seq(RoundIds \cup {Exit}) /\ Len(s) \in Nat /\ sending[c] \in Nat
  BY PipeTypes DEF IndInv
<1>2. /\ Told(c) = sending[c] + Len(s) /\ Told(c) <= Rounds + 1
      /\ \A k \in 1..Len(s) : s[k] <= installed /\ s[k] = Command(sending[c] + k)
      /\ s # <<>>
  BY DEF IndInv, PipesKnown, Told
<1> HIDE DEF s
<1>3. Len(s) >= 1 /\ 1 \in 1..Len(s) /\ Head(s) = s[1]
  BY <1>1, <1>2
<1>4. /\ Tail(s) \in Seq(RoundIds \cup {Exit}) /\ Len(Tail(s)) = Len(s) - 1
      /\ \A k \in 1..Len(Tail(s)) : Tail(s)[k] = s[k + 1] /\ k + 1 \in 1..Len(s)
  BY <1>1, <1>3
<1>5. sending[c] + 1 \in Nat /\ sending[c] + 1 <= Rounds + 1
  BY <1>1, <1>2, <1>3, Numbers
<1>6. s[1] <= installed /\ s[1] = Command(sending[c] + 1)
  BY <1>2, <1>3
<1> QED
  BY <1>1, <1>3, <1>4, <1>5, <1>6 DEF s

LEMMA ReadSendIndInv ==
  ASSUME IndInv, NEW c \in ClientIds, ReadSend(c)
  PROVE  IndInv'
<1>1. /\ UNCHANGED <<standVars, lastRequestId, thread, output, answered, requests, faults>>
      /\ process[c] = "command" /\ stdin[c] # <<>> /\ Head(stdin[c]) # Exit
  BY DEF ReadSend
<1> DEFINE n == sending[c] + 1
<1>2. n \in RoundIds /\ Head(stdin[c]) = n /\ n <= installed /\ n \in Nat
      /\ sending[c] \in Nat /\ index[c] \in Nat /\ installed \in Nat
  <2>1. n # Rounds + 1
    BY <1>1, NextCommand DEF Command
  <2>2. sending[c] \in Nat /\ index[c] \in Nat /\ installed \in Nat
    BY PipeTypes DEF IndInv
  <2> QED
    BY <1>1, <2>1, <2>2, NextCommand DEF Command
<1>3. /\ process'[c] = "send" /\ sending'[c] = n /\ index'[c] = 0 /\ success'[c] = 0
      /\ stdin'[c] = Tail(stdin[c])
      /\ \A d \in ClientIds : d # c =>
           /\ process'[d] = process[d] /\ sending'[d] = sending[d] /\ index'[d] = index[d]
           /\ success'[d] = success[d] /\ stdin'[d] = stdin[d]
      /\ process' \in [ClientIds -> {"command", "send", "wait", "exited", "killed"}]
      /\ sending' \in [ClientIds -> RoundIds \cup {0}]
      /\ index' \in [ClientIds -> 0..ReqAmount] /\ success' \in [ClientIds -> 0..ReqAmount]
      /\ stdin' \in [ClientIds -> Seq(RoundIds \cup {Exit})]
  <2>1. /\ process'[c] = "send" /\ \A d \in ClientIds : d # c => process'[d] = process[d]
        /\ process' \in [ClientIds -> {"command", "send", "wait", "exited", "killed"}]
    BY DEF ReadSend, IndInv, TypeOK
  <2>2. /\ sending'[c] = n /\ \A d \in ClientIds : d # c => sending'[d] = sending[d]
        /\ sending' \in [ClientIds -> RoundIds \cup {0}]
    BY <1>2 DEF ReadSend, IndInv, TypeOK
  <2>3. /\ index'[c] = 0 /\ \A d \in ClientIds : d # c => index'[d] = index[d]
        /\ index' \in [ClientIds -> 0..ReqAmount]
    BY Numbers DEF ReadSend, IndInv, TypeOK
  <2>4. /\ success'[c] = 0 /\ \A d \in ClientIds : d # c => success'[d] = success[d]
        /\ success' \in [ClientIds -> 0..ReqAmount]
    BY Numbers DEF ReadSend, IndInv, TypeOK
  <2>5. /\ stdin'[c] = Tail(stdin[c]) /\ \A d \in ClientIds : d # c => stdin'[d] = stdin[d]
        /\ stdin' \in [ClientIds -> Seq(RoundIds \cup {Exit})]
    BY <1>1, NextCommand DEF ReadSend, IndInv, PipeType
  <2> QED
    BY <2>1, <2>2, <2>3, <2>4, <2>5
<1>4. \A d \in ClientIds : Told(d)' = Told(d)
  <2>1. Told(c)' = Told(c)
    <3>1. Told(c)' = n + Len(Tail(stdin[c]))
      BY <1>3 DEF Told
    <3>2. Len(Tail(stdin[c])) = Len(stdin[c]) - 1 /\ Len(stdin[c]) \in Nat
      BY <1>1, NextCommand
    <3> QED
      BY <1>2, <3>1, <3>2 DEF Told
  <2>2. \A d \in ClientIds : d # c => Told(d)' = Told(d)
    BY <1>3 DEF Told
  <2> QED
    BY <2>1, <2>2
<1> HIDE DEF n
<1>5. TypeOK'
  <2>1. \A d \in ClientIds : Len(stdin'[d]) <= Rounds + 1
    <3>1. Len(stdin'[c]) = Len(stdin[c]) - 1 /\ Len(stdin[c]) \in Nat
      BY <1>1, <1>3, NextCommand
    <3>2. \A d \in ClientIds : Len(stdin[d]) <= Rounds + 1
      BY DEF IndInv, TypeOK
    <3>3. Len(stdin'[c]) <= Rounds + 1
      BY <3>1, <3>2, Numbers
    <3> QED
      BY <1>3, <3>2, <3>3
  <2>2. \A d \in ClientIds : \A k \in 1..Len(stdin'[d]) : stdin'[d][k] \in RoundIds \cup {Exit}
    BY <1>3
  <2> QED
    BY <1>1, <1>3, <2>1, <2>2 DEF standVars, IndInv, TypeOK
<1>6. PipeType' /\ PipesKnown'
  <2>1. ASSUME NEW d \in ClientIds
        PROVE  /\ \A k \in 1..Len(stdin'[d]) : /\ stdin'[d][k] <= installed
                                               /\ stdin'[d][k] = Command(sending'[d] + k)
               /\ sending'[d] <= installed
    <3>1. CASE d # c
      BY <1>3, <3>1 DEF IndInv, PipesKnown
    <3>2. CASE d = c
      <4>1. ASSUME NEW k \in 1..Len(Tail(stdin[c]))
            PROVE  /\ Tail(stdin[c])[k] <= installed
                   /\ Tail(stdin[c])[k] = Command(n + k)
        <5>1. /\ Tail(stdin[c])[k] = stdin[c][k + 1] /\ k + 1 \in 1..Len(stdin[c])
          BY <1>1, NextCommand
        <5>2. stdin[c][k + 1] <= installed /\ stdin[c][k + 1] = Command(sending[c] + (k + 1))
          BY <5>1 DEF IndInv, PipesKnown
        <5>3. sending[c] + (k + 1) = n + k
          BY <1>2 DEF n
        <5> QED
          BY <5>1, <5>2, <5>3
      <4> QED
        BY <1>2, <1>3, <3>2, <4>1
    <3> QED
      BY <3>1, <3>2
  <2> QED
    BY <1>1, <1>3, <1>4, <2>1 DEF standVars, IndInv, PipeType, PipesKnown
<1>7. ToldKnown' /\ MainKnown'
  BY <1>1, <1>3, <1>4, MainFrame DEF Running
<1>8. LoopKnown'
  <2>1. n # 0
    BY <1>2, Numbers
  <2> QED
    BY <1>3, <2>1 DEF IndInv, LoopKnown, LoopOf
<1>9. CountKnown'
  <2>1. ~\E k \in RequestIds : k < 0
    BY Numbers
  <2>2. ASSUME NEW r \in RoundIds, NEW k \in RequestIds, <<c, r, k>> \in answered PROVE r < n
    <3>1. r <= sending[c] /\ r \in Nat
      BY <1>2, <2>2, Numbers DEF IndInv, CountKnown, CountOf
    <3> QED
      BY <1>2, <3>1 DEF n
  <2>3. CountOf(c)'
    BY <1>1, <1>3, <2>1, <2>2 DEF CountOf
  <2>4. ASSUME NEW d \in ClientIds, d # c PROVE CountOf(d)'
    BY <1>1, <1>3, <2>4 DEF IndInv, CountKnown, CountOf
  <2> QED
    BY <2>3, <2>4 DEF CountKnown
<1>10. LinesKnown'
  <2>1. \A r \in RoundIds : (r < n <=> r < sending[c] \/ r = sending[c])
    BY <1>2, Numbers DEF n
  <2>2. \A r \in RoundIds : output[c][r] # NoLine <=> r < n
    BY <1>1, <2>1 DEF IndInv, LinesKnown, LineOf
  <2>3. ASSUME NEW r \in RoundIds PROVE LineOf(c, r)'
    BY <1>1, <1>3, <2>2 DEF IndInv, LinesKnown, LineOf
  <2>4. ASSUME NEW d \in ClientIds, NEW r \in RoundIds, d # c PROVE LineOf(d, r)'
    BY <1>1, <1>3, <2>4 DEF IndInv, LinesKnown, LineOf
  <2> QED
    BY <2>3, <2>4 DEF LinesKnown
<1>11. HandlersKnown'
  BY <1>1 DEF standVars, IndInv, HandlersKnown
<1>12. faults = 0 => \A q \in requests : q.client # c /\ q.client \in ClientIds
  BY <1>1, RequestFields DEF IndInv, TypeOK, RequestsKnown, Awaited
<1>13. RequestsKnown'
  BY <1>1, <1>3, <1>12 DEF IndInv, RequestsKnown, Awaited
<1>14. LastIdKnown'
  <2>1. faults = 0 => ~Finished(c)'
    BY <1>1, <1>3, <1>12, Numbers DEF Finished
  <2> QED
    BY <1>1, <2>1 DEF LastIdKnown
<1>15. ResultsEarned'
  BY <1>1, <1>3 DEF standVars, IndInv, ResultsEarned
<1> QED
  BY <1>3, <1>5, <1>6, <1>7, <1>8, <1>9, <1>10, <1>11, <1>13, <1>14, <1>15 DEF IndInv

LEMMA ReadExitIndInv ==
  ASSUME IndInv, NEW c \in ClientIds, ReadExit(c)
  PROVE  IndInv'
<1>1. /\ UNCHANGED <<standVars, lastRequestId, thread, sending, index, success, output,
                     answered, requests, faults>>
      /\ process[c] = "command" /\ stdin[c] # <<>> /\ Head(stdin[c]) = Exit
  BY DEF ReadExit
<1>2. sending[c] = Rounds
  <2>1. /\ Command(sending[c] + 1) = Exit
        /\ sending[c] \in Nat /\ Rounds \in Nat
    BY <1>1, NextCommand, PipeTypes, Numbers DEF IndInv
  <2> QED
    BY <2>1 DEF Command, Exit
<1>3. /\ process'[c] = "exited" /\ stdin'[c] = Tail(stdin[c])
      /\ \A d \in ClientIds : d # c => process'[d] = process[d] /\ stdin'[d] = stdin[d]
      /\ process' \in [ClientIds -> {"command", "send", "wait", "exited", "killed"}]
      /\ stdin' \in [ClientIds -> Seq(RoundIds \cup {Exit})]
  BY <1>1, NextCommand DEF ReadExit, IndInv, TypeOK, PipeType
<1>4. Len(stdin'[c]) = 0
  <2>1. Rounds + Len(stdin[c]) <= Rounds + 1 /\ Rounds \in Nat
    BY <1>2, Numbers DEF IndInv, PipesKnown, Told
  <2>2. Len(stdin'[c]) = Len(stdin[c]) - 1 /\ Len(stdin[c]) \in Nat /\ Len(stdin'[c]) \in Nat
    BY <1>1, <1>3, NextCommand
  <2> DEFINE m == Len(stdin[c])
             n == Len(stdin'[c])
  <2>3. Rounds + m <= Rounds + 1 /\ Rounds \in Nat /\ n = m - 1 /\ m \in Nat /\ n \in Nat
    BY <2>1, <2>2
  <2> HIDE DEF m, n
  <2>4. n = 0
    BY <2>3
  <2> QED
    BY <2>4 DEF n
<1>5. TypeOK'
  <2>1. \A d \in ClientIds : Len(stdin'[d]) <= Rounds + 1
    <3>1. 0 <= Rounds + 1
      BY Numbers
    <3> QED
      BY <1>3, <1>4, <3>1 DEF IndInv, TypeOK
  <2>2. \A d \in ClientIds : \A k \in 1..Len(stdin'[d]) : stdin'[d][k] \in RoundIds \cup {Exit}
    BY <1>3
  <2> QED
    BY <1>1, <1>3, <2>1, <2>2 DEF standVars, IndInv, TypeOK
<1>6. PipeType' /\ PipesKnown'
  <2>1. Told(c)' = Rounds /\ Rounds \in Nat
    BY <1>1, <1>2, <1>4, Numbers DEF Told
  <2>2. \A d \in ClientIds : d # c => Told(d)' = Told(d)
    BY <1>1, <1>3 DEF Told
  <2>3. \A d \in ClientIds : Told(d)' <= Rounds + 1
    BY <2>1, <2>2 DEF IndInv, PipesKnown
  <2>4. ASSUME NEW d \in ClientIds, NEW k \in 1..Len(stdin'[d])
        PROVE  stdin'[d][k] <= installed /\ stdin'[d][k] = Command(sending[d] + k)
    <3>1. d # c
      BY <1>4, <2>4
    <3> QED
      BY <1>3, <2>4, <3>1 DEF IndInv, PipesKnown
  <2> QED
    BY <1>1, <1>3, <2>3, <2>4 DEF standVars, IndInv, PipeType, PipesKnown
<1>7. ToldKnown' /\ MainKnown'
  <2>1. \A d \in ClientIds : Running(d)' => Running(d) /\ d # c
    BY <1>3 DEF Running
  <2>2. \A d \in ClientIds : d # c => Told(d)' = Told(d)
    BY <1>1, <1>3 DEF Told
  <2>3. UNCHANGED <<pc, round, i, requestsHandler, installed, results>>
    BY <1>1 DEF standVars
  <2> QED
    BY <2>1, <2>2, <2>3 DEF IndInv, ToldKnown, MainKnown, CommandUnderWay, Addressed
<1>8. LoopKnown'
  BY <1>1, <1>2, <1>3 DEF IndInv, LoopKnown, LoopOf
<1>9. CountKnown' /\ LinesKnown'
  <2>1. ASSUME NEW d \in ClientIds
        PROVE  /\ process'[d] \in {"send", "wait"} <=> process[d] \in {"send", "wait"}
               /\ process'[d] \in {"command", "exited"} <=> process[d] \in {"command", "exited"}
               /\ process'[d] = "killed" <=> process[d] = "killed"
    <3>1. CASE d = c
      BY <1>1, <1>3, <3>1
    <3>2. CASE d # c
      BY <1>3, <3>2
    <3> QED
      BY <3>1, <3>2
  <2>2. \A d \in ClientIds : CountOf(d)'
    BY <1>1, <2>1 DEF IndInv, CountKnown, CountOf
  <2>3. \A d \in ClientIds, r \in RoundIds : LineOf(d, r)'
    BY <1>1, <2>1 DEF IndInv, LinesKnown, LineOf
  <2> QED
    BY <2>2, <2>3 DEF CountKnown, LinesKnown
<1>10. HandlersKnown' /\ LastIdKnown'
  BY <1>1 DEF standVars, IndInv, HandlersKnown, LastIdKnown, Finished
<1>11. RequestsKnown'
  <2>1. faults = 0 => \A q \in requests : q.client # c /\ q.client \in ClientIds
    BY <1>1, RequestFields DEF IndInv, TypeOK, RequestsKnown, Awaited
  <2> QED
    BY <1>1, <1>3, <2>1 DEF IndInv, RequestsKnown, Awaited
<1>12. ResultsEarned'
  BY <1>1, <1>3 DEF standVars, IndInv, ResultsEarned
<1> QED
  BY <1>5, <1>6, <1>7, <1>8, <1>9, <1>10, <1>11, <1>12 DEF IndInv

LEMMA ExecuteIndInv ==
  ASSUME IndInv, NEW c \in ClientIds, Execute(c)
  PROVE  IndInv'
<1> DEFINE q == NewRequest(c, index[c])
<1>1. /\ UNCHANGED <<standVars, lastRequestId, thread, stdin, sending, index, success,
                     output, answered, faults>>
      /\ process[c] = "send" /\ index[c] < ReqAmount
      /\ requests' = requests \cup {q}
  BY DEF Execute
<1>2. /\ process'[c] = "wait" /\ \A d \in ClientIds : d # c => process'[d] = process[d]
      /\ process' \in [ClientIds -> {"command", "send", "wait", "exited", "killed"}]
  BY DEF Execute, IndInv, TypeOK
<1>3. /\ q \in Request /\ q.client = c /\ q.round = sending[c] /\ q.id = index[c]
      /\ q.handler = 0 /\ ~q.served
  <2>1. sending[c] \in RoundIds
    BY <1>1 DEF IndInv, TypeOK, LoopKnown, LoopOf
  <2>2. index[c] \in RequestIds
    BY <1>1, PipeTypes, Numbers DEF IndInv, RequestIds
  <2> QED
    BY <2>1, <2>2 DEF NewRequest, Request
<1> HIDE DEF q
<1>4. TypeOK'
  <2>1. requests' \subseteq Request
    BY <1>1, <1>3 DEF IndInv, TypeOK
  <2> QED
    BY <1>1, <1>2, <2>1 DEF standVars, IndInv, TypeOK
<1>5. PipeType' /\ PipesKnown'
  BY <1>1, PipeFrame DEF standVars
<1>6. ToldKnown' /\ MainKnown'
  BY <1>1, <1>2, MainFrame DEF Told, Running
<1>7. ASSUME NEW d \in ClientIds
      PROVE  LoopOf(d)' /\ CountOf(d)' /\ \A r \in RoundIds : LineOf(d, r)'
  <2>1. CASE d = c
    BY <1>1, <1>2, <2>1 DEF IndInv, LoopKnown, LoopOf, CountKnown, CountOf, LinesKnown, LineOf
  <2>2. CASE d # c
    BY <1>1, <1>2, <2>2 DEF IndInv, LoopKnown, LoopOf, CountKnown, CountOf, LinesKnown, LineOf
  <2> QED
    BY <2>1, <2>2
<1>8. HandlersKnown'
  <2>1. q.round <= installed /\ q.handler = 0
    BY <1>3 DEF IndInv, PipesKnown
  <2> QED
    BY <1>1, <2>1 DEF standVars, IndInv, HandlersKnown
<1>9. RequestsKnown'
  <2> SUFFICES ASSUME faults = 0
               PROVE  /\ \A d \in ClientIds : process'[d] # "killed"
                      /\ \A p \in requests' : Awaited(p)'
                      /\ \A p, r \in requests' : p.client = r.client => p = r
    BY <1>1 DEF RequestsKnown
  <2>1. \A p \in requests : Awaited(p) /\ p.client # c /\ p.client \in ClientIds
    BY <1>1, RequestFields DEF IndInv, TypeOK, RequestsKnown, Awaited
  <2>2. \A d \in ClientIds : process'[d] # "killed"
    BY <1>2 DEF IndInv, RequestsKnown
  <2>3. \A p \in requests' : Awaited(p)'
    BY <1>1, <1>2, <1>3, <2>1 DEF Awaited
  <2>4. \A p, r \in requests' : p.client = r.client => p = r
    BY <1>1, <1>3, <2>1 DEF IndInv, RequestsKnown
  <2> QED
    BY <2>2, <2>3, <2>4
<1>10. LastIdKnown'
  <2>1. \A d \in ClientIds : Finished(d)' => Finished(d)
    BY <1>1, <1>3 DEF Finished
  <2> QED
    BY <1>1, <2>1 DEF IndInv, LastIdKnown
<1>11. ResultsEarned'
  BY <1>1, <1>2 DEF standVars, IndInv, ResultsEarned
<1> QED
  BY <1>4, <1>5, <1>6, <1>7, <1>8, <1>9, <1>10, <1>11
     DEF IndInv, LoopKnown, CountKnown, LinesKnown

\* No client runs when a result is there, so none changes what it is about.
LEMMA NoResultYet ==
  ASSUME IndInv, NEW c \in ClientIds, Running(c)
  PROVE  \A r \in RoundIds : results[r] = "none"
BY DEF IndInv, MainKnown

LEMMA SucceedIndInv ==
  ASSUME IndInv, NEW c \in ClientIds, Succeed(c)
  PROVE  IndInv'
<1>1. PICK q \in requests :
        q.client = c /\ Awaited(q) /\ q.served /\ requests' = requests \ {q}
  BY DEF Succeed
<1>2. /\ UNCHANGED <<standVars, lastRequestId, thread, stdin, sending, output, faults>>
      /\ process[c] = "wait"
      /\ answered' = answered \cup {<<c, sending[c], index[c]>>}
  BY DEF Succeed
<1>3. /\ index[c] \in Nat /\ index[c] < ReqAmount /\ index[c] \in RequestIds
      /\ sending[c] \in RoundIds /\ success[c] \in Nat /\ success[c] <= index[c]
      /\ index[c] + 1 \in 0..ReqAmount /\ success[c] + 1 \in 0..ReqAmount
  <2>1. index[c] \in Nat /\ success[c] \in Nat /\ sending[c] \in RoundIds \cup {0}
    BY PipeTypes DEF IndInv, TypeOK
  <2>2. index[c] < ReqAmount /\ sending[c] # 0 /\ success[c] <= index[c]
    BY <1>2 DEF IndInv, LoopKnown, LoopOf, CountKnown, CountOf
  <2> QED
    BY <2>1, <2>2, Numbers DEF RequestIds
<1>4. /\ process'[c] = "send" /\ index'[c] = index[c] + 1 /\ success'[c] = success[c] + 1
      /\ \A d \in ClientIds : d # c => /\ process'[d] = process[d]
                                       /\ index'[d] = index[d] /\ success'[d] = success[d]
      /\ process' \in [ClientIds -> {"command", "send", "wait", "exited", "killed"}]
      /\ index' \in [ClientIds -> 0..ReqAmount] /\ success' \in [ClientIds -> 0..ReqAmount]
  <2>1. /\ process'[c] = "send" /\ \A d \in ClientIds : d # c => process'[d] = process[d]
        /\ process' \in [ClientIds -> {"command", "send", "wait", "exited", "killed"}]
    BY DEF Succeed, IndInv, TypeOK
  <2>2. /\ index'[c] = index[c] + 1 /\ \A d \in ClientIds : d # c => index'[d] = index[d]
        /\ index' \in [ClientIds -> 0..ReqAmount]
    BY <1>3 DEF Succeed, IndInv, TypeOK
  <2>3. /\ success'[c] = success[c] + 1 /\ \A d \in ClientIds : d # c => success'[d] = success[d]
        /\ success' \in [ClientIds -> 0..ReqAmount]
    BY <1>3 DEF Succeed, IndInv, TypeOK
  <2> QED
    BY <2>1, <2>2, <2>3
<1>5. TypeOK'
  <2>1. requests' \subseteq Request /\ answered' \subseteq (ClientIds \X RoundIds \X RequestIds)
    BY <1>1, <1>2, <1>3 DEF IndInv, TypeOK
  <2> QED
    BY <1>2, <1>4, <2>1 DEF standVars, IndInv, TypeOK
<1>6. PipeType' /\ PipesKnown'
  BY <1>2, PipeFrame DEF standVars
<1>7. ToldKnown' /\ MainKnown'
  BY <1>2, <1>4, MainFrame DEF Told, Running
<1>8. ASSUME NEW d \in ClientIds, d # c
      PROVE  LoopOf(d)' /\ CountOf(d)' /\ \A r \in RoundIds : LineOf(d, r)'
  <2>1. \A r \in RoundIds, k \in RequestIds : <<d, r, k>> \in answered' <=> <<d, r, k>> \in answered
    BY <1>2, <1>8
  <2>2. LoopOf(d)'
    BY <1>2, <1>4, <1>8 DEF IndInv, LoopKnown, LoopOf
  <2>3. CountOf(d)'
    <3>1. process[d] \in {"send", "wait"} => sending[d] \in RoundIds
      BY DEF IndInv, TypeOK, LoopKnown, LoopOf
    <3> QED
      BY <1>2, <1>4, <1>8, <2>1, <3>1 DEF IndInv, CountKnown, CountOf
  <2>4. \A r \in RoundIds : LineOf(d, r)'
    BY <1>2, <1>4, <1>8, <2>1 DEF IndInv, LinesKnown, LineOf
  <2> QED
    BY <2>2, <2>3, <2>4
<1>9. LoopOf(c)'
  BY <1>2, <1>3, <1>4, Numbers DEF LoopOf
<1>10. CountOf(c)'
  <2>1. ASSUME NEW r \in RoundIds, NEW k \in RequestIds, <<c, r, k>> \in answered'
        PROVE  r < sending[c] \/ (r = sending[c] /\ k < index[c] + 1)
    <3>1. CASE <<c, r, k>> \in answered
      <4>1. r < sending[c] \/ (r = sending[c] /\ k < index[c])
        BY <3>1 DEF IndInv, CountKnown, CountOf
      <4> QED
        BY <1>3, <4>1, Numbers
    <3>2. CASE r = sending[c] /\ k = index[c]
      BY <1>3, <3>2
    <3> QED
      BY <1>2, <2>1, <3>1, <3>2
  <2>2. success[c] = index[c] <=>
          \A k \in RequestIds : k < index[c] => <<c, sending[c], k>> \in answered
    BY <1>2 DEF IndInv, CountKnown, CountOf
  <2>3. \A k \in RequestIds : k < index[c] + 1 <=> k < index[c] \/ k = index[c]
    BY <1>3, Numbers
  <2>4. \A k \in RequestIds :
          <<c, sending[c], k>> \in answered' <=> <<c, sending[c], k>> \in answered \/ k = index[c]
    BY <1>2, <1>3
  <2>5. success[c] + 1 = index[c] + 1 <=>
          \A k \in RequestIds : k < index[c] + 1 => <<c, sending[c], k>> \in answered'
    <3>1. success[c] + 1 = index[c] + 1 <=> success[c] = index[c]
      BY <1>3
    <3>2. \A k \in RequestIds : k < index[c] => k # index[c]
      BY <1>3
    <3> QED
      BY <2>2, <2>3, <2>4, <3>1, <3>2
  <2>6. success[c] + 1 <= index[c] + 1
    BY <1>3
  <2> QED
    BY <1>2, <1>4, <2>1, <2>5, <2>6 DEF CountOf
<1>11. ASSUME NEW r \in RoundIds PROVE LineOf(c, r)'
  <2>1. output[c][r] # NoLine <=> r < sending[c]
    BY <1>2 DEF IndInv, LinesKnown, LineOf
  <2>2. r < sending[c] => r # sending[c]
    BY <1>3, Numbers
  <2>3. r # sending[c] => \A k \in RequestIds : <<c, r, k>> \in answered' <=> <<c, r, k>> \in answered
    BY <1>2
  <2>4. output[c][r] # NoLine =>
          (output[c][r] = ReqAmount <=> \A k \in RequestIds : <<c, r, k>> \in answered)
    BY DEF IndInv, LinesKnown, LineOf
  <2> QED
    BY <1>2, <1>4, <2>1, <2>2, <2>3, <2>4 DEF LineOf
<1>12. LoopKnown' /\ CountKnown' /\ LinesKnown'
  BY <1>8, <1>9, <1>10, <1>11 DEF LoopKnown, CountKnown, LinesKnown
<1>13. HandlersKnown'
  BY <1>1, <1>2 DEF standVars, IndInv, HandlersKnown
<1>14. RequestsKnown'
  <2> SUFFICES ASSUME faults = 0
               PROVE  /\ \A d \in ClientIds : process'[d] # "killed"
                      /\ \A p \in requests' : Awaited(p)'
                      /\ \A p, r \in requests' : p.client = r.client => p = r
    BY <1>2 DEF RequestsKnown
  <2>1. /\ \A d \in ClientIds : process[d] # "killed"
        /\ \A p \in requests : Awaited(p)
        /\ \A p, r \in requests : p.client = r.client => p = r
    BY DEF IndInv, RequestsKnown
  <2>2. \A p \in requests' : p \in requests /\ p.client # c /\ p.client \in ClientIds
    BY <1>1, <2>1, RequestFields DEF IndInv, TypeOK
  <2>3. \A p \in requests' : Awaited(p)'
    BY <1>2, <1>4, <2>1, <2>2 DEF Awaited
  <2>4. \A d \in ClientIds : process'[d] # "killed"
    BY <1>4, <2>1
  <2> QED
    BY <2>1, <2>2, <2>3, <2>4
<1>15. LastIdKnown'
  <2>1. Finished(c)' => Finished(c)
    <3>1. /\ Finished(c)' => sending[c] = Rounds
          /\ faults = 0 => \A p \in requests' : p.client # c
      BY <1>1, <1>2 DEF Finished, IndInv, RequestsKnown
    <3>2. index'[c] = ReqAmount => index[c] = ReqAmount - 1
      BY <1>3, <1>4
    <3>3. q.client = c /\ q.id = index[c] /\ q.served
      BY <1>1 DEF Awaited
    <3> QED
      BY <1>1, <3>1, <3>2, <3>3 DEF Finished
  <2>2. \A d \in ClientIds : d # c => (Finished(d)' => Finished(d))
    BY <1>1, <1>2, <1>4 DEF Finished
  <2> QED
    BY <1>2, <2>1, <2>2 DEF IndInv, LastIdKnown
<1>16. ResultsEarned'
  BY <1>2, NoResultYet DEF standVars, Running, ResultsEarned
<1> QED
  BY <1>5, <1>6, <1>7, <1>12, <1>13, <1>14, <1>15, <1>16 DEF IndInv

LEMMA FailIndInv ==
  ASSUME IndInv, NEW c \in ClientIds, Fail(c)
  PROVE  IndInv'
<1>1. /\ UNCHANGED <<standVars, lastRequestId, thread, stdin, sending, success, output, answered>>
      /\ process[c] = "wait" /\ faults < MaxFaults /\ faults' = faults + 1
      /\ requests' \subseteq requests
  BY DEF Fail, Abandon
<1>2. /\ index[c] \in Nat /\ index[c] < ReqAmount /\ index[c] \in RequestIds
      /\ sending[c] \in RoundIds /\ success[c] \in Nat /\ success[c] <= index[c]
      /\ index[c] + 1 \in 0..ReqAmount
  <2>1. index[c] \in Nat /\ success[c] \in Nat /\ sending[c] \in RoundIds \cup {0}
    BY PipeTypes DEF IndInv, TypeOK
  <2>2. index[c] < ReqAmount /\ sending[c] # 0 /\ success[c] <= index[c]
    BY <1>1 DEF IndInv, LoopKnown, LoopOf, CountKnown, CountOf
  <2> QED
    BY <2>1, <2>2, Numbers DEF RequestIds
<1>3. /\ process'[c] = "send" /\ index'[c] = index[c] + 1
      /\ \A d \in ClientIds : d # c => process'[d] = process[d] /\ index'[d] = index[d]
      /\ process' \in [ClientIds -> {"command", "send", "wait", "exited", "killed"}]
      /\ index' \in [ClientIds -> 0..ReqAmount]
  <2>1. /\ process'[c] = "send" /\ \A d \in ClientIds : d # c => process'[d] = process[d]
        /\ process' \in [ClientIds -> {"command", "send", "wait", "exited", "killed"}]
    BY DEF Fail, IndInv, TypeOK
  <2>2. /\ index'[c] = index[c] + 1 /\ \A d \in ClientIds : d # c => index'[d] = index[d]
        /\ index' \in [ClientIds -> 0..ReqAmount]
    BY <1>2 DEF Fail, IndInv, TypeOK
  <2> QED
    BY <2>1, <2>2
<1>4. faults' # 0 /\ faults' \in 0..MaxFaults
  BY <1>1, UT2TestAssumption DEF IndInv, TypeOK
<1>5. TypeOK'
  BY <1>1, <1>3, <1>4 DEF standVars, IndInv, TypeOK
<1>6. PipeType' /\ PipesKnown'
  BY <1>1, PipeFrame DEF standVars
<1>7. ToldKnown' /\ MainKnown'
  BY <1>1, <1>3, MainFrame DEF Told, Running
<1>8. ASSUME NEW d \in ClientIds, d # c
      PROVE  LoopOf(d)' /\ CountOf(d)' /\ \A r \in RoundIds : LineOf(d, r)'
  BY <1>1, <1>3, <1>8 DEF IndInv, LoopKnown, LoopOf, CountKnown, CountOf, LinesKnown, LineOf
<1>9. LoopOf(c)'
  BY <1>1, <1>2, <1>3, Numbers DEF LoopOf
<1>10. CountOf(c)'
  <2>1. \A r \in RoundIds, k \in RequestIds :
          <<c, r, k>> \in answered => r < sending[c] \/ (r = sending[c] /\ k < index[c])
    BY DEF IndInv, CountKnown, CountOf
  <2>2. \A k \in RequestIds : k < index[c] => k < index[c] + 1
    BY <1>2, Numbers
  <2>3. <<c, sending[c], index[c]>> \notin answered /\ index[c] < index[c] + 1
    <3>1. ~(sending[c] < sending[c]) /\ ~(index[c] < index[c]) /\ index[c] < index[c] + 1
      <4>1. sending[c] \in Nat
        BY PipeTypes DEF IndInv
      <4> QED
        BY <1>2, <4>1
    <3> QED
      BY <1>2, <2>1, <3>1
  <2>4. success[c] <= index[c] + 1 /\ success[c] # index[c] + 1
    BY <1>2
  <2> QED
    BY <1>1, <1>2, <1>3, <2>1, <2>2, <2>3, <2>4 DEF CountOf
<1>11. \A r \in RoundIds : LineOf(c, r)'
  BY <1>1, <1>3 DEF IndInv, LinesKnown, LineOf
<1>12. LoopKnown' /\ CountKnown' /\ LinesKnown'
  BY <1>8, <1>9, <1>10, <1>11 DEF LoopKnown, CountKnown, LinesKnown
<1>13. HandlersKnown'
  BY <1>1 DEF standVars, IndInv, HandlersKnown
<1>14. RequestsKnown' /\ LastIdKnown'
  BY <1>4 DEF RequestsKnown, LastIdKnown
<1>15. ResultsEarned'
  BY <1>1, NoResultYet DEF standVars, Running, ResultsEarned
<1> QED
  BY <1>5, <1>6, <1>7, <1>12, <1>13, <1>14, <1>15 DEF IndInv

LEMMA PrintLineIndInv ==
  ASSUME IndInv, NEW c \in ClientIds, PrintLine(c)
  PROVE  IndInv'
<1>1. /\ UNCHANGED <<standVars, lastRequestId, thread, stdin, sending, index, success,
                     answered, requests, faults>>
      /\ process[c] = "send" /\ index[c] = ReqAmount
  BY DEF PrintLine
<1>2. sending[c] \in RoundIds /\ success[c] \in 0..ReqAmount
  BY <1>1 DEF IndInv, TypeOK, LoopKnown, LoopOf
<1>3. /\ process'[c] = "command" /\ output'[c][sending[c]] = success[c]
      /\ \A r \in RoundIds : r # sending[c] => output'[c][r] = output[c][r]
      /\ \A d \in ClientIds : d # c => process'[d] = process[d] /\ output'[d] = output[d]
      /\ process' \in [ClientIds -> {"command", "send", "wait", "exited", "killed"}]
      /\ output' \in [ClientIds -> [RoundIds -> {NoLine} \cup 0..ReqAmount]]
  <2>1. /\ process'[c] = "command" /\ \A d \in ClientIds : d # c => process'[d] = process[d]
        /\ process' \in [ClientIds -> {"command", "send", "wait", "exited", "killed"}]
    BY DEF PrintLine, IndInv, TypeOK
  <2>2. /\ output'[c][sending[c]] = success[c]
        /\ \A r \in RoundIds : r # sending[c] => output'[c][r] = output[c][r]
        /\ \A d \in ClientIds : d # c => output'[d] = output[d]
        /\ output' \in [ClientIds -> [RoundIds -> {NoLine} \cup 0..ReqAmount]]
    BY <1>2 DEF PrintLine, IndInv, TypeOK
  <2> QED
    BY <2>1, <2>2
<1>4. TypeOK'
  BY <1>1, <1>3 DEF standVars, IndInv, TypeOK
<1>5. PipeType' /\ PipesKnown'
  BY <1>1, PipeFrame DEF standVars
<1>6. ToldKnown' /\ MainKnown'
  BY <1>1, <1>3, MainFrame DEF Told, Running
<1>7. ASSUME NEW d \in ClientIds, d # c
      PROVE  LoopOf(d)' /\ CountOf(d)' /\ \A r \in RoundIds : LineOf(d, r)'
  BY <1>1, <1>3, <1>7 DEF IndInv, LoopKnown, LoopOf, CountKnown, CountOf, LinesKnown, LineOf
<1>8. LoopOf(c)' /\ CountOf(c)'
  BY <1>1, <1>3 DEF IndInv, LoopKnown, LoopOf, CountKnown, CountOf
<1>9. ASSUME NEW r \in RoundIds PROVE LineOf(c, r)'
  <2>1. CASE r = sending[c]
    <3>1. output'[c][r] = success[c] /\ success[c] # NoLine
      BY <1>2, <1>3, <2>1 DEF NoLine
    <3>2. success[c] = ReqAmount <=>
            \A k \in RequestIds : k < ReqAmount => <<c, sending[c], k>> \in answered
      BY <1>1 DEF IndInv, CountKnown, CountOf
    <3>3. \A k \in RequestIds : k < ReqAmount
      BY Numbers
    <3> QED
      BY <1>1, <1>3, <2>1, <3>1, <3>2, <3>3 DEF LineOf
  <2>2. CASE r # sending[c]
    BY <1>1, <1>3, <2>2 DEF IndInv, LinesKnown, LineOf
  <2> QED
    BY <2>1, <2>2
<1>10. LoopKnown' /\ CountKnown' /\ LinesKnown'
  BY <1>7, <1>8, <1>9 DEF LoopKnown, CountKnown, LinesKnown
<1>11. HandlersKnown' /\ LastIdKnown'
  BY <1>1 DEF standVars, IndInv, HandlersKnown, LastIdKnown, Finished
<1>12. RequestsKnown'
  <2>1. faults = 0 => \A q \in requests : q.client # c /\ q.client \in ClientIds
    BY <1>1, RequestFields DEF IndInv, TypeOK, RequestsKnown, Awaited
  <2> QED
    BY <1>1, <1>3, <2>1 DEF IndInv, RequestsKnown, Awaited
<1>13. ResultsEarned'
  BY <1>1, NoResultYet DEF standVars, Running, ResultsEarned
<1> QED
  BY <1>4, <1>5, <1>6, <1>10, <1>11, <1>12, <1>13 DEF IndInv

LEMMA KillIndInv ==
  ASSUME IndInv, NEW c \in ClientIds, Kill(c)
  PROVE  IndInv'
<1>1. /\ UNCHANGED <<standVars, lastRequestId, thread, stdin, sending, index, success,
                     output, answered>>
      /\ Running(c) /\ faults < MaxFaults /\ faults' = faults + 1
      /\ requests' \subseteq requests
  BY DEF Kill, Abandon
<1>2. /\ process'[c] = "killed" /\ \A d \in ClientIds : d # c => process'[d] = process[d]
      /\ process' \in [ClientIds -> {"command", "send", "wait", "exited", "killed"}]
  BY DEF Kill, IndInv, TypeOK
<1>3. faults' # 0 /\ faults' \in 0..MaxFaults
  BY <1>1, UT2TestAssumption DEF IndInv, TypeOK
<1>4. TypeOK'
  BY <1>1, <1>2, <1>3 DEF standVars, IndInv, TypeOK
<1>5. PipeType' /\ PipesKnown'
  BY <1>1, PipeFrame DEF standVars
<1>6. ToldKnown' /\ MainKnown'
  BY <1>1, <1>2, MainFrame DEF Told, Running
<1>7. ASSUME NEW d \in ClientIds
      PROVE  LoopOf(d)' /\ CountOf(d)' /\ \A r \in RoundIds : LineOf(d, r)'
  <2>1. CASE d = c
    BY <1>1, <1>2, <2>1 DEF IndInv, LoopKnown, LoopOf, CountKnown, CountOf, LinesKnown, LineOf
  <2>2. CASE d # c
    BY <1>1, <1>2, <2>2 DEF IndInv, LoopKnown, LoopOf, CountKnown, CountOf, LinesKnown, LineOf
  <2> QED
    BY <2>1, <2>2
<1>8. HandlersKnown'
  BY <1>1 DEF standVars, IndInv, HandlersKnown
<1>9. RequestsKnown' /\ LastIdKnown'
  BY <1>3 DEF RequestsKnown, LastIdKnown
<1>10. ResultsEarned'
  BY <1>1, NoResultYet DEF standVars, ResultsEarned
<1> QED
  BY <1>4, <1>5, <1>6, <1>7, <1>8, <1>9, <1>10 DEF IndInv, LoopKnown, CountKnown, LinesKnown

---------------------------------------------------------------------------
LEMMA NextIndInv == IndInv /\ [Next]_vars => IndInv'
<1> SUFFICES ASSUME IndInv, [Next]_vars PROVE IndInv'
  OBVIOUS
<1>1. CASE MainThread
  BY <1>1, NewHandlerIndInv, SetServerHandlerIndInv, TestAliveIndInv, WriteCommandIndInv,
     StartResponseThreadIndInv, JoinIndInv, WaitForIndInv, ValidateIndInv DEF MainThread
<1>2. CASE \E r \in RoundIds, c \in ClientIds : ResponseThread(r, c)
  BY <1>2, ResponseThreadIndInv
<1>3. CASE Server
  BY <1>3, CreatePipeIndInv, OnChunkIndInv DEF Server
<1>4. ASSUME NEW c \in ClientIds, Program(c) PROVE IndInv'
  BY <1>4, ReadSendIndInv, ReadExitIndInv, ExecuteIndInv, SucceedIndInv, PrintLineIndInv
     DEF Program
<1>5. ASSUME NEW c \in ClientIds, Fail(c) \/ Kill(c) PROVE IndInv'
  BY <1>5, FailIndInv, KillIndInv
<1>6. CASE UNCHANGED vars
  <2>1. /\ LoopKnown' /\ CountKnown' /\ LinesKnown' /\ RequestsKnown' /\ LastIdKnown'
        /\ PipeType' /\ PipesKnown' /\ ResultsEarned'
    BY <1>6, ClientFrame, RequestFrame, PipeFrame, ResultFrame DEF vars, standVars, clientVars
  <2>2. ToldKnown' /\ MainKnown'
    BY <1>6, MainFrame DEF vars, clientVars, Told, Running
  <2>3. TypeOK' /\ HandlersKnown'
    BY <1>6 DEF vars, standVars, clientVars, IndInv, TypeOK, HandlersKnown
  <2> QED
    BY <2>1, <2>2, <2>3 DEF IndInv
<1> QED
  BY <1>1, <1>2, <1>3, <1>4, <1>5, <1>6 DEF Next

LEMMA SpecIndInv == Spec => []IndInv
<1> QED
  BY InitIndInv, NextIndInv, PTL DEF Spec

---------------------------------------------------------------------------
(* The theorems. *)

\* No pipe holds more than one command per round and exit.
THEOREM TypeCorrect == Spec => []TypeOK
<1>1. IndInv => TypeOK
  BY DEF IndInv
<1> QED
  BY <1>1, SpecIndInv, PTL

\* The outputs that runTest reads are final, and complete but for those of
\* clients that were killed.
THEOREM ValidatedWhenDoneHolds == Spec => []ValidatedWhenDone
<1>1. IndInv => ValidatedWhenDone
  <2> SUFFICES ASSUME IndInv, pc \in {"validate", "returned"}, NEW c \in ClientIds
               PROVE  /\ ~Running(c)
                      /\ process[c] = "exited" => \A r \in RoundIds : output[c][r] # NoLine
    BY DEF ValidatedWhenDone
  <2>1. ~Running(c)
    BY DEF IndInv, MainKnown
  <2>2. ASSUME process[c] = "exited", NEW r \in RoundIds PROVE output[c][r] # NoLine
    <3>1. r < Rounds \/ r = Rounds
      BY Numbers
    <3> QED
      BY <2>2, <3>1 DEF IndInv, LoopKnown, LoopOf, LinesKnown, LineOf
  <2> QED
    BY <2>1, <2>2
<1> QED
  BY <1>1, SpecIndInv, PTL

\* Whatever the order in which the clients' requests reach the last handler,
\* the one that reaches it last is some client's last request.
THEOREM FinalIdReachedHolds == Spec => []FinalIdReached
<1>1. IndInv => FinalIdReached
  <2> SUFFICES ASSUME IndInv, pc = "returned", faults = 0
               PROVE  lastRequestId[requestsHandler] = ReqAmount - 1
    BY DEF FinalIdReached
  <2>1. \A c \in ClientIds : process[c] = "exited"
    BY DEF IndInv, MainKnown, RequestsKnown, Running
  <2>2. \A c \in ClientIds : Finished(c)
    BY <2>1, Numbers DEF IndInv, LoopKnown, LoopOf, Finished
  <2>3. requestsHandler = Rounds
    BY DEF IndInv, MainKnown
  <2> QED
    BY <2>2, <2>3 DEF IndInv, LastIdKnown
<1> QED
  BY <1>1, SpecIndInv, PTL

\* A result is what its requests have earned, for all clients and rounds.
THEOREM ResultsEarnedHolds == Spec => []ResultsEarned
<1>1. IndInv => ResultsEarned
  BY DEF IndInv
<1> QED
  BY <1>1, SpecIndInv, PTL
=============================================================================
