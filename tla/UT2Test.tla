------------------------------- MODULE UT2Test -------------------------------
(***************************************************************************)
(* One UT2 test: the stand's main thread (AbstractUT2TestStand.runTest),   *)
(* the response threads of executeTest, the handler of the server, and the *)
(* client processes that read their commands from a pipe (client.cpp).     *)
(*                                                                         *)
(* A round is one file size.  The contents of files and chunks are left    *)
(* out: a request either brings the whole file and counts, or does not.    *)
(* Time is left out: a time limit may run out at any moment.               *)
(***************************************************************************)
EXTENDS Integers, Sequences

CONSTANTS
  Clients,      \* configuration.getClients().length
  ReqAmount,    \* configuration.reqAmount
  Rounds,       \* configuration.fileSizes.length
  MaxFaults     \* bound: failed requests and killed clients in a behaviour

ASSUME UT2TestAssumption ==
  /\ Clients \in Nat \ {0}
  /\ ReqAmount \in Nat \ {0}
  /\ Rounds \in Nat \ {0}
  /\ MaxFaults \in Nat

ClientIds == 1..Clients
RoundIds == 1..Rounds
RequestIds == 0..(ReqAmount - 1)
NoLine == -1
Exit == 0

VARIABLES
  pc,               \* the main thread
  round, i,         \* its loops over configuration.fileSizes and the clients
  requestsHandler,  \* the field: the handlers are numbered by their round
  installed,        \* the handler the server has, of setServerHandler
  lastRequestId,    \* lastRequestId[h], of handler h
  thread,           \* thread[r][c]: the response thread of round r and client c
  stdin,            \* stdin[c]: commands in the pipe, a round for send
  process,          \* process[c]: where the client program is
  sending,          \* sending[c]: the round of its send command
  index,            \* index[c]: i and request_counter
  success,          \* success[c]: success_requests
  output,           \* output[c][r]: the count on the line "completed in"
  requests,         \* the requests on their way or in the server
  results,          \* results[r]: the success of the TestResult
  answered,         \* history: the requests whose file came back whole
  faults            \* history: how many faults there were

standVars == <<pc, round, i, requestsHandler, installed, results>>
clientVars == <<process, sending, index, success, output, answered>>
vars == <<standVars, lastRequestId, thread, stdin, clientVars, requests, faults>>

Request ==
  [client : ClientIds, round : RoundIds, id : RequestIds,
   handler : RoundIds \cup {0}, served : BOOLEAN]

Running(c) == process[c] \notin {"exited", "killed"}

TypeOK ==
  /\ pc \in {"handler", "install", "alive", "write", "spawn", "join", "exitAlive",
             "exitWrite", "waitFor", "validate", "returned", "aborted"}
  /\ round \in RoundIds
  /\ i \in ClientIds
  /\ requestsHandler \in RoundIds \cup {0}
  /\ installed \in RoundIds \cup {0}
  /\ lastRequestId \in [RoundIds -> RequestIds]
  /\ thread \in [RoundIds -> [ClientIds -> {"unborn", "check", "enter", "waiting", "done"}]]
  /\ \A c \in ClientIds :
       /\ Len(stdin[c]) <= Rounds + 1
       /\ \A k \in 1..Len(stdin[c]) : stdin[c][k] \in RoundIds \cup {Exit}
  /\ process \in [ClientIds -> {"command", "send", "wait", "exited", "killed"}]
  /\ sending \in [ClientIds -> RoundIds \cup {0}]
  /\ index \in [ClientIds -> 0..ReqAmount]
  /\ success \in [ClientIds -> 0..ReqAmount]
  /\ output \in [ClientIds -> [RoundIds -> {NoLine} \cup 0..ReqAmount]]
  /\ requests \subseteq Request
  /\ results \in [RoundIds -> {"none", "success", "failure"}]
  /\ answered \subseteq (ClientIds \X RoundIds \X RequestIds)
  /\ faults \in 0..MaxFaults

\* The clients have been started by initClientProcess.
Init ==
  /\ pc = "handler"
  /\ round = 1
  /\ i = 1
  /\ requestsHandler = 0
  /\ installed = 0
  /\ lastRequestId = [h \in RoundIds |-> 0]
  /\ thread = [r \in RoundIds |-> [c \in ClientIds |-> "unborn"]]
  /\ stdin = [c \in ClientIds |-> <<>>]
  /\ process = [c \in ClientIds |-> "command"]
  /\ sending = [c \in ClientIds |-> 0]
  /\ index = [c \in ClientIds |-> 0]
  /\ success = [c \in ClientIds |-> 0]
  /\ output = [c \in ClientIds |-> [r \in RoundIds |-> NoLine]]
  /\ requests = {}
  /\ results = [r \in RoundIds |-> "none"]
  /\ answered = {}
  /\ faults = 0

---------------------------------------------------------------------------
(***************************************************************************)
(* The main thread: runTest and executeTest.                               *)
(***************************************************************************)
\* requestsHandler = new UT2ServerHandler()
NewHandler ==
  /\ pc = "handler"
  /\ requestsHandler' = round
  /\ pc' = "install"
  /\ UNCHANGED <<round, i, installed, results, lastRequestId, thread, stdin,
                 clientVars, requests, faults>>

\* Mutant: a handler that is already registered stays.
SetServerHandlerOnce ==
  /\ pc = "install"
  /\ installed' = IF installed = 0 THEN requestsHandler ELSE installed
  /\ i' = 1
  /\ pc' = "alive"
  /\ UNCHANGED <<round, requestsHandler, results, lastRequestId, thread, stdin,
                 clientVars, requests, faults>>

\* ut2ServerSide.setServerHandler replaces the whole pipe handler of the server.
SetServerHandler ==
  /\ pc = "install"
  /\ installed' = requestsHandler
  /\ i' = 1
  /\ pc' = "alive"
  /\ UNCHANGED <<round, requestsHandler, results, lastRequestId, thread, stdin,
                 clientVars, requests, faults>>

\* sendCommand: a client that has ended is passed over in silence ...
TestAlive ==
  /\ \/ pc = "alive" /\ pc' = IF Running(i) THEN "write" ELSE "spawn"
     \/ pc = "exitAlive" /\ pc' = IF Running(i) THEN "exitWrite" ELSE "waitFor"
  /\ UNCHANGED <<round, i, requestsHandler, installed, results, lastRequestId,
                 thread, stdin, clientVars, requests, faults>>

\* ... but one that ends between the test and the write ends the whole test.
WriteCommand ==
  /\ \/ /\ pc = "write" /\ Running(i)
        /\ stdin' = [stdin EXCEPT ![i] = Append(@, round)]
        /\ pc' = "spawn"
     \/ /\ pc = "exitWrite" /\ Running(i)
        /\ stdin' = [stdin EXCEPT ![i] = Append(@, Exit)]
        /\ pc' = "waitFor"
     \/ /\ pc \in {"write", "exitWrite"} /\ ~Running(i)
        /\ pc' = "aborted"
        /\ UNCHANGED stdin
  /\ UNCHANGED <<round, i, requestsHandler, installed, results, lastRequestId,
                 thread, clientVars, requests, faults>>

StartResponseThread ==
  /\ pc = "spawn"
  /\ thread' = [thread EXCEPT ![round][i] = "check"]
  /\ IF i < Clients THEN i' = i + 1 /\ pc' = "alive"
                    ELSE i' = 1 /\ pc' = "join"
  /\ UNCHANGED <<round, requestsHandler, installed, results, lastRequestId, stdin,
                 clientVars, requests, faults>>

\* The next step of the loop over the clients, and after it of the loop over
\* the file sizes.
NextJoin ==
  /\ IF i < Clients THEN i' = i + 1 /\ UNCHANGED <<pc, round>>
     ELSE /\ i' = 1
          /\ IF round < Rounds THEN round' = round + 1 /\ pc' = "handler"
                               ELSE pc' = "exitAlive" /\ UNCHANGED round
  /\ UNCHANGED <<requestsHandler, installed, results, lastRequestId, thread, stdin,
                 clientVars, requests, faults>>

\* Mutant: join without its time limit.
JoinForever ==
  pc = "join" /\ thread[round][i] = "done" /\ NextJoin

\* join(60_000): the thread has ended, or the time has run out.
Join == pc = "join" /\ NextJoin

\* Mutant: the result of finishClientProcess is not looked at.
WaitForUnchecked ==
  /\ pc = "waitFor"
  /\ IF i < Clients THEN i' = i + 1 /\ pc' = "exitAlive" /\ UNCHANGED round
                    ELSE i' = 1 /\ pc' = "validate" /\ round' = 1
  /\ UNCHANGED <<requestsHandler, installed, results, lastRequestId, thread, stdin,
                 clientVars, requests, faults>>

\* process.waitFor(60_000): false ends the test with a TestErrorException.
WaitFor ==
  /\ pc = "waitFor"
  /\ \/ /\ ~Running(i)
        /\ IF i < Clients THEN i' = i + 1 /\ pc' = "exitAlive" /\ UNCHANGED round
                          ELSE i' = 1 /\ pc' = "validate" /\ round' = 1
     \/ /\ Running(i)
        /\ pc' = "aborted"
        /\ UNCHANGED <<i, round>>
  /\ UNCHANGED <<requestsHandler, installed, results, lastRequestId, thread, stdin,
                 clientVars, requests, faults>>

\* validateResponse: the line of the file size says that all requests succeeded.
Validated(c, r) == output[c][r] = ReqAmount

Validate ==
  /\ pc = "validate"
  /\ results' = [results EXCEPT ![round] =
       IF \A c \in ClientIds : Validated(c, round) THEN "success" ELSE "failure"]
  /\ IF round < Rounds THEN round' = round + 1 /\ UNCHANGED pc
                       ELSE pc' = "returned" /\ UNCHANGED round
  /\ UNCHANGED <<i, requestsHandler, installed, lastRequestId, thread, stdin,
                 clientVars, requests, faults>>

MainThread ==
  \/ NewHandler \/ SetServerHandler \/ TestAlive \/ WriteCommand \/ StartResponseThread
  \/ Join \/ WaitFor \/ Validate

---------------------------------------------------------------------------
(***************************************************************************)
(* A response thread.  It reads the field requestsHandler anew each time,  *)
(* and reads lastRequestId before it enters the monitor.                   *)
(***************************************************************************)
ThreadTo(r, c, from, to) ==
  /\ thread[r][c] = from
  /\ thread' = [thread EXCEPT ![r][c] = to]
  /\ UNCHANGED <<standVars, lastRequestId, stdin, clientVars, requests, faults>>

CheckLast(r, c) ==
  ThreadTo(r, c, "check",
           IF lastRequestId[requestsHandler] # ReqAmount - 1 THEN "enter" ELSE "done")

Wait(r, c) == ThreadTo(r, c, "enter", "waiting")

\* Mutant: wait without its time limit.
WaitForNotify(r, c) == FALSE /\ ThreadTo(r, c, "waiting", "check")

WaitTimeout(r, c) == ThreadTo(r, c, "waiting", "check")

ResponseThread(r, c) == CheckLast(r, c) \/ Wait(r, c) \/ WaitTimeout(r, c)

---------------------------------------------------------------------------
(***************************************************************************)
(* The server: it opens a pipe with the handler it has at that moment, and *)
(* hands the chunk to that handler later.                                  *)
(***************************************************************************)
CreatePipe(q) ==
  /\ q.handler = 0
  /\ requests' = (requests \ {q}) \cup {[q EXCEPT !.handler = installed]}
  /\ UNCHANGED <<standVars, lastRequestId, thread, stdin, clientVars, faults>>

\* The client still waits for this request.
Awaited(q) ==
  /\ process[q.client] = "wait"
  /\ sending[q.client] = q.round
  /\ index[q.client] = q.id

\* onChunk: the id is stored, all waiting threads are woken, the file is written.
\* A thread that does not yet wait is not woken.
OnChunk(q) ==
  /\ q.handler # 0 /\ ~q.served
  /\ lastRequestId' = [lastRequestId EXCEPT ![q.handler] = q.id]
  /\ thread' = [r \in RoundIds |-> [c \in ClientIds |->
       IF thread[r][c] = "waiting" THEN "check" ELSE thread[r][c]]]
  /\ requests' = (requests \ {q}) \cup
       (IF Awaited(q) THEN {[q EXCEPT !.served = TRUE]} ELSE {})
  /\ UNCHANGED <<standVars, stdin, clientVars, faults>>

Server == \E q \in requests : CreatePipe(q) \/ OnChunk(q)

---------------------------------------------------------------------------
(***************************************************************************)
(* The client program: the loop over the commands of client.cpp.           *)
(***************************************************************************)
\* Mutant: success_requests is not set back to 0.
ReadSendKeepingSuccess(c) ==
  /\ process[c] = "command" /\ stdin[c] # <<>> /\ Head(stdin[c]) # Exit
  /\ stdin' = [stdin EXCEPT ![c] = Tail(@)]
  /\ process' = [process EXCEPT ![c] = "send"]
  /\ sending' = [sending EXCEPT ![c] = Head(stdin[c])]
  /\ index' = [index EXCEPT ![c] = 0]
  /\ UNCHANGED <<standVars, lastRequestId, thread, success, output, answered,
                 requests, faults>>

ReadSend(c) ==
  /\ process[c] = "command" /\ stdin[c] # <<>> /\ Head(stdin[c]) # Exit
  /\ stdin' = [stdin EXCEPT ![c] = Tail(@)]
  /\ process' = [process EXCEPT ![c] = "send"]
  /\ sending' = [sending EXCEPT ![c] = Head(stdin[c])]
  /\ index' = [index EXCEPT ![c] = 0]
  /\ success' = [success EXCEPT ![c] = 0]
  /\ UNCHANGED <<standVars, lastRequestId, thread, output, answered, requests, faults>>

ReadExit(c) ==
  /\ process[c] = "command" /\ stdin[c] # <<>> /\ Head(stdin[c]) = Exit
  /\ stdin' = [stdin EXCEPT ![c] = Tail(@)]
  /\ process' = [process EXCEPT ![c] = "exited"]
  /\ UNCHANGED <<standVars, lastRequestId, thread, sending, index, success, output,
                 answered, requests, faults>>

NewRequest(c, id) ==
  [client |-> c, round |-> sending[c], id |-> id, handler |-> 0, served |-> FALSE]

Execute(c) ==
  /\ process[c] = "send" /\ index[c] < ReqAmount
  /\ requests' = requests \cup {NewRequest(c, index[c])}
  /\ process' = [process EXCEPT ![c] = "wait"]
  /\ UNCHANGED <<standVars, lastRequestId, thread, stdin, sending, index, success,
                 output, answered, faults>>

\* The request is closed and the whole file has come.
Succeed(c) ==
  /\ process[c] = "wait"
  /\ \E q \in requests :
       /\ q.client = c /\ Awaited(q) /\ q.served
       /\ requests' = requests \ {q}
  /\ success' = [success EXCEPT ![c] = @ + 1]
  /\ answered' = answered \cup {<<c, sending[c], index[c]>>}
  /\ index' = [index EXCEPT ![c] = @ + 1]
  /\ process' = [process EXCEPT ![c] = "send"]
  /\ UNCHANGED <<standVars, lastRequestId, thread, stdin, sending, output, faults>>

\* The requests of c that may still reach the server, or be lost.
Abandon(c) ==
  \/ requests' = {q \in requests : ~(q.client = c /\ Awaited(q) /\ q.served)}
  \/ requests' = {q \in requests : ~(q.client = c /\ Awaited(q))}

\* The request is closed with an error or with part of the file.
Fail(c) ==
  /\ process[c] = "wait" /\ faults < MaxFaults
  /\ faults' = faults + 1
  /\ Abandon(c)
  /\ index' = [index EXCEPT ![c] = @ + 1]
  /\ process' = [process EXCEPT ![c] = "send"]
  /\ UNCHANGED <<standVars, lastRequestId, thread, stdin, sending, success, output,
                 answered>>

\* The line that validateResponse looks for.
PrintLine(c) ==
  /\ process[c] = "send" /\ index[c] = ReqAmount
  /\ output' = [output EXCEPT ![c][sending[c]] = success[c]]
  /\ process' = [process EXCEPT ![c] = "command"]
  /\ UNCHANGED <<standVars, lastRequestId, thread, stdin, sending, index, success,
                 answered, requests, faults>>

\* The process ends before its time.
Kill(c) ==
  /\ Running(c) /\ faults < MaxFaults
  /\ faults' = faults + 1
  /\ Abandon(c)
  /\ process' = [process EXCEPT ![c] = "killed"]
  /\ UNCHANGED <<standVars, lastRequestId, thread, stdin, sending, index, success,
                 output, answered>>

Program(c) ==
  ReadSend(c) \/ ReadExit(c) \/ Execute(c) \/ Succeed(c) \/ PrintLine(c)

Next ==
  \/ MainThread
  \/ \E r \in RoundIds, c \in ClientIds : ResponseThread(r, c)
  \/ Server
  \/ \E c \in ClientIds : Program(c) \/ Fail(c) \/ Kill(c)

Spec == Init /\ [][Next]_vars

(***************************************************************************)
(* The threads of the stand run, their time limits run out, and the server *)
(* hands over what has reached it.  Nothing is asked of the clients.       *)
(***************************************************************************)
FairSpec ==
  /\ Spec
  /\ WF_vars(MainThread)
  /\ \A r \in RoundIds, c \in ClientIds : WF_vars(ResponseThread(r, c))
  /\ WF_vars(Server)

---------------------------------------------------------------------------
(***************************************************************************)
(* A result says success only when every request of every client for that  *)
(* file size has brought the whole file, and failure only when one has not *)
(* or a client was killed (AbstractUT2TestStand, lines 109 to 126): rounds *)
(* that overlap in the clients do not mix their counts.                    *)
(***************************************************************************)
ResultsEarned ==
  \A r \in RoundIds :
    LET all == \A c \in ClientIds, id \in RequestIds : <<c, r, id>> \in answered
    IN /\ results[r] = "success" => all
       /\ results[r] = "failure" => ~all \/ \E c \in ClientIds : process[c] = "killed"

(***************************************************************************)
(* The outputs are read (lines 109 to 115) when no client writes any more, *)
(* and a client that was told to exit has first done all its rounds, even  *)
(* the ones the stand gave up waiting for.                                 *)
(***************************************************************************)
ValidatedWhenDone ==
  pc \in {"validate", "returned"} =>
    \A c \in ClientIds :
      /\ ~Running(c)
      /\ process[c] = "exited" => \A r \in RoundIds : output[c][r] # NoLine

(***************************************************************************)
(* However the requests of the clients overtake each other in the one      *)
(* field lastRequestId (line 245), without faults the last handler ends    *)
(* with the number the response threads wait for (line 142).               *)
(***************************************************************************)
FinalIdReached ==
  (pc = "returned" /\ faults = 0) => lastRequestId[requestsHandler] = ReqAmount - 1

(***************************************************************************)
(* runTest returns or throws, whatever the clients do: each of its waits   *)
(* has a time limit (lines 105 and 159).                                   *)
(***************************************************************************)
RunEnds == <>(pc \in {"returned", "aborted"})

(***************************************************************************)
(* After a test without faults every response thread ends (lines 141 to    *)
(* 151), also one that tested lastRequestId before the last notifyAll and  *)
(* began to wait after it, and one the stand no longer waits for.          *)
(***************************************************************************)
WaitersEnd ==
  (pc = "returned" /\ faults = 0)
    ~> (\A r \in RoundIds, c \in ClientIds : thread[r][c] = "done")
==============================================================================
