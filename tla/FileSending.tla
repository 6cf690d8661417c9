---------------------------- MODULE FileSending ----------------------------
(***************************************************************************)
(* A test that sends files, over plain TCP, QUIC or QUICHE: runTest of     *)
(* the stand for one combination of parameters after the other, with the   *)
(* client threads of every file size and the processes they start.         *)
(*                                                                         *)
(* Waits with a time limit may end at any time.  A client that the stand   *)
(* no longer waits for goes on, with the static fileSize of the rounds     *)
(* that follow.                                                            *)
(***************************************************************************)
EXTENDS Integers, SequencesExt

CONSTANTS
  Kinds,       \* the transports: a subset of {"tcp", "quic", "quiche"}
  Combos,      \* how many combinations the stand is run with
  Sizes,       \* configuration.fileSizes.length
  Clients,     \* configuration.getClients().length
  ReqAmount

ASSUME FileSendingAssumption ==
  /\ Kinds \subseteq {"tcp", "quic", "quiche"}
  /\ {Combos, Sizes, ReqAmount} \subseteq Nat \ {0}
  /\ Clients \in 1..3   \* so that no waitFor lasts as long as the joins

\* The client objects: combination, round (file size), number.
Client == (1..Combos) \X (1..Sizes) \X (1..Clients)
Requests == 1..ReqAmount
Ids == 0..(Clients * Combos - 1)

VARIABLES
  kind,
  mainPc, combo, next,
  clientThreads,   \* the list of the stand
  fileSize,        \* the static field, and the loop variable of the stand
  serverOk,        \* serverThread.getTestResult().success
  success,         \* testResult.success of the round
  results,         \* of the current combination
  pc, req, id,     \* of every client: where it is, at which request, its id
  clientSuccess, clientError,   \* testResult.success, testResult.error # null
  response,        \* of a TCP client: is response whole?
  broken,          \* TCP: the clients whose connection has failed
  processes,       \* that run, with the file they write to
  files,           \* the output files in logDir of the current combination
  answered,        \* history: the requests of each client that were answered
  leftBehind       \* history: the clients that were joined in vain

mainVars == <<mainPc, combo, next, clientThreads, fileSize, serverOk, success, results, leftBehind>>
threadVars == <<pc, req, clientSuccess, clientError>>
worldVars == <<response, broken, processes, files, answered>>
vars == <<kind, mainVars, threadVars, id, worldVars>>

\* A process: the client and the request it is for, and the size and id in
\* the name of its file.
Process == [client: Client, request: Requests, size: 1..Sizes, id: Ids]

Absent == [file \in (1..Sizes) \X Ids \X Requests |-> "absent"]

Init ==
  /\ kind \in Kinds
  /\ mainPc = "runTest" /\ combo = 1 /\ next = 1
  /\ clientThreads = << >>
  /\ fileSize = 1
  /\ serverOk = FALSE /\ success = FALSE
  /\ results = [s \in 1..Sizes |-> "none"]
  /\ leftBehind = {}
  /\ pc = [c \in Client |-> "none"]
  /\ req = [c \in Client |-> 1]
  /\ id = [c \in Client |-> 0]
  /\ clientSuccess = {} /\ clientError = {}
  /\ response = [c \in Client |-> "null"]
  /\ broken = {}
  /\ processes = {}
  /\ files = Absent
  /\ answered = [c \in Client |-> {}]

Goto(label, n) == mainPc' = label /\ next' = n
Now == clientThreads[next]

---------------------------------------------------------------------------
(***************************************************************************)
(* runTest and executeTest of the stand, on the main thread.               *)
(***************************************************************************)
\* A new log directory, which may fail, and the server, which may fail to start.
RunTest ==
  /\ mainPc = "runTest"
  /\ files' = Absent
  /\ serverOk' \in BOOLEAN
  /\ fileSize' = 1
  /\ Goto("clients", 1) \/ Goto("failed", 1)
  /\ UNCHANGED <<kind, combo, clientThreads, success, results, leftBehind,
                 threadVars, id, response, broken, processes, answered>>

\* The constructor of a TCP client connects, and may throw.
InitClient ==
  /\ mainPc = "clients" /\ next <= Clients
  /\ LET c == <<combo, fileSize, next>>
     IN \/ /\ pc' = [pc EXCEPT ![c] = "new"]
           /\ id' = [id EXCEPT ![c] = Len(clientThreads)]
           /\ clientThreads' = Append(clientThreads, c)
           /\ Goto("clients", next + 1)
        \/ /\ kind = "tcp"
           /\ Goto("failed", 1)
           /\ UNCHANGED <<pc, id, clientThreads>>
  /\ UNCHANGED <<kind, combo, fileSize, serverOk, success, results, leftBehind,
                 req, clientSuccess, clientError, worldVars>>

\* clientThreads.forEach(Thread::start): a thread that has been started
\* before throws, and those after it are not started.
StartClients ==
  /\ mainPc = "clients" /\ next > Clients
  /\ LET old == {i \in DOMAIN clientThreads : pc[clientThreads[i]] # "new"}
         started == {clientThreads[i] : i \in {j \in DOMAIN clientThreads :
                                                 \A i \in old : j < i}}
     IN /\ pc' = [c \in Client |-> IF c \in started THEN "request" ELSE pc[c]]
        /\ Goto(IF old = {} THEN "join" ELSE "failed", 1)
  /\ UNCHANGED <<kind, combo, clientThreads, fileSize, serverOk, success, results, leftBehind,
                 req, clientSuccess, clientError, id, worldVars>>

\* Mutant: join without a time limit.
JoinForever ==
  /\ mainPc = "join" /\ next <= Len(clientThreads)
  /\ pc[Now] = "done"
  /\ Goto("join", next + 1)
  /\ UNCHANGED <<kind, combo, clientThreads, fileSize, serverOk, success, results, leftBehind,
                 threadVars, id, worldVars>>

\* join(300_000).
Join ==
  /\ mainPc = "join" /\ next <= Len(clientThreads)
  /\ IF pc[Now] = "done"
     THEN UNCHANGED leftBehind
     ELSE leftBehind' = leftBehind \cup {Now}
  /\ Goto("join", next + 1)
  /\ UNCHANGED <<kind, combo, clientThreads, fileSize, serverOk, success, results,
                 threadVars, id, worldVars>>

\* setUpTestResult: first the flags of all clients and of the server ...
Flags ==
  /\ mainPc = "join" /\ next > Len(clientThreads)
  /\ success' = (serverOk /\ Range(clientThreads) \subseteq clientSuccess)
  /\ Goto(IF success' THEN "validate" ELSE "errors", 1)
  /\ UNCHANGED <<kind, combo, clientThreads, fileSize, serverOk, results, leftBehind,
                 threadVars, id, worldVars>>

\* Mutant: only the file of the last request is read.
FileOfLast(c) == {<<fileSize, id[c], req[c]>>}

FilesOf(c) == {<<fileSize, id[c], k>> : k \in IF kind = "quiche" THEN {1} ELSE Requests}

\* A file that cannot be read ends the test with an exception: for QUIC, of
\* any request; for QUICHE in getError only.
Unreadable(c) == kind # "tcp" /\ \E f \in FilesOf(c) : files[f] = "absent"

ValidateResponse(c) ==
  IF kind = "tcp" THEN response[c] = "whole"
  ELSE \A f \in FilesOf(c) : files[f] = "ok"

\* ... then validateResponse, client by client ...
Validate ==
  /\ mainPc = "validate" /\ next <= Len(clientThreads)
  /\ IF Unreadable(Now) /\ kind = "quic"
     THEN Goto("failed", 1) /\ UNCHANGED success
     ELSE /\ success' = ValidateResponse(Now)
          /\ IF success' THEN Goto("validate", next + 1) ELSE Goto("errors", 1)
  /\ UNCHANGED <<kind, combo, clientThreads, fileSize, serverOk, results, leftBehind,
                 threadVars, id, worldVars>>

\* Mutant: a file that cannot be read is passed over.
GetErrorOrNothing ==
  /\ mainPc = "errors" /\ next <= Len(clientThreads)
  /\ Goto("errors", next + 1)
  /\ UNCHANGED <<kind, combo, clientThreads, fileSize, serverOk, success, results, leftBehind,
                 threadVars, id, worldVars>>

\* ... and getError, if one of these has failed.
GetError ==
  /\ mainPc = "errors" /\ next <= Len(clientThreads)
  /\ IF Unreadable(Now) THEN Goto("failed", 1) ELSE Goto("errors", next + 1)
  /\ UNCHANGED <<kind, combo, clientThreads, fileSize, serverOk, success, results, leftBehind,
                 threadVars, id, worldVars>>

\* The processes that AbstractQuicClient.clear finds in the field process;
\* QuicheClient keeps its process in a local variable.
Destroyed ==
  {p \in processes : kind = "quic" /\ p.client \in Range(clientThreads)
                     /\ p.request = IF pc[p.client] = "request"
                                    THEN req[p.client] - 1 ELSE req[p.client]}

NextRound ==
  IF fileSize < Sizes
  THEN fileSize' = fileSize + 1 /\ Goto("clients", 1)
  ELSE UNCHANGED fileSize /\ Goto("clear", 1)

\* The result is added, the clients are cleared, and the list is.
Result ==
  /\ mainPc \in {"validate", "errors"} /\ next > Len(clientThreads)
  /\ results' = [results EXCEPT ![fileSize] =
                   IF success THEN "success" ELSE "failure"]
  /\ processes' = processes \ Destroyed
  /\ clientThreads' = << >>
  /\ NextRound
  /\ UNCHANGED <<kind, combo, serverOk, success, leftBehind,
                 threadVars, id, response, broken, files, answered>>

\* An exception leaves the list of clients as it is; TestStand replaces all
\* results of this combination by errors.
Failed ==
  /\ mainPc = "failed"
  /\ results' = [s \in 1..Sizes |-> "failure"]
  /\ Goto("clear", 1)
  /\ UNCHANGED <<kind, combo, clientThreads, fileSize, serverOk, success, leftBehind,
                 threadVars, id, worldVars>>

\* Bound: of the clients of earlier combinations, only those that are still
\* in the list are kept; no result depends on the others.
Kept(f, v) == [c \in Client |-> IF c \in Range(clientThreads) THEN f[c] ELSE v]

\* clear of the stand, and on to the next combination.
Clear ==
  /\ mainPc = "clear" /\ combo < Combos
  /\ combo' = combo + 1
  /\ Goto("runTest", 1)
  /\ pc' = Kept(pc, "none") /\ req' = Kept(req, 1) /\ id' = Kept(id, 0)
  /\ response' = Kept(response, "null") /\ answered' = Kept(answered, {})
  /\ clientSuccess' = clientSuccess \cap Range(clientThreads)
  /\ clientError' = clientError \cap Range(clientThreads)
  /\ broken' = broken \cap Range(clientThreads)
  /\ leftBehind' = leftBehind \cap Range(clientThreads)
  /\ processes' = {}
  /\ results' = [s \in 1..Sizes |-> "none"]
  /\ UNCHANGED <<kind, clientThreads, fileSize, serverOk, success, files>>

\* QuicheServer.clear may throw, which ends the test before its last
\* combination.
ClearLast ==
  /\ mainPc = "clear" /\ (combo = Combos \/ kind # "tcp")
  /\ Goto("done", 1)
  /\ UNCHANGED <<kind, combo, clientThreads, fileSize, serverOk, success, results, leftBehind,
                 threadVars, id, worldVars>>

MainThread ==
  \/ RunTest \/ InitClient \/ StartClients \/ Join \/ Flags
  \/ Validate \/ GetError \/ Result \/ Failed \/ Clear \/ ClearLast

---------------------------------------------------------------------------
(***************************************************************************)
(* A client that is through with a request, after its answer, its failure  *)
(* or its time.                                                            *)
(***************************************************************************)
NextRequest(c) ==
  IF req[c] < ReqAmount
  THEN /\ req' = [req EXCEPT ![c] = req[c] + 1]
       /\ pc' = [pc EXCEPT ![c] = "request"]
       /\ UNCHANGED clientSuccess
  ELSE /\ pc' = [pc EXCEPT ![c] = "done"]
       /\ clientSuccess' = clientSuccess \cup {c}
       /\ UNCHANGED req

\* testResult = new TestResult(error).
GiveUp(c) ==
  /\ pc' = [pc EXCEPT ![c] = "done"]
  /\ clientError' = clientError \cup {c}
  /\ UNCHANGED <<req, clientSuccess>>

\* What a client thread leaves alone.
StandUnchanged == UNCHANGED <<kind, mainVars, id>>

(***************************************************************************)
(* PureTcpClient.run.                                                      *)
(***************************************************************************)
SendRequest(c) ==
  /\ kind = "tcp" /\ pc[c] = "request"
  /\ response' = [response EXCEPT ![c] = "part"]
  /\ pc' = [pc EXCEPT ![c] = "wait"]
  /\ UNCHANGED <<req, clientSuccess, clientError, broken, processes, files, answered>>

ReadFully(c) ==
  /\ kind = "tcp" /\ pc[c] = "wait" /\ serverOk /\ c \notin broken
  /\ response' = [response EXCEPT ![c] = "whole"]
  /\ answered' = [answered EXCEPT ![c] = @ \cup {req[c]}]
  /\ NextRequest(c)
  /\ UNCHANGED <<clientError, broken, processes, files>>

\* An IOException of the write or of the read: the loop goes on.
TcpFails(c) ==
  /\ kind = "tcp" /\ pc[c] \in {"request", "wait"}
  /\ broken' = broken \cup {c}
  /\ clientError' = clientError \cup {c}
  /\ NextRequest(c)
  /\ UNCHANGED <<response, processes, files, answered>>

(***************************************************************************)
(* AbstractQuicClient.run: a process per request, whose file has the name  *)
(* of the current fileSize.                                                *)
(***************************************************************************)
Write(c, file, text) ==
  files' = IF c[1] = combo THEN [files EXCEPT ![file] = text] ELSE files

ProcessFor(c, k, size) == [client |-> c, request |-> k, size |-> size, id |-> id[c]]

File(p) == <<p.size, p.id, p.request>>

StartProcess(c) ==
  /\ kind = "quic" /\ pc[c] = "request"
  /\ LET p == ProcessFor(c, req[c], fileSize)
     IN /\ Write(c, File(p), "noOk")
        /\ \/ /\ processes' = processes \cup {p}
              /\ pc' = [pc EXCEPT ![c] = "wait"]
              /\ UNCHANGED <<req, clientSuccess, clientError>>
           \/ GiveUp(c) /\ UNCHANGED processes
  /\ UNCHANGED <<response, broken, answered>>

\* The process has ended, or 900 s are over; the difference is not looked at.
WaitFor(c) ==
  /\ kind = "quic" /\ pc[c] = "wait"
  /\ \/ ~\E p \in processes : p.client = c /\ p.request = req[c]
     \/ c \in leftBehind
  /\ NextRequest(c)
  /\ UNCHANGED <<clientError, worldVars>>

(***************************************************************************)
(* QuicheClient.run: one process for all requests, whose output is polled  *)
(* for "connection closed".                                                *)
(***************************************************************************)
Exec(c) ==
  /\ kind = "quiche" /\ pc[c] = "request"
  /\ LET p == ProcessFor(c, 1, c[2])
     IN \/ /\ Write(c, File(p), "noOk")
           /\ processes' = processes \cup {p}
           /\ pc' = [pc EXCEPT ![c] = "wait"]
           /\ UNCHANGED <<req, clientSuccess, clientError>>
        \/ Write(c, File(p), "noOk") /\ GiveUp(c) /\ UNCHANGED processes
        \/ GiveUp(c) /\ UNCHANGED <<files, processes>>
  /\ UNCHANGED <<response, broken, answered>>

\* The line, or the end of the 100 s.
PollOutput(c) ==
  /\ kind = "quiche" /\ pc[c] = "wait"
  /\ \/ /\ c[1] = combo => files[<<c[2], id[c], 1>>] \in {"closed", "ok"}
        /\ pc' = [pc EXCEPT ![c] = "done"]
        /\ clientSuccess' = clientSuccess \cup {c}
        /\ UNCHANGED <<req, clientError>>
     \/ GiveUp(c)
  /\ UNCHANGED worldVars

ClientThread(c) ==
  /\ \/ SendRequest(c) \/ ReadFully(c) \/ TcpFails(c)
     \/ StartProcess(c) \/ WaitFor(c)
     \/ Exec(c) \/ PollOutput(c)
  /\ StandUnchanged

\* A process ends with its answer or answers, or without; a process of
\* QUICHE says how many there were.
ProcessEnds(p) ==
  /\ processes' = processes \ {p}
  /\ \/ /\ Write(p.client, File(p), "ok")
        /\ answered' = [answered EXCEPT ![p.client] =
                           IF kind = "quic" THEN @ \cup {p.request} ELSE Requests]
     \/ /\ kind = "quiche"
        /\ Write(p.client, File(p), "closed")
        /\ UNCHANGED answered
     \/ UNCHANGED <<files, answered>>
  /\ UNCHANGED <<threadVars, response, broken>>
  /\ StandUnchanged

\* Bound: what the other clients go on doing is left out, and what clients do
\* after the test.
Observed(c) == c[1] = combo \/ (kind = "tcp" /\ c \in Range(clientThreads))

Next ==
  /\ mainPc # "done"
  /\ \/ MainThread
     \/ \E c \in Client : Observed(c) /\ ClientThread(c)
     \/ \E p \in processes : Observed(p.client) /\ ProcessEnds(p)

\* The main thread waits with time limits only.
Spec == Init /\ [][Next]_vars /\ WF_vars(MainThread)

---------------------------------------------------------------------------
(***************************************************************************)
(* A round counts as successful only if every client of it had all its     *)
(* requests answered by processes of its own - but for one gap: an error   *)
(* of a TCP client that did get a whole file before is overwritten by      *)
(* success = true (PureTcpClient.java, lines 75 and 79).                   *)
(***************************************************************************)
SuccessIsEarned ==
  \A c \in {combo} \X (1..Sizes) \X (1..Clients) :
    results[c[2]] = "success" =>
      \/ answered[c] = Requests
      \/ kind = "tcp" /\ c \in clientError /\ answered[c] # {}

(***************************************************************************)
(* No two processes write to one output file of the current combination,   *)
(* although the names of the                                               *)
(* files depend on a static field that the main thread changes under the   *)
(* clients it has left behind (AbstractQuicClient.java, lines 27-30).      *)
(* What protects them is that getError throws for a client that has not    *)
(* come to its last request, and so ends the rounds of the combination.    *)
(***************************************************************************)
WritersApart ==
  \A p, q \in processes : File(p) = File(q) => p = q

(***************************************************************************)
(* The test comes to an end, whatever its clients do: a thread that waits  *)
(* for ever on a connection or a process does not keep the stand           *)
(* (AbstractCommonFileSendingTestStand.java, line 17).                     *)
(***************************************************************************)
TestEnds == <>(mainPc = "done")
==============================================================================
