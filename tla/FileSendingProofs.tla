------------------------- MODULE FileSendingProofs -------------------------
(***************************************************************************)
(* Proofs about FileSending, for all transports and any number of          *)
(* combinations, file sizes and requests.  IndInv relates four things that *)
(* the code keeps apart: where the stand is, where its client threads are, *)
(* the names of the files their processes write, and what has been         *)
(* answered.                                                               *)
(***************************************************************************)
EXTENDS FileSending, TLAPS

---------------------------------------------------------------------------
(* The inductive invariant. *)

MainPcs == {"runTest", "clients", "join", "validate", "errors", "failed", "clear", "done"}

FileNames == (1..Sizes) \X Ids \X Requests

StandTypes ==
  /\ mainPc \in MainPcs
  /\ combo \in 1..Combos
  /\ next \in Nat \ {0}
  /\ clientThreads \in Seq(Client)
  /\ fileSize \in 1..Sizes
  /\ serverOk \in BOOLEAN /\ success \in BOOLEAN
  /\ results \in [1..Sizes -> {"none", "success", "failure"}]

ClientTypes ==
  /\ kind \in Kinds
  /\ pc \in [Client -> {"none", "new", "request", "wait", "done"}]
  /\ req \in [Client -> Requests]
  /\ id \in [Client -> Ids]
  /\ response \in [Client -> {"null", "part", "whole"}]
  /\ clientSuccess \subseteq Client /\ clientError \subseteq Client
  /\ processes \subseteq Process
  /\ files \in [FileNames -> {"absent", "noOk", "closed", "ok"}]
  /\ answered \in [Client -> SUBSET Requests]

TypeOK == StandTypes /\ ClientTypes

\* How many clients the list may hold.
LengthKnown ==
  /\ mainPc = "runTest" => Len(clientThreads) <= Clients * (combo - 1)
  /\ mainPc = "clients" =>
       Len(clientThreads) <= Clients * (combo - 1) + next - 1 /\ next <= Clients + 1
  /\ Len(clientThreads) <= Clients * combo

\* A client of the current combination, and of its current round.
Mine(s, n) == <<combo, s, n>>
Current(n) == Mine(fileSize, n)

Created(c) == pc[c] # "none"

InRound == mainPc \in {"clients", "join", "validate", "errors"}

FutureUntouched ==
  /\ \A c \in Client : c[1] > combo \/ (mainPc = "runTest" /\ c[1] = combo) => ~Created(c)
  /\ mainPc # "runTest" => \A s \in 1..Sizes, n \in 1..Clients : s > fileSize => ~Created(Mine(s, n))
  /\ mainPc = "clients" => \A n \in 1..Clients : n >= next => ~Created(Current(n))

\* The clients of the round are there, each in the list where its id says.
RoundCreated ==
  /\ mainPc = "clients" => \A n \in 1..Clients : n < next => Created(Current(n))
  /\ mainPc \in {"join", "validate", "errors"} => \A n \in 1..Clients : Created(Current(n))

PositionKnown ==
  InRound => \A n \in 1..Clients : Created(Current(n)) =>
    /\ id[Current(n)] + 1 \in DOMAIN clientThreads
    /\ clientThreads[id[Current(n)] + 1] = Current(n)

\* No two clients of a round have the same id.
IdsApart ==
  \A s \in 1..Sizes : \A m, n \in 1..Clients :
    Created(Mine(s, m)) /\ Created(Mine(s, n)) /\ id[Mine(s, m)] = id[Mine(s, n)] => m = n

DoneKnown == \A c \in clientSuccess : pc[c] = "done"

\* The client has come to request k, and has started it.
Begun(c, k) ==
  /\ pc[c] \in {"request", "wait", "done"}
  /\ k < req[c] \/ (k = req[c] /\ pc[c] # "request")

ProcessesKnown ==
  \A p \in processes :
    /\ p.client[1] = combo
    /\ p.size = p.client[2]
    /\ p.id = id[p.client]
    /\ Begun(p.client, p.request)

\* A file is there because a client of the round in its name has begun the
\* request in its name; if it says ok, then because that was answered.
Writer(c, k, text) ==
  /\ Begun(c, k)
  /\ text = "ok" => k \in answered[c] /\ (kind = "quiche" => answered[c] = Requests)

FilesKnown ==
  mainPc # "runTest" => \A s \in 1..Sizes, i \in Ids, k \in Requests :
    files[<<s, i, k>>] # "absent" =>
      \E n \in 1..Clients : id[Mine(s, n)] = i /\ Writer(Mine(s, n), k, files[<<s, i, k>>])

\* The clients of earlier rounds start no more processes.
Over(c) == pc[c] = "done" \/ (pc[c] = "wait" /\ req[c] = ReqAmount)

RoundsOver ==
  kind = "quic" /\ mainPc # "runTest" =>
    \A s \in 1..Sizes, n \in 1..Clients : s < fileSize => Over(Mine(s, n))

TcpKnown ==
  kind = "tcp" =>
    /\ processes = {}
    /\ \A c \in Client :
         /\ response[c] = "whole" => answered[c] # {}
         /\ c \notin clientError => /\ 1..(req[c] - 1) \subseteq answered[c]
                                    /\ c \in clientSuccess => answered[c] = Requests

Earned(c) ==
  \/ answered[c] = Requests
  \/ kind = "tcp" /\ c \in clientError /\ answered[c] # {}

ErrorsKnown ==
  mainPc = "errors" =>
    /\ ~success
    /\ kind # "tcp" => \A i \in DOMAIN clientThreads : i < next =>
         \A f \in FilesOf(clientThreads[i]) : files[f] # "absent"

ValidKnown ==
  mainPc = "validate" =>
    /\ success
    /\ Range(clientThreads) \subseteq clientSuccess
    /\ \A n \in 1..Clients : id[Current(n)] + 1 < next => Earned(Current(n))

IndInv ==
  /\ TypeOK /\ LengthKnown
  /\ FutureUntouched /\ RoundCreated /\ PositionKnown /\ IdsApart
  /\ DoneKnown /\ ProcessesKnown /\ FilesKnown /\ RoundsOver /\ TcpKnown
  /\ ErrorsKnown /\ ValidKnown /\ SuccessIsEarned

---------------------------------------------------------------------------
(* Numbers and names. *)

LEMMA Numbers ==
  /\ Combos \in Nat \ {0} /\ Sizes \in Nat \ {0} /\ ReqAmount \in Nat \ {0}
  /\ Clients \in {1, 2, 3}
  /\ 1 \in Requests /\ ReqAmount \in Requests /\ Requests \subseteq Nat \ {0}
  /\ Ids \subseteq Nat /\ 0 \in Ids
<1>1. Combos \in Nat \ {0} /\ Sizes \in Nat \ {0} /\ ReqAmount \in Nat \ {0}
  BY FileSendingAssumption
<1>2. Clients \in {1, 2, 3}
  BY FileSendingAssumption
<1>3. Clients * Combos \in Nat \ {0}
  BY <1>1, <1>2
<1> QED
  BY <1>1, <1>2, <1>3 DEF Requests, Ids

\* The list of one more client, and that of one more combination.
LEMMA Capacity ==
  ASSUME NEW n \in 1..Combos
  PROVE  /\ Clients * (n - 1) \in Nat /\ Clients * n = Clients * (n - 1) + Clients
         /\ Clients * n <= Clients * Combos
         /\ Clients * ((n + 1) - 1) = Clients * n /\ Clients * (n + 1) >= Clients * n
<1>1. CASE Clients = 1
  BY <1>1, Numbers
<1>2. CASE Clients = 2
  BY <1>2, Numbers
<1>3. CASE Clients = 3
  BY <1>3, Numbers
<1> QED
  BY <1>1, <1>2, <1>3, Numbers

LEMMA MineIs ==
  ASSUME combo \in 1..Combos
  PROVE  /\ \A s \in 1..Sizes, n \in 1..Clients :
              /\ Mine(s, n) \in Client
              /\ Mine(s, n)[1] = combo /\ Mine(s, n)[2] = s /\ Mine(s, n)[3] = n
         /\ \A c \in Client : c[1] \in 1..Combos /\ c[2] \in 1..Sizes /\ c[3] \in 1..Clients
         /\ \A c \in Client : c[1] = combo => c = Mine(c[2], c[3])
BY DEF Mine, Client

LEMMA CurrentIs ==
  ASSUME StandTypes
  PROVE  \A n \in 1..Clients : Current(n) \in Client /\ Current(n)[1] = combo /\ Current(n)[2] = fileSize
BY MineIs DEF StandTypes, Current

LEMMA IdIsNat == TypeOK => \A n \in 1..Clients : id[Current(n)] \in Nat
BY CurrentIs, Numbers DEF TypeOK, ClientTypes

LEMMA InTheList ==
  ASSUME StandTypes
  PROVE  /\ Len(clientThreads) \in Nat /\ DOMAIN clientThreads = 1..Len(clientThreads)
         /\ \A i \in DOMAIN clientThreads :
              clientThreads[i] \in Client /\ clientThreads[i] \in Range(clientThreads)
         /\ \A c \in Range(clientThreads) : \E i \in DOMAIN clientThreads : c = clientThreads[i]
BY DEF StandTypes, Range

LEMMA InitIndInv == Init => IndInv
<1> SUFFICES ASSUME Init PROVE IndInv
  OBVIOUS
<1>1. StandTypes
  <2>1. combo \in 1..Combos /\ fileSize \in 1..Sizes /\ next \in Nat \ {0}
    BY Numbers DEF Init
  <2>2. clientThreads \in Seq(Client) /\ results \in [1..Sizes -> {"none", "success", "failure"}]
    BY DEF Init
  <2> QED
    BY <2>1, <2>2 DEF Init, StandTypes, MainPcs
<1>2. ClientTypes
  BY Numbers DEF Init, ClientTypes, Absent, FileNames, Process
<1>3. LengthKnown
  <2>1. Clients * (combo - 1) \in Nat /\ Clients * combo \in Nat
    BY Capacity, Numbers DEF Init
  <2> QED
    BY <2>1 DEF Init, LengthKnown
<1>4. FutureUntouched /\ RoundCreated /\ PositionKnown /\ IdsApart
  BY <1>1, MineIs
     DEF Init, StandTypes, FutureUntouched, RoundCreated, PositionKnown, IdsApart, Created,
                      InRound
<1>5. DoneKnown /\ ProcessesKnown /\ FilesKnown /\ RoundsOver /\ TcpKnown
  BY DEF Init, DoneKnown, ProcessesKnown, FilesKnown, RoundsOver, TcpKnown
<1>6. ErrorsKnown /\ ValidKnown /\ SuccessIsEarned
  BY <1>1, MineIs DEF Init, ErrorsKnown, ValidKnown, SuccessIsEarned
<1> QED
  BY <1>1, <1>2, <1>3, <1>4, <1>5, <1>6 DEF IndInv, TypeOK

---------------------------------------------------------------------------
(* The main thread. *)

\* Steps within a round, or after it, that touch no client.
LEMMA StandFrame ==
  ASSUME IndInv, UNCHANGED <<kind, combo, clientThreads, fileSize, threadVars, id, worldVars>>,
         mainPc \notin {"runTest", "clients"}, mainPc' \in MainPcs \ {"runTest", "clients"},
         mainPc' \in {"join", "validate", "errors"} => mainPc \in {"join", "validate", "errors"}
  PROVE  /\ ClientTypes' /\ LengthKnown'
         /\ FutureUntouched' /\ RoundCreated' /\ PositionKnown' /\ IdsApart'
         /\ DoneKnown' /\ ProcessesKnown' /\ FilesKnown' /\ RoundsOver' /\ TcpKnown'
<1> USE DEF threadVars, worldVars
<1>1. ClientTypes'
  BY DEF IndInv, TypeOK, ClientTypes
<1>2. LengthKnown'
  BY DEF IndInv, LengthKnown
<1>3. FutureUntouched' /\ RoundCreated'
  BY DEF IndInv, FutureUntouched, RoundCreated, Created, Current, Mine
<1>4. PositionKnown' /\ IdsApart'
  BY DEF IndInv, PositionKnown, IdsApart, InRound, Created, Current, Mine
<1>5. DoneKnown' /\ ProcessesKnown' /\ TcpKnown'
  BY DEF IndInv, DoneKnown, ProcessesKnown, TcpKnown, Begun
<1>6. FilesKnown'
  <2> SUFFICES ASSUME NEW s \in 1..Sizes, NEW i \in Ids, NEW k \in Requests, files[<<s, i, k>>] # "absent"
               PROVE  \E n \in 1..Clients :
                        id[Mine(s, n)] = i /\ Writer(Mine(s, n), k, files[<<s, i, k>>])'
    BY DEF FilesKnown, Mine
  <2>1. PICK n \in 1..Clients : id[Mine(s, n)] = i /\ Writer(Mine(s, n), k, files[<<s, i, k>>])
    BY DEF IndInv, FilesKnown
  <2> QED
    BY <2>1 DEF Writer, Begun, Mine
<1>7. RoundsOver'
  BY DEF IndInv, RoundsOver, Over, Mine
<1> QED
  BY <1>1, <1>2, <1>3, <1>4, <1>5, <1>6, <1>7

\* Whoever wrote a file of a client of the round is that client.
LEMMA WriterIsClient ==
  ASSUME IndInv, mainPc \in {"validate", "errors"}, NEW n \in 1..Clients, NEW k \in Requests,
         files[<<fileSize, id[Current(n)], k>>] # "absent"
  PROVE  Writer(Current(n), k, files[<<fileSize, id[Current(n)], k>>])
<1>1. Current(n) \in Client /\ id[Current(n)] \in Ids /\ fileSize \in 1..Sizes
  BY CurrentIs DEF IndInv, TypeOK, StandTypes, ClientTypes
<1>2. PICK m \in 1..Clients :
        /\ id[Mine(fileSize, m)] = id[Current(n)]
        /\ Writer(Mine(fileSize, m), k, files[<<fileSize, id[Current(n)], k>>])
  BY <1>1 DEF IndInv, FilesKnown
<1>3. Created(Mine(fileSize, m)) /\ Created(Current(n))
  BY <1>2 DEF IndInv, RoundCreated, Writer, Begun, Created
<1>4. m = n
  BY <1>1, <1>2, <1>3 DEF IndInv, IdsApart, Current
<1> QED
  BY <1>2, <1>4 DEF Current

\* A client that validateResponse accepts has earned it.
LEMMA ValidateEarned ==
  ASSUME IndInv, mainPc = "validate", NEW n \in 1..Clients, ValidateResponse(Current(n))
  PROVE  Earned(Current(n))
<1> DEFINE c == Current(n)
<1>1. /\ c \in Client /\ kind \in {"tcp", "quic", "quiche"} /\ answered[c] \subseteq Requests
      /\ c \in clientSuccess
  <2>1. id[c] + 1 \in DOMAIN clientThreads /\ clientThreads[id[c] + 1] = c
    BY DEF IndInv, PositionKnown, RoundCreated, InRound
  <2>2. c \in Range(clientThreads)
    BY <2>1 DEF Range
  <2> QED
    BY <2>2, CurrentIs, FileSendingAssumption DEF IndInv, TypeOK, ClientTypes, ValidKnown
<1>2. CASE kind = "tcp"
  BY <1>1, <1>2 DEF ValidateResponse, IndInv, TcpKnown, Earned
<1>3. ASSUME kind # "tcp", NEW k \in Requests, files[<<fileSize, id[c], k>>] = "ok"
      PROVE  k \in answered[c] /\ (kind = "quiche" => answered[c] = Requests)
  BY <1>3, WriterIsClient DEF Writer
<1>4. CASE kind = "quic"
  <2>1. \A k \in Requests : files[<<fileSize, id[c], k>>] = "ok"
    BY <1>4 DEF ValidateResponse, FilesOf
  <2> QED
    BY <1>1, <1>3, <1>4, <2>1 DEF Earned
<1>5. CASE kind = "quiche"
  <2>1. files[<<fileSize, id[c], 1>>] = "ok"
    BY <1>5 DEF ValidateResponse, FilesOf
  <2> QED
    BY <1>3, <1>5, <2>1, Numbers DEF Earned
<1> QED
  BY <1>1, <1>2, <1>4, <1>5

\* The clients of a QUIC round start no process after it.
LEMMA RoundOver ==
  ASSUME IndInv, kind = "quic", mainPc \in {"validate", "errors"}, next > Len(clientThreads),
         NEW n \in 1..Clients
  PROVE  Over(Current(n))
<1> DEFINE c == Current(n)
<1>0. c \in Client /\ req[c] \in Requests /\ id[c] \in Nat /\ Len(clientThreads) \in Nat /\ next \in Nat
  BY CurrentIs, Numbers, InTheList DEF IndInv, TypeOK, ClientTypes, StandTypes
<1>1. id[c] + 1 \in DOMAIN clientThreads /\ clientThreads[id[c] + 1] = c
  BY DEF IndInv, PositionKnown, RoundCreated, InRound
<1>2. CASE mainPc = "validate"
  BY <1>1, <1>2 DEF IndInv, ValidKnown, Range, DoneKnown, Over
<1>3. CASE mainPc = "errors"
  <2>1. id[c] + 1 < next
    BY <1>0, <1>1, InTheList DEF IndInv, TypeOK
  <2>2. <<fileSize, id[c], ReqAmount>> \in FilesOf(c)
    BY Numbers DEF FilesOf
  <2>3. files[<<fileSize, id[c], ReqAmount>>] # "absent"
    BY <1>1, <1>3, <2>1, <2>2 DEF IndInv, ErrorsKnown
  <2>4. Begun(c, ReqAmount)
    BY <1>3, <2>3, WriterIsClient, Numbers DEF Writer
  <2>5. req[c] <= ReqAmount /\ req[c] \in Nat
    BY <1>0, Numbers DEF Requests
  <2> QED
    BY <2>4, <2>5, Numbers DEF Begun, Over
<1> QED
  BY <1>2, <1>3

LEMMA RunTestIndInv == ASSUME IndInv, RunTest PROVE IndInv'
<1> USE DEF threadVars, worldVars
<1>1. /\ mainPc = "runTest" /\ mainPc' \in {"clients", "failed"} /\ next' = 1
      /\ files' = Absent /\ serverOk' \in BOOLEAN /\ fileSize' = 1
      /\ UNCHANGED <<kind, combo, clientThreads, success, results, leftBehind,
                     threadVars, id, response, broken, processes, answered>>
  BY DEF RunTest, Goto
<1>2. TypeOK'
  <2>1. StandTypes'
    BY <1>1, Numbers DEF IndInv, TypeOK, StandTypes, MainPcs
  <2>2. files' \in [FileNames -> {"absent", "noOk", "closed", "ok"}]
    BY <1>1 DEF Absent, FileNames
  <2> QED
    BY <1>1, <2>1, <2>2 DEF IndInv, TypeOK, ClientTypes
<1>3. LengthKnown'
  <2>1. /\ Len(clientThreads) \in Nat /\ Clients * (combo - 1) \in Nat
        /\ Clients * combo = Clients * (combo - 1) + Clients
    BY Capacity, InTheList DEF IndInv, TypeOK, StandTypes
  <2> QED
    BY <1>1, <2>1, Numbers DEF IndInv, LengthKnown
<1>4. \A s \in 1..Sizes, n \in 1..Clients : ~Created(Mine(s, n))' /\ ~Created(Mine(s, n))
  BY <1>1, MineIs DEF IndInv, TypeOK, StandTypes, FutureUntouched, Created, Mine
<1>5. FutureUntouched' /\ RoundCreated' /\ PositionKnown' /\ IdsApart'
  <2>1. \A n \in 1..Clients : ~Created(Current(n))'
    BY <1>2, <1>4 DEF TypeOK, StandTypes, Current
  <2>2. FutureUntouched'
    BY <1>1, <1>4, <2>1 DEF IndInv, FutureUntouched, Created
  <2>3. RoundCreated' /\ PositionKnown'
    BY <1>1, <2>1 DEF RoundCreated, PositionKnown
  <2> QED
    BY <1>4, <2>2, <2>3 DEF IdsApart
<1>6. DoneKnown' /\ ProcessesKnown' /\ TcpKnown'
  BY <1>1 DEF IndInv, DoneKnown, ProcessesKnown, TcpKnown, Begun
<1>7. FilesKnown' /\ RoundsOver'
  BY <1>1 DEF FilesKnown, RoundsOver, Absent
<1>8. ErrorsKnown' /\ ValidKnown' /\ SuccessIsEarned'
  BY <1>1 DEF IndInv, ErrorsKnown, ValidKnown, SuccessIsEarned
<1> QED
  BY <1>2, <1>3, <1>5, <1>6, <1>7, <1>8 DEF IndInv

\* The list with one more client at its end.
LEMMA AppendIs ==
  ASSUME NEW s \in Seq(Client), NEW c \in Client
  PROVE  /\ Len(s) \in Nat /\ DOMAIN s = 1..Len(s)
         /\ Append(s, c) \in Seq(Client) /\ Len(Append(s, c)) = Len(s) + 1
         /\ DOMAIN Append(s, c) = 1..(Len(s) + 1)
         /\ \A i \in DOMAIN s : Append(s, c)[i] = s[i]
         /\ Append(s, c)[Len(s) + 1] = c
OBVIOUS

LEMMA InitClientIndInv == ASSUME IndInv, InitClient PROVE IndInv'
<1> USE DEF worldVars
<1> DEFINE n0 == next
           c0 == <<combo, fileSize, next>>
<1>1. /\ mainPc = "clients" /\ next <= Clients
      /\ UNCHANGED <<kind, combo, fileSize, serverOk, success, results, leftBehind,
                     req, clientSuccess, clientError, worldVars>>
  BY DEF InitClient
<1>2. CASE mainPc' = "failed" /\ next' = 1 /\ UNCHANGED <<pc, id, clientThreads>>
  <2>1. TypeOK'
    BY <1>1, <1>2 DEF IndInv, TypeOK, StandTypes, ClientTypes, MainPcs
  <2>2. LengthKnown' /\ FutureUntouched' /\ RoundCreated'
    BY <1>1, <1>2 DEF IndInv, LengthKnown, FutureUntouched, RoundCreated, Created, Mine
  <2>3. PositionKnown' /\ IdsApart' /\ DoneKnown' /\ ProcessesKnown' /\ TcpKnown'
    BY <1>1, <1>2 DEF IndInv, PositionKnown, InRound, IdsApart, DoneKnown, ProcessesKnown, TcpKnown,
                      Begun, Created, Mine
  <2>4. FilesKnown' /\ RoundsOver'
    <3>1. \A s, n, k, text : Writer(Mine(s, n), k, text) => Writer(Mine(s, n), k, text)'
      BY <1>1, <1>2 DEF Writer, Begun, Mine
    <3>2. \A s, n : id'[Mine(s, n)'] = id[Mine(s, n)]
      BY <1>1, <1>2 DEF Mine
    <3> QED
      BY <1>1, <1>2, <3>1, <3>2 DEF IndInv, FilesKnown, RoundsOver, Over, Mine
  <2>5. ErrorsKnown' /\ ValidKnown' /\ SuccessIsEarned'
    BY <1>1, <1>2 DEF IndInv, ErrorsKnown, ValidKnown, SuccessIsEarned
  <2> QED
    BY <2>1, <2>2, <2>3, <2>4, <2>5 DEF IndInv
<1>3. CASE /\ pc' = [pc EXCEPT ![c0] = "new"] /\ id' = [id EXCEPT ![c0] = Len(clientThreads)]
           /\ clientThreads' = Append(clientThreads, c0)
           /\ mainPc' = "clients" /\ next' = next + 1
  <2>0. next \in 1..Clients /\ next \in Nat
    BY <1>1, Numbers DEF IndInv, TypeOK, StandTypes
  <2>1. PICK n \in 1..Clients, c \in Client : n = next /\ c = Current(n) /\ c = c0
    <3>1. Current(next) \in Client /\ Current(next) = c0
      BY <2>0, CurrentIs DEF IndInv, TypeOK, Current, Mine
    <3> QED
      BY <2>0, <3>1
  <2>2. ~Created(c) /\ c[1] = combo /\ c[2] = fileSize
    <3>1. n >= next
      BY <2>0, <2>1
    <3> QED
      BY <1>1, <2>1, <3>1, CurrentIs DEF IndInv, TypeOK, FutureUntouched
  <2>3. /\ pc \in [Client -> {"none", "new", "request", "wait", "done"}] /\ id \in [Client -> Ids]
        /\ clientThreads \in Seq(Client) /\ combo \in 1..Combos /\ next \in Nat \ {0}
        /\ fileSize \in 1..Sizes
    BY DEF IndInv, TypeOK, StandTypes, ClientTypes
  <2>4. /\ pc'[c] = "new" /\ id'[c] = Len(clientThreads)
        /\ \A d \in Client : d # c => pc'[d] = pc[d] /\ id'[d] = id[d]
    BY <1>3, <2>1, <2>3
  <2>5. /\ Len(clientThreads) \in Nat /\ DOMAIN clientThreads = 1..Len(clientThreads)
        /\ Len(clientThreads') = Len(clientThreads) + 1
        /\ DOMAIN clientThreads' = DOMAIN clientThreads \cup {Len(clientThreads) + 1}
        /\ \A i \in DOMAIN clientThreads : clientThreads'[i] = clientThreads[i]
        /\ clientThreads'[Len(clientThreads) + 1] = c
        /\ clientThreads' \in Seq(Client)
    <3>1. clientThreads' = Append(clientThreads, c) /\ clientThreads \in Seq(Client)
      BY <1>3, <2>1, <2>3
    <3>2. /\ Len(clientThreads) \in Nat /\ DOMAIN clientThreads = 1..Len(clientThreads)
          /\ clientThreads' \in Seq(Client) /\ Len(clientThreads') = Len(clientThreads) + 1
          /\ DOMAIN clientThreads' = 1..(Len(clientThreads) + 1)
          /\ \A i \in DOMAIN clientThreads : clientThreads'[i] = clientThreads[i]
          /\ clientThreads'[Len(clientThreads) + 1] = c
      BY <3>1, AppendIs
    <3>3. 1..(Len(clientThreads) + 1) = 1..Len(clientThreads) \cup {Len(clientThreads) + 1}
      BY <3>2
    <3> QED
      BY <3>2, <3>3
  <2>6. /\ Clients * (combo - 1) \in Nat /\ Clients * combo = Clients * (combo - 1) + Clients
        /\ Clients * combo <= Clients * Combos
    BY <2>3, Capacity
  <2>7. Len(clientThreads) <= Clients * (combo - 1) + next - 1
    BY <1>1 DEF IndInv, LengthKnown
  <2>8. Len(clientThreads) \in Ids
    <3>1. Len(clientThreads) <= Clients * Combos - 1
      BY <1>1, <2>3, <2>5, <2>6, <2>7, Numbers
    <3> QED
      BY <2>5, <3>1, Numbers DEF Ids
  <2>9. TypeOK'
    <3>1. StandTypes'
      BY <1>1, <1>3, <2>3, <2>5 DEF IndInv, TypeOK, StandTypes, MainPcs
    <3>2. pc' \in [Client -> {"none", "new", "request", "wait", "done"}] /\ id' \in [Client -> Ids]
      BY <1>3, <2>3, <2>8
    <3> QED
      BY <1>1, <3>1, <3>2 DEF IndInv, TypeOK, ClientTypes
  <2>10. LengthKnown'
    BY <1>1, <1>3, <2>3, <2>5, <2>6, <2>7, Numbers DEF LengthKnown
  <2>11. \A d \in Client : d # c => (Created(d)' <=> Created(d))
    BY <2>4 DEF Created
  <2>12. /\ \A s \in 1..Sizes, m \in 1..Clients : Mine(s, m)' = Mine(s, m) /\ Mine(s, m) \in Client
         /\ \A m \in 1..Clients : Current(m)' = Current(m) /\ Current(m) \in Client
         /\ \A m \in 1..Clients : Current(m) = c <=> m = n
         /\ \A s \in 1..Sizes, m \in 1..Clients : Mine(s, m) = c <=> s = fileSize /\ m = n
    BY <1>1, <2>1, <2>3, MineIs DEF Current, Mine
  <2>13. FutureUntouched'
    <3>1. (\A d \in Client : d[1] > combo \/ (mainPc = "runTest" /\ d[1] = combo) => ~Created(d))'
      <4>1. combo \in Nat
        BY <2>3
      <4> QED
        BY <1>1, <1>3, <2>2, <2>11, <4>1 DEF IndInv, FutureUntouched
    <3>2. (\A s \in 1..Sizes, m \in 1..Clients : s > fileSize => ~Created(Mine(s, m)))'
      <4>1. fileSize \in Nat
        BY <2>3
      <4> SUFFICES ASSUME NEW s \in 1..Sizes, NEW m \in 1..Clients, s > fileSize
                   PROVE  ~Created(Mine(s, m))'
        BY <1>1
      <4>2. Mine(s, m) # c /\ ~Created(Mine(s, m))
        BY <1>1, <2>12, <4>1 DEF IndInv, FutureUntouched
      <4> QED
        BY <1>1, <2>4, <2>12, <4>2 DEF Created
    <3>3. (\A m \in 1..Clients : m >= next => ~Created(Current(m)))'
      <4> SUFFICES ASSUME NEW m \in 1..Clients, m >= next'
                   PROVE  ~Created(Current(m))'
        OBVIOUS
      <4>1. m >= next /\ m # n
        BY <1>3, <2>1, <2>3
      <4> QED
        BY <1>1, <2>4, <2>12, <4>1 DEF IndInv, FutureUntouched, Created
    <3> QED
      BY <3>1, <3>2, <3>3 DEF FutureUntouched
  <2>14. RoundCreated'
    <3> SUFFICES ASSUME NEW m \in 1..Clients, m < next' PROVE Created(Current(m))'
      BY <1>3 DEF RoundCreated
    <3>1. CASE m = n
      BY <2>1, <2>4, <2>12, <3>1 DEF Created
    <3>2. CASE m # n
      <4>1. m < next
        BY <1>3, <2>1, <2>3, <3>2
      <4> QED
        BY <1>1, <2>4, <2>12, <3>2, <4>1 DEF IndInv, RoundCreated, Created
    <3> QED
      BY <3>1, <3>2
  <2>15. PositionKnown'
    <3> SUFFICES ASSUME NEW m \in 1..Clients, Created(Current(m))'
                 PROVE  /\ id'[Current(m)] + 1 \in DOMAIN clientThreads'
                        /\ clientThreads'[id'[Current(m)] + 1] = Current(m)
      BY <2>12 DEF PositionKnown
    <3>1. CASE m = n
      BY <2>1, <2>4, <2>5, <3>1
    <3>2. CASE m # n
      <4>1. Created(Current(m)) /\ id'[Current(m)] = id[Current(m)]
        BY <2>4, <2>12, <3>2 DEF Created
      <4> QED
        BY <1>1, <2>5, <4>1 DEF IndInv, PositionKnown, InRound
    <3> QED
      BY <3>1, <3>2
  <2>16. IdsApart'
    <3>1. ASSUME NEW m \in 1..Clients, m # n, Created(Current(m)) PROVE id[Current(m)] # Len(clientThreads)
      <4>1. id[Current(m)] + 1 \in 1..Len(clientThreads)
        BY <1>1, <2>5, <3>1 DEF IndInv, PositionKnown, InRound
      <4>2. id[Current(m)] \in Nat
        BY <2>3, <2>12, Numbers
      <4> QED
        BY <2>5, <4>1, <4>2
    <3> SUFFICES ASSUME NEW s \in 1..Sizes, NEW m \in 1..Clients, NEW l \in 1..Clients,
                        Created(Mine(s, m))', Created(Mine(s, l))', m # l,
                        id'[Mine(s, m)] = id'[Mine(s, l)]
                 PROVE  FALSE
      BY <2>12 DEF IdsApart
    <3>2. CASE s = fileSize /\ m = n
      <4>1. Mine(s, l) = Current(l) /\ l # n /\ Mine(s, l) # c /\ Mine(s, m) = c
        BY <2>12, <3>2 DEF Current
      <4> QED
        BY <2>4, <2>12, <3>1, <4>1 DEF Created
    <3>3. CASE s = fileSize /\ l = n
      <4>1. Mine(s, m) = Current(m) /\ m # n /\ Mine(s, m) # c /\ Mine(s, l) = c
        BY <2>12, <3>3 DEF Current
      <4> QED
        BY <2>4, <2>12, <3>1, <4>1 DEF Created
    <3>4. CASE ~(s = fileSize /\ m = n) /\ ~(s = fileSize /\ l = n)
      <4>1. Mine(s, m) # c /\ Mine(s, l) # c
        BY <2>12, <3>4
      <4> QED
        BY <2>4, <2>12, <4>1 DEF IndInv, IdsApart, Created
    <3> QED
      BY <3>2, <3>3, <3>4
  <2>17. \A d \in Client : \A k : Begun(d, k) => d # c /\ Begun(d, k)'
    BY <1>1, <2>2, <2>4 DEF Begun, Created
  <2>18. DoneKnown' /\ ProcessesKnown' /\ TcpKnown'
    <3>1. DoneKnown'
      <4>1. \A d \in clientSuccess : d \in Client /\ d # c
        BY <2>2 DEF IndInv, TypeOK, ClientTypes, DoneKnown, Created
      <4> QED
        BY <1>1, <2>4, <4>1 DEF IndInv, DoneKnown
    <3>2. ProcessesKnown'
      <4>1. \A p \in processes : p.client \in Client
        BY DEF IndInv, TypeOK, ClientTypes, Process
      <4> QED
        BY <1>1, <2>4, <2>17, <4>1 DEF IndInv, ProcessesKnown
    <3>3. TcpKnown'
      BY <1>1 DEF IndInv, TcpKnown
    <3> QED
      BY <3>1, <3>2, <3>3
  <2>19. FilesKnown'
    <3> SUFFICES ASSUME NEW s \in 1..Sizes, NEW i \in Ids, NEW k \in Requests, files[<<s, i, k>>] # "absent"
                 PROVE  \E m \in 1..Clients :
                          id'[Mine(s, m)] = i /\ Writer(Mine(s, m), k, files[<<s, i, k>>])'
      BY <1>1, <2>12 DEF FilesKnown
    <3>1. PICK m \in 1..Clients : id[Mine(s, m)] = i /\ Writer(Mine(s, m), k, files[<<s, i, k>>])
      BY <1>1 DEF IndInv, FilesKnown
    <3>2. Mine(s, m) # c /\ Begun(Mine(s, m), k)'
      BY <2>12, <2>17, <3>1 DEF Writer
    <3> QED
      BY <1>1, <2>4, <2>12, <3>1, <3>2 DEF Writer
  <2>20. RoundsOver'
    <3> SUFFICES ASSUME kind = "quic", NEW s \in 1..Sizes, NEW m \in 1..Clients, s < fileSize
                 PROVE  Over(Mine(s, m))'
      BY <1>1 DEF RoundsOver
    <3>1. Mine(s, m) # c
      BY <2>3, <2>12
    <3> QED
      BY <1>1, <2>4, <2>12, <3>1 DEF IndInv, RoundsOver, Over
  <2>21. ErrorsKnown' /\ ValidKnown' /\ SuccessIsEarned'
    BY <1>1, <1>3 DEF IndInv, ErrorsKnown, ValidKnown, SuccessIsEarned
  <2> QED
    BY <2>9, <2>10, <2>13, <2>14, <2>15, <2>16, <2>18, <2>19, <2>20, <2>21 DEF IndInv
<1> QED
  BY <1>2, <1>3 DEF InitClient, Goto

LEMMA StartClientsIndInv == ASSUME IndInv, StartClients PROVE IndInv'
<1> USE DEF worldVars
<1>1. /\ mainPc = "clients" /\ next > Clients /\ mainPc' \in {"join", "failed"} /\ next' = 1
      /\ UNCHANGED <<kind, combo, clientThreads, fileSize, serverOk, success, results, leftBehind,
                     req, clientSuccess, clientError, id, worldVars>>
  BY DEF StartClients, Goto
<1>2. /\ pc \in [Client -> {"none", "new", "request", "wait", "done"}]
      /\ combo \in 1..Combos /\ next \in Nat /\ fileSize \in 1..Sizes
  BY DEF IndInv, TypeOK, StandTypes, ClientTypes
<1>3. /\ pc' \in [Client -> {"none", "new", "request", "wait", "done"}]
      /\ \A d \in Client : pc'[d] = pc[d] \/ (pc[d] = "new" /\ pc'[d] = "request")
  <2> DEFINE old == {i \in DOMAIN clientThreads : pc[clientThreads[i]] # "new"}
             started == {clientThreads[i] : i \in {j \in DOMAIN clientThreads : \A i \in old : j < i}}
  <2>1. pc' = [d \in Client |-> IF d \in started THEN "request" ELSE pc[d]]
    BY DEF StartClients
  <2>2. \A d \in started : pc[d] = "new"
    <3> SUFFICES ASSUME NEW j \in DOMAIN clientThreads, \A i \in old : j < i
                 PROVE  pc[clientThreads[j]] = "new"
      OBVIOUS
    <3>1. j \in Nat
      BY InTheList DEF IndInv, TypeOK
    <3> QED
      BY <3>1
  <2> HIDE DEF started
  <2> QED
    BY <1>2, <2>1, <2>2
<1>4. /\ \A d \in Client : Created(d)' <=> Created(d)
      /\ \A d \in Client : \A k : Begun(d, k) => Begun(d, k)'
      /\ \A d \in Client : Over(d) => Over(d)'
  BY <1>1, <1>3 DEF Created, Begun, Over
<1>5. /\ \A s \in 1..Sizes, m \in 1..Clients : Mine(s, m)' = Mine(s, m) /\ Mine(s, m) \in Client
      /\ \A m \in 1..Clients : Current(m)' = Current(m) /\ Current(m) \in Client
  BY <1>1, <1>2, MineIs DEF Current, Mine
<1>6. TypeOK'
  <2>1. StandTypes'
    BY <1>1 DEF IndInv, TypeOK, StandTypes, MainPcs
  <2> QED
    BY <1>1, <1>3, <2>1 DEF IndInv, TypeOK, ClientTypes
<1>7. LengthKnown'
  BY <1>1 DEF IndInv, LengthKnown
<1>8. FutureUntouched'
  BY <1>1, <1>4, <1>5 DEF IndInv, FutureUntouched
<1>9. RoundCreated'
  <2>1. \A m \in 1..Clients : m < next
    BY <1>1, <1>2, Numbers
  <2> QED
    BY <1>1, <1>4, <1>5, <2>1 DEF IndInv, RoundCreated
<1>10. PositionKnown' /\ IdsApart'
  BY <1>1, <1>4, <1>5 DEF IndInv, PositionKnown, IdsApart, InRound
<1>11. DoneKnown' /\ TcpKnown'
  BY <1>1, <1>3 DEF IndInv, TypeOK, ClientTypes, DoneKnown, TcpKnown
<1>12. ProcessesKnown'
  <2>1. \A p \in processes : p.client \in Client
    BY DEF IndInv, TypeOK, ClientTypes, Process
  <2> QED
    BY <1>1, <1>4, <2>1 DEF IndInv, ProcessesKnown
<1>13. FilesKnown'
  <2> SUFFICES ASSUME NEW s \in 1..Sizes, NEW i \in Ids, NEW k \in Requests, files[<<s, i, k>>] # "absent"
               PROVE  \E m \in 1..Clients :
                        id[Mine(s, m)] = i /\ Writer(Mine(s, m), k, files[<<s, i, k>>])'
    BY <1>1, <1>5 DEF FilesKnown
  <2>1. PICK m \in 1..Clients : id[Mine(s, m)] = i /\ Writer(Mine(s, m), k, files[<<s, i, k>>])
    BY <1>1 DEF IndInv, FilesKnown
  <2> QED
    BY <1>1, <1>4, <1>5, <2>1 DEF Writer
<1>14. RoundsOver'
  BY <1>1, <1>4, <1>5 DEF IndInv, RoundsOver
<1>15. ErrorsKnown' /\ ValidKnown' /\ SuccessIsEarned'
  BY <1>1 DEF IndInv, ErrorsKnown, ValidKnown, SuccessIsEarned
<1> QED
  BY <1>6, <1>7, <1>8, <1>9, <1>10, <1>11, <1>12, <1>13, <1>14, <1>15 DEF IndInv

LEMMA JoinIndInv == ASSUME IndInv, Join PROVE IndInv'
<1>1. /\ mainPc = "join" /\ mainPc' = "join" /\ next' = next + 1
      /\ UNCHANGED <<kind, combo, clientThreads, fileSize, serverOk, success, results,
                     threadVars, id, worldVars>>
  BY DEF Join, Goto
<1>2. StandTypes'
  BY <1>1 DEF IndInv, TypeOK, StandTypes
<1>3. ErrorsKnown' /\ ValidKnown' /\ SuccessIsEarned'
  BY <1>1 DEF IndInv, ErrorsKnown, ValidKnown, SuccessIsEarned, threadVars, worldVars
<1> QED
  BY <1>1, <1>2, <1>3, StandFrame DEF IndInv, TypeOK, MainPcs

LEMMA FlagsIndInv == ASSUME IndInv, Flags PROVE IndInv'
<1>1. /\ mainPc = "join" /\ next' = 1
      /\ success' = (serverOk /\ Range(clientThreads) \subseteq clientSuccess)
      /\ mainPc' = IF success' THEN "validate" ELSE "errors"
      /\ UNCHANGED <<kind, combo, clientThreads, fileSize, serverOk, results,
                     threadVars, id, worldVars>>
  BY DEF Flags, Goto
<1>2. StandTypes' /\ success' \in BOOLEAN
  BY <1>1 DEF IndInv, TypeOK, StandTypes, MainPcs
<1>3. /\ \A i \in DOMAIN clientThreads : ~(i < next')
      /\ \A n \in 1..Clients : ~(id[Current(n)] + 1 < next')
  <2>1. \A i \in DOMAIN clientThreads : ~(i < next')
    BY <1>1, InTheList DEF IndInv, TypeOK
  <2>2. \A n \in 1..Clients : ~(id[Current(n)] + 1 < next')
    BY <1>1, IdIsNat DEF IndInv
  <2> QED
    BY <2>1, <2>2
<1>4. ErrorsKnown'
  BY <1>1, <1>2, <1>3 DEF ErrorsKnown
<1>5. ValidKnown'
  BY <1>1, <1>3 DEF ValidKnown, threadVars, Current, Mine
<1>6. SuccessIsEarned'
  BY <1>1 DEF IndInv, SuccessIsEarned, threadVars, worldVars
<1> QED
  BY <1>1, <1>2, <1>4, <1>5, <1>6, StandFrame DEF IndInv, TypeOK, MainPcs

LEMMA ValidateIndInv == ASSUME IndInv, Validate PROVE IndInv'
<1> USE DEF threadVars, worldVars
<1>1. /\ mainPc = "validate" /\ next <= Len(clientThreads)
      /\ UNCHANGED <<kind, combo, clientThreads, fileSize, serverOk, results,
                     threadVars, id, worldVars>>
  BY DEF Validate
<1>2. /\ next \in 1..Len(clientThreads) /\ next \in Nat /\ success \in BOOLEAN
      /\ \A n \in 1..Clients : id[Current(n)] \in Nat
  <2>1. next \in 1..Len(clientThreads) /\ next \in Nat /\ success \in BOOLEAN
    BY <1>1, InTheList DEF IndInv, TypeOK, StandTypes
  <2> QED
    BY <2>1, IdIsNat DEF IndInv
<1>3. SuccessIsEarned'
  BY <1>1 DEF IndInv, SuccessIsEarned
<1>4. CASE mainPc' = "failed" /\ next' = 1 /\ UNCHANGED success
  <2>1. StandTypes' /\ ErrorsKnown' /\ ValidKnown'
    BY <1>1, <1>4 DEF IndInv, TypeOK, StandTypes, MainPcs, ErrorsKnown, ValidKnown
  <2> QED
    BY <1>1, <1>3, <1>4, <2>1, StandFrame DEF IndInv, TypeOK, MainPcs
<1>5. CASE success' \in BOOLEAN /\ ~success' /\ mainPc' = "errors" /\ next' = 1
  <2>1. StandTypes' /\ ValidKnown'
    BY <1>1, <1>5 DEF IndInv, TypeOK, StandTypes, MainPcs, ValidKnown
  <2>2. \A i \in DOMAIN clientThreads : ~(i < next')
    BY <1>5, InTheList DEF IndInv, TypeOK
  <2>3. ErrorsKnown'
    BY <1>1, <1>5, <2>2 DEF ErrorsKnown
  <2> QED
    BY <1>1, <1>3, <1>5, <2>1, <2>3, StandFrame DEF IndInv, TypeOK, MainPcs
<1>6. CASE /\ success' \in BOOLEAN /\ success' /\ ValidateResponse(Now)
           /\ mainPc' = "validate" /\ next' = next + 1
  <2>1. StandTypes' /\ ErrorsKnown'
    BY <1>1, <1>2, <1>6 DEF IndInv, TypeOK, StandTypes, MainPcs, ErrorsKnown
  <2>2. ASSUME NEW n \in 1..Clients, id[Current(n)] + 1 < next + 1 PROVE Earned(Current(n))
    <3>1. CASE id[Current(n)] + 1 < next
      BY <1>1, <3>1 DEF IndInv, ValidKnown
    <3>2. CASE id[Current(n)] + 1 = next
      <4>1. Now = Current(n)
        BY <1>1, <3>2 DEF IndInv, PositionKnown, RoundCreated, InRound, Now
      <4> QED
        BY <1>1, <1>6, <4>1, ValidateEarned
    <3> QED
      BY <1>2, <2>2, <3>1, <3>2
  <2>3. ValidKnown'
    BY <1>1, <1>6, <2>2 DEF IndInv, ValidKnown, Earned, Current, Mine
  <2> QED
    BY <1>1, <1>3, <1>6, <2>1, <2>3, StandFrame DEF IndInv, TypeOK, MainPcs
<1>7. ValidateResponse(Now) \in BOOLEAN
  BY DEF ValidateResponse
<1> QED
  BY <1>4, <1>5, <1>6, <1>7 DEF Validate, Goto

LEMMA GetErrorIndInv == ASSUME IndInv, GetError PROVE IndInv'
<1> USE DEF threadVars, worldVars
<1>1. /\ mainPc = "errors" /\ next <= Len(clientThreads)
      /\ UNCHANGED <<kind, combo, clientThreads, fileSize, serverOk, success, results,
                     threadVars, id, worldVars>>
  BY DEF GetError
<1>2. next \in Nat \ {0}
  BY DEF IndInv, TypeOK, StandTypes
<1>3. SuccessIsEarned'
  BY <1>1 DEF IndInv, SuccessIsEarned
<1>4. CASE mainPc' = "failed" /\ next' = 1
  <2>1. StandTypes' /\ ErrorsKnown' /\ ValidKnown'
    BY <1>1, <1>4 DEF IndInv, TypeOK, StandTypes, MainPcs, ErrorsKnown, ValidKnown
  <2> QED
    BY <1>1, <1>3, <1>4, <2>1, StandFrame DEF IndInv, TypeOK, MainPcs
<1>5. CASE ~Unreadable(Now) /\ mainPc' = "errors" /\ next' = next + 1
  <2>1. StandTypes' /\ ValidKnown'
    BY <1>1, <1>2, <1>5 DEF IndInv, TypeOK, StandTypes, MainPcs, ValidKnown
  <2>2. ASSUME kind # "tcp", NEW i \in DOMAIN clientThreads, i < next + 1,
               NEW f \in FilesOf(clientThreads[i])
        PROVE  files[f] # "absent"
    <3>1. CASE i < next
      BY <1>1, <2>2, <3>1 DEF IndInv, ErrorsKnown
    <3>2. CASE i = next
      BY <1>5, <2>2, <3>2 DEF Unreadable, Now
    <3>3. i \in Nat
      BY InTheList DEF IndInv, TypeOK
    <3> QED
      BY <1>2, <2>2, <3>1, <3>2, <3>3
  <2>3. \A c : FilesOf(c)' = FilesOf(c)
    BY <1>1 DEF FilesOf
  <2>4. ErrorsKnown'
    BY <1>1, <1>5, <2>2, <2>3 DEF IndInv, ErrorsKnown
  <2> QED
    BY <1>1, <1>3, <1>5, <2>1, <2>4, StandFrame DEF IndInv, TypeOK, MainPcs
<1> QED
  BY <1>4, <1>5 DEF GetError, Goto

LEMMA FailedIndInv == ASSUME IndInv, Failed PROVE IndInv'
<1>1. /\ mainPc = "failed" /\ mainPc' = "clear" /\ next' = 1
      /\ results' = [s \in 1..Sizes |-> "failure"]
      /\ UNCHANGED <<kind, combo, clientThreads, fileSize, serverOk, success, threadVars, id, worldVars>>
  BY DEF Failed, Goto
<1>2. StandTypes' /\ ErrorsKnown' /\ ValidKnown'
  BY <1>1 DEF IndInv, TypeOK, StandTypes, MainPcs, ErrorsKnown, ValidKnown
<1>3. SuccessIsEarned'
  <2>1. \A c \in {combo} \X (1..Sizes) \X (1..Clients) : c[2] \in 1..Sizes
    OBVIOUS
  <2> QED
    BY <1>1, <2>1 DEF SuccessIsEarned
<1> QED
  BY <1>1, <1>2, <1>3, StandFrame DEF IndInv, TypeOK, MainPcs

LEMMA ClearLastIndInv == ASSUME IndInv, ClearLast PROVE IndInv'
<1>1. /\ mainPc = "clear" /\ mainPc' = "done" /\ next' = 1
      /\ UNCHANGED <<kind, combo, clientThreads, fileSize, serverOk, success, results, threadVars, id, worldVars>>
  BY DEF ClearLast, Goto
<1>2. StandTypes' /\ ErrorsKnown' /\ ValidKnown' /\ SuccessIsEarned'
  BY <1>1 DEF IndInv, TypeOK, StandTypes, MainPcs, ErrorsKnown, ValidKnown, SuccessIsEarned,
              threadVars, worldVars
<1> QED
  BY <1>1, <1>2, StandFrame DEF IndInv, TypeOK, MainPcs

LEMMA ResultIndInv == ASSUME IndInv, Result PROVE IndInv'
<1> USE DEF threadVars
<1>1. /\ mainPc \in {"validate", "errors"} /\ next > Len(clientThreads) /\ next' = 1
      /\ results' = [results EXCEPT ![fileSize] = IF success THEN "success" ELSE "failure"]
      /\ processes' \subseteq processes /\ clientThreads' = << >>
      /\ UNCHANGED <<kind, combo, serverOk, success, threadVars, id, response, broken, files, answered>>
      /\ \/ fileSize < Sizes /\ fileSize' = fileSize + 1 /\ mainPc' = "clients"
         \/ fileSize' = fileSize /\ mainPc' = "clear"
  BY DEF Result, NextRound, Goto
<1>2. /\ combo \in 1..Combos /\ next \in Nat /\ fileSize \in 1..Sizes /\ fileSize \in Nat
      /\ success \in BOOLEAN /\ fileSize' \in 1..Sizes /\ fileSize' >= fileSize
  BY <1>1, Numbers DEF IndInv, TypeOK, StandTypes
<1>3. \A s \in 1..Sizes, m \in 1..Clients : Mine(s, m)' = Mine(s, m) /\ Mine(s, m) \in Client
  BY <1>1, <1>2, MineIs DEF Mine
<1>4. TypeOK'
  <2>1. StandTypes'
    <3>1. results' \in [1..Sizes -> {"none", "success", "failure"}] /\ clientThreads' \in Seq(Client)
      BY <1>1 DEF IndInv, TypeOK, StandTypes
    <3> QED
      BY <1>1, <1>2, <3>1 DEF IndInv, TypeOK, StandTypes, MainPcs
  <2> QED
    BY <1>1, <2>1 DEF IndInv, TypeOK, ClientTypes
<1>5. LengthKnown'
  <2>1. Len(clientThreads') = 0 /\ Clients * (combo - 1) \in Nat /\ Clients * combo \in Nat
    BY <1>1, <1>2, Capacity, Numbers
  <2> QED
    BY <1>1, <2>1, Numbers DEF LengthKnown
<1>6. /\ \A s \in 1..Sizes, m \in 1..Clients : s > fileSize' => ~Created(Mine(s, m))'
      /\ mainPc' = "clients" => \A m \in 1..Clients : ~Created(Current(m))'
  <2>1. \A s \in 1..Sizes, m \in 1..Clients : s > fileSize => ~Created(Mine(s, m))'
    BY <1>1, <1>3 DEF IndInv, FutureUntouched, Created
  <2>2. \A s \in 1..Sizes : s > fileSize' => s > fileSize
    BY <1>2
  <2>3. mainPc' = "clients" => fileSize' > fileSize
    BY <1>1, <1>2
  <2> QED
    BY <1>2, <2>1, <2>2, <2>3 DEF Current
<1>7. FutureUntouched' /\ RoundCreated' /\ PositionKnown' /\ IdsApart'
  <2>1. FutureUntouched'
    BY <1>1, <1>6 DEF IndInv, FutureUntouched, Created
  <2>2. RoundCreated' /\ PositionKnown'
    BY <1>1, <1>6 DEF RoundCreated, PositionKnown, InRound
  <2>3. IdsApart'
    BY <1>1, <1>3 DEF IndInv, IdsApart, Created
  <2> QED
    BY <2>1, <2>2, <2>3
<1>8. DoneKnown' /\ ProcessesKnown' /\ TcpKnown'
  BY <1>1 DEF IndInv, DoneKnown, ProcessesKnown, TcpKnown, Begun
<1>9. FilesKnown'
  <2> SUFFICES ASSUME NEW s \in 1..Sizes, NEW i \in Ids, NEW k \in Requests, files[<<s, i, k>>] # "absent"
               PROVE  \E m \in 1..Clients :
                        id[Mine(s, m)] = i /\ Writer(Mine(s, m), k, files[<<s, i, k>>])'
    BY <1>1, <1>3 DEF FilesKnown
  <2>1. PICK m \in 1..Clients : id[Mine(s, m)] = i /\ Writer(Mine(s, m), k, files[<<s, i, k>>])
    BY <1>1 DEF IndInv, FilesKnown
  <2> QED
    BY <1>1, <1>3, <2>1 DEF Writer, Begun
<1>10. RoundsOver'
  <2> SUFFICES ASSUME kind = "quic", NEW s \in 1..Sizes, NEW m \in 1..Clients, s < fileSize'
               PROVE  Over(Mine(s, m))
    BY <1>1, <1>3 DEF RoundsOver, Over
  <2>1. CASE s < fileSize
    BY <1>1, <2>1 DEF IndInv, RoundsOver
  <2>2. CASE s = fileSize
    BY <1>1, <2>2, RoundOver DEF Current
  <2> QED
    BY <1>1, <1>2, <2>1, <2>2
<1>11. ErrorsKnown' /\ ValidKnown'
  BY <1>1 DEF ErrorsKnown, ValidKnown
<1>12. SuccessIsEarned'
  <2> SUFFICES ASSUME NEW s \in 1..Sizes, NEW m \in 1..Clients, results'[s] = "success"
               PROVE  Earned(Mine(s, m))
    BY <1>1, <1>2 DEF SuccessIsEarned, Earned, Mine
  <2>1. CASE results[s] = "success"
    BY <1>2, <2>1 DEF IndInv, SuccessIsEarned, Earned, Mine
  <2>2. CASE s = fileSize /\ success
    <3>1. mainPc = "validate"
      BY <1>1, <2>2 DEF IndInv, ErrorsKnown
    <3>2. id[Current(m)] + 1 \in 1..Len(clientThreads) /\ id[Current(m)] \in Nat /\ Len(clientThreads) \in Nat
      BY <3>1, InTheList, CurrentIs, Numbers
         DEF IndInv, TypeOK, ClientTypes, RoundCreated, PositionKnown, InRound
    <3>3. id[Current(m)] + 1 < next
      BY <1>1, <1>2, <3>2
    <3> QED
      BY <2>2, <3>1, <3>3 DEF IndInv, ValidKnown, Current
  <2>3. results[s] = "success" \/ (s = fileSize /\ success)
    <3>1. results \in [1..Sizes -> {"none", "success", "failure"}]
      BY DEF IndInv, TypeOK, StandTypes
    <3> QED
      BY <1>1, <1>2, <3>1
  <2> QED
    BY <2>1, <2>2, <2>3
<1> QED
  BY <1>4, <1>5, <1>7, <1>8, <1>9, <1>10, <1>11, <1>12 DEF IndInv

LEMMA ClearIndInv == ASSUME IndInv, Clear PROVE IndInv'
<1> DEFINE kept == Range(clientThreads)
<1>1. /\ mainPc = "clear" /\ combo < Combos /\ combo' = combo + 1 /\ mainPc' = "runTest" /\ next' = 1
      /\ pc' = Kept(pc, "none") /\ req' = Kept(req, 1) /\ id' = Kept(id, 0)
      /\ response' = Kept(response, "null") /\ answered' = Kept(answered, {})
      /\ clientSuccess' = clientSuccess \cap kept /\ clientError' = clientError \cap kept
      /\ processes' = {} /\ results' = [s \in 1..Sizes |-> "none"]
      /\ UNCHANGED <<kind, clientThreads, fileSize, serverOk, success, files>>
  BY DEF Clear, Goto
<1>2. combo \in 1..Combos /\ combo \in Nat /\ combo' \in 1..Combos
  BY <1>1, Numbers DEF IndInv, TypeOK, StandTypes
<1>3. \A d \in Client :
        /\ d \in kept => /\ pc'[d] = pc[d] /\ req'[d] = req[d]
                         /\ response'[d] = response[d] /\ answered'[d] = answered[d]
        /\ d \notin kept => /\ pc'[d] = "none" /\ req'[d] = 1
                            /\ response'[d] = "null" /\ answered'[d] = {}
  BY <1>1 DEF Kept
<1>4. TypeOK'
  <2>1. StandTypes'
    <3>1. results' \in [1..Sizes -> {"none", "success", "failure"}]
      BY <1>1
    <3> QED
      BY <1>1, <1>2, <3>1 DEF IndInv, TypeOK, StandTypes, MainPcs
  <2>2. /\ pc' \in [Client -> {"none", "new", "request", "wait", "done"}]
        /\ req' \in [Client -> Requests] /\ id' \in [Client -> Ids]
        /\ response' \in [Client -> {"null", "part", "whole"}]
        /\ answered' \in [Client -> SUBSET Requests]
    BY <1>1, Numbers DEF IndInv, TypeOK, ClientTypes, Kept
  <2> QED
    BY <1>1, <2>1, <2>2 DEF IndInv, TypeOK, ClientTypes
<1>5. LengthKnown'
  <2>1. /\ Len(clientThreads) \in Nat /\ Clients * combo \in Nat /\ Len(clientThreads) <= Clients * combo
        /\ Clients * (combo' - 1) = Clients * combo /\ Clients * combo' >= Clients * combo
        /\ Clients * combo' \in Nat
    <3>1. /\ Clients * (combo' - 1) = Clients * combo /\ Clients * combo' >= Clients * combo
          /\ Clients * combo \in Nat /\ Clients * combo' \in Nat
      BY <1>1, <1>2, Capacity, Numbers
    <3> QED
      BY <3>1, InTheList DEF IndInv, TypeOK, LengthKnown
  <2> QED
    BY <1>1, <2>1 DEF LengthKnown
<1>6. \A d \in Client : d[1] >= combo' => ~Created(d)'
  <2> SUFFICES ASSUME NEW d \in Client, d[1] >= combo' PROVE ~Created(d)'
    OBVIOUS
  <2>1. d[1] > combo
    <3>1. d[1] \in Nat
      BY <1>2, MineIs
    <3> QED
      BY <1>1, <1>2, <3>1
  <2> QED
    BY <1>3, <2>1 DEF IndInv, FutureUntouched, Created
<1>7. FutureUntouched' /\ RoundCreated' /\ PositionKnown' /\ IdsApart'
  <2>1. FutureUntouched'
    <3>1. \A d \in Client : d[1] \in Nat
      BY <1>2, MineIs
    <3> QED
      BY <1>1, <1>2, <1>6, <3>1 DEF FutureUntouched
  <2>2. RoundCreated' /\ PositionKnown'
    BY <1>1 DEF RoundCreated, PositionKnown, InRound
  <2>3. IdsApart'
    <3>1. \A s \in 1..Sizes, m \in 1..Clients : Mine(s, m)' \in Client /\ Mine(s, m)'[1] = combo'
      BY <1>2 DEF Mine, Client
    <3>2. \A s \in 1..Sizes, m \in 1..Clients : ~Created(Mine(s, m))'
      BY <1>1, <1>2, <1>6, <3>1 DEF Created
    <3> QED
      BY <3>2 DEF IdsApart
  <2> QED
    BY <2>1, <2>2, <2>3
<1>8. DoneKnown' /\ ProcessesKnown' /\ FilesKnown' /\ RoundsOver'
  <2>1. \A d \in clientSuccess' : d \in Client /\ d \in kept /\ pc[d] = "done"
    BY <1>1 DEF IndInv, TypeOK, ClientTypes, DoneKnown
  <2>2. DoneKnown'
    BY <1>3, <2>1 DEF DoneKnown
  <2> QED
    BY <1>1, <2>2 DEF ProcessesKnown, FilesKnown, RoundsOver
<1>9. TcpKnown'
  <2> SUFFICES ASSUME kind = "tcp", NEW d \in Client
               PROVE  /\ response'[d] = "whole" => answered'[d] # {}
                      /\ d \notin clientError' => /\ 1..(req'[d] - 1) \subseteq answered'[d]
                                                  /\ d \in clientSuccess' => answered'[d] = Requests
    BY <1>1 DEF TcpKnown
  <2>1. CASE d \in kept
    BY <1>1, <1>3, <2>1 DEF IndInv, TcpKnown
  <2>2. CASE d \notin kept
    BY <1>1, <1>3, <2>2
  <2> QED
    BY <2>1, <2>2
<1>10. ErrorsKnown' /\ ValidKnown' /\ SuccessIsEarned'
  <2>1. \A c \in {combo'} \X (1..Sizes) \X (1..Clients) : c[2] \in 1..Sizes
    OBVIOUS
  <2> QED
    BY <1>1, <2>1 DEF ErrorsKnown, ValidKnown, SuccessIsEarned
<1> QED
  BY <1>4, <1>5, <1>7, <1>8, <1>9, <1>10 DEF IndInv

---------------------------------------------------------------------------
(* The clients and their processes. *)

\* How client c may go on in its requests.
Moves(c) ==
  /\ pc' \in [Client -> {"none", "new", "request", "wait", "done"}]
  /\ req' \in [Client -> Requests]
  /\ clientSuccess' \subseteq Client
  /\ \A d \in Client : d # c => pc'[d] = pc[d] /\ req'[d] = req[d]
  /\ \/ pc'[c] = pc[c] /\ req'[c] = req[c]
     \/ pc[c] \in {"request", "wait"} /\ pc'[c] \in {"request", "wait", "done"}
  /\ \A k \in Requests : Begun(c, k) => Begun(c, k)'
  /\ Over(c) => Over(c)'
  /\ clientSuccess \subseteq clientSuccess'
  /\ \A d \in clientSuccess' : d \in clientSuccess \/ (d = c /\ pc'[c] = "done")

\* What every step of a client or of its processes does.
ClientStep(c) ==
  /\ Moves(c)
  /\ UNCHANGED <<kind, mainPc, combo, next, clientThreads, fileSize, serverOk, success, results, id>>
  /\ ClientTypes'
  /\ clientError \subseteq clientError'
  /\ \A d \in Client : answered[d] \subseteq answered'[d]
  /\ \A f \in FileNames : files[f] # "absent" => files'[f] # "absent"

LEMMA Threads ==
  ASSUME IndInv, NEW c \in Client
  PROVE  /\ pc \in [Client -> {"none", "new", "request", "wait", "done"}]
         /\ req \in [Client -> Requests] /\ req[c] \in Requests /\ req[c] \in Nat \ {0}
         /\ clientSuccess \subseteq Client
         /\ Requests \subseteq Nat /\ ReqAmount \in Nat /\ \A k \in Requests : k <= ReqAmount
BY Numbers DEF IndInv, TypeOK, ClientTypes, Requests

LEMMA NextRequestMoves ==
  ASSUME IndInv, NEW c \in Client, pc[c] \in {"request", "wait"}, NextRequest(c)
  PROVE  /\ Moves(c) /\ pc'[c] # "new"
         /\ \/ req[c] < ReqAmount /\ req'[c] = req[c] + 1 /\ pc'[c] = "request" /\ clientSuccess' = clientSuccess
            \/ req[c] = ReqAmount /\ req'[c] = req[c] /\ pc'[c] = "done" /\ clientSuccess' = clientSuccess \cup {c}
<1>1. CASE req[c] < ReqAmount
  <2>1. /\ req' = [req EXCEPT ![c] = req[c] + 1] /\ pc' = [pc EXCEPT ![c] = "request"]
        /\ clientSuccess' = clientSuccess
    BY <1>1 DEF NextRequest
  <2>2. req[c] + 1 \in Requests
    BY <1>1, Threads DEF Requests
  <2>3. /\ pc' \in [Client -> {"none", "new", "request", "wait", "done"}] /\ req' \in [Client -> Requests]
        /\ pc'[c] = "request" /\ req'[c] = req[c] + 1
        /\ \A d \in Client : d # c => pc'[d] = pc[d] /\ req'[d] = req[d]
    BY <2>1, <2>2, Threads
  <2>4. \A k \in Requests : Begun(c, k) => Begun(c, k)'
    <3>1. \A k \in Requests : k < req[c] \/ k = req[c] => k < req[c] + 1
      BY Threads
    <3> QED
      BY <2>3, <3>1 DEF Begun
  <2>5. ~Over(c)
    BY <1>1, Threads DEF Over
  <2> QED
    BY <1>1, <2>1, <2>3, <2>4, <2>5, Threads DEF Moves
<1>2. CASE ~(req[c] < ReqAmount)
  <2>1. /\ req' = req /\ pc' = [pc EXCEPT ![c] = "done"]
        /\ clientSuccess' = clientSuccess \cup {c}
    BY <1>2 DEF NextRequest
  <2>2. req[c] = ReqAmount
    BY <1>2, Threads
  <2>3. /\ pc' \in [Client -> {"none", "new", "request", "wait", "done"}] /\ pc'[c] = "done"
        /\ \A d \in Client : d # c => pc'[d] = pc[d]
    BY <2>1, Threads
  <2>4. \A k \in Requests : Begun(c, k) => Begun(c, k)'
    BY <2>1, <2>3 DEF Begun
  <2>5. Over(c)'
    BY <2>3 DEF Over
  <2>6. clientSuccess' \subseteq Client /\ req' \in [Client -> Requests] /\ clientSuccess \subseteq clientSuccess'
    BY <2>1, Threads
  <2>7. \A d \in clientSuccess' : d \in clientSuccess \/ (d = c /\ pc'[c] = "done")
    BY <2>1, <2>3
  <2> QED
    BY <2>1, <2>2, <2>3, <2>4, <2>5, <2>6, <2>7 DEF Moves
<1> QED
  BY <1>1, <1>2

\* The steps within a request, and those that end the thread.
LEMMA GoesTo ==
  ASSUME IndInv, NEW c \in Client, NEW label \in {"wait", "done"},
         pc[c] = "request" \/ (pc[c] = "wait" /\ label = "done"),
         pc' = [pc EXCEPT ![c] = label], req' = req,
         \/ clientSuccess' = clientSuccess
         \/ clientSuccess' = clientSuccess \cup {c} /\ label = "done"
  PROVE  Moves(c) /\ pc'[c] = label
<1>1. /\ pc' \in [Client -> {"none", "new", "request", "wait", "done"}] /\ pc'[c] = label
      /\ \A d \in Client : d # c => pc'[d] = pc[d]
  BY Threads
<1>2. \A k \in Requests : Begun(c, k) => Begun(c, k)'
  BY <1>1 DEF Begun
<1>3. Over(c) => Over(c)'
  BY <1>1 DEF Over
<1>4. /\ clientSuccess' \subseteq Client /\ clientSuccess \subseteq clientSuccess'
      /\ \A d \in clientSuccess' : d \in clientSuccess \/ (d = c /\ pc'[c] = "done")
  BY <1>1, Threads
<1> QED
  BY <1>1, <1>2, <1>3, <1>4, Threads DEF Moves

\* All conjuncts but those about processes, files and TCP.
LEMMA ClientFrame ==
  ASSUME IndInv, NEW c \in Client, ClientStep(c)
  PROVE  /\ TypeOK' /\ LengthKnown'
         /\ FutureUntouched' /\ RoundCreated' /\ PositionKnown' /\ IdsApart'
         /\ DoneKnown' /\ RoundsOver' /\ ErrorsKnown' /\ ValidKnown' /\ SuccessIsEarned'
         /\ \A d \in Client : \A k \in Requests : Begun(d, k) => Begun(d, k)'
<1>1. UNCHANGED <<kind, mainPc, combo, next, clientThreads, fileSize, serverOk, success, results, id>>
  BY DEF ClientStep
<1>2. TypeOK'
  BY <1>1 DEF ClientStep, IndInv, TypeOK, StandTypes
<1>3. combo \in 1..Combos /\ fileSize \in 1..Sizes
  BY DEF IndInv, TypeOK, StandTypes
<1>4. /\ \A s \in 1..Sizes, m \in 1..Clients : Mine(s, m)' = Mine(s, m) /\ Mine(s, m) \in Client
      /\ \A m \in 1..Clients : Current(m)' = Current(m) /\ Current(m) \in Client
  BY <1>1, <1>3, MineIs DEF Current, Mine
<1>5. /\ \A d \in Client : Created(d)' <=> Created(d)
      /\ \A d \in Client : \A k \in Requests : Begun(d, k) => Begun(d, k)'
      /\ \A d \in Client : Over(d) => Over(d)'
  <2>1. \A d \in Client : d # c => pc'[d] = pc[d] /\ req'[d] = req[d]
    BY DEF ClientStep, Moves
  <2>2. Created(c)' <=> Created(c)
    BY DEF ClientStep, Moves, Created
  <2>3. \A d \in Client : d # c => /\ Created(d)' <=> Created(d)
                                   /\ \A k \in Requests : Begun(d, k) => Begun(d, k)'
                                   /\ Over(d) => Over(d)'
    BY <2>1 DEF Created, Begun, Over
  <2>4. /\ \A k \in Requests : Begun(c, k) => Begun(c, k)'
        /\ Over(c) => Over(c)'
    BY DEF ClientStep, Moves
  <2> QED
    BY <2>2, <2>3, <2>4
<1>6. LengthKnown'
  BY <1>1 DEF IndInv, LengthKnown
<1>7. FutureUntouched' /\ RoundCreated'
  BY <1>1, <1>4, <1>5 DEF IndInv, FutureUntouched, RoundCreated
<1>8. PositionKnown' /\ IdsApart'
  BY <1>1, <1>4, <1>5 DEF IndInv, PositionKnown, IdsApart, InRound
<1>9. DoneKnown'
  <2> SUFFICES ASSUME NEW d \in clientSuccess' PROVE pc'[d] = "done"
    BY DEF DoneKnown
  <2>1. CASE d \in clientSuccess
    <3>1. d \in Client /\ pc[d] = "done"
      BY <2>1 DEF IndInv, TypeOK, ClientTypes, DoneKnown
    <3> QED
      BY <3>1 DEF ClientStep, Moves
  <2> QED
    BY <2>1 DEF ClientStep, Moves
<1>10. RoundsOver'
  BY <1>1, <1>4, <1>5 DEF IndInv, RoundsOver
<1>11. \A d \in Client : Earned(d) => Earned(d)'
  <2> SUFFICES ASSUME NEW d \in Client, Earned(d) PROVE Earned(d)'
    OBVIOUS
  <2>1. answered[d] \subseteq answered'[d] /\ answered'[d] \subseteq Requests /\ clientError \subseteq clientError'
    BY DEF ClientStep, ClientTypes
  <2> QED
    BY <1>1, <2>1 DEF Earned
<1>12. ErrorsKnown'
  <2>1. \A d : FilesOf(d)' = FilesOf(d)
    BY <1>1 DEF FilesOf
  <2>2. \A d \in Client : FilesOf(d) \subseteq FileNames
    BY <1>3, Numbers DEF FilesOf, FileNames, IndInv, TypeOK, ClientTypes
  <2>3. \A f \in FileNames : files[f] # "absent" => files'[f] # "absent"
    BY DEF ClientStep
  <2> SUFFICES ASSUME mainPc = "errors", kind # "tcp", NEW i \in DOMAIN clientThreads, i < next,
                      NEW f \in FilesOf(clientThreads[i])
               PROVE  files'[f] # "absent"
    BY <1>1, <2>1 DEF IndInv, ErrorsKnown
  <2>4. files[f] # "absent" /\ f \in FileNames
    BY <2>2, InTheList DEF IndInv, TypeOK, ErrorsKnown
  <2> QED
    BY <2>3, <2>4
<1>13. ValidKnown'
  <2>1. clientSuccess \subseteq clientSuccess'
    BY DEF ClientStep, Moves
  <2> QED
    BY <1>1, <1>4, <1>11, <2>1 DEF IndInv, ValidKnown
<1>14. SuccessIsEarned'
  <2>1. \A d \in {combo} \X (1..Sizes) \X (1..Clients) : d \in Client
    BY <1>3 DEF Client
  <2> QED
    BY <1>1, <1>11, <2>1 DEF IndInv, SuccessIsEarned, Earned
<1> QED
  BY <1>2, <1>5, <1>6, <1>7, <1>8, <1>9, <1>10, <1>12, <1>13, <1>14

\* The files that a step leaves as they are, and the one it may write.
LEMMA FilesFrame ==
  ASSUME IndInv, NEW c \in Client, ClientStep(c), NEW k0 \in Requests, NEW text,
         \/ UNCHANGED files
         \/ /\ files' = [files EXCEPT ![<<c[2], id[c], k0>>] = text] /\ c[1] = combo
            /\ Writer(c, k0, text)'
  PROVE  FilesKnown'
<1>1. UNCHANGED <<kind, mainPc, combo, id>>
  BY DEF ClientStep
<1>2. /\ \A s \in 1..Sizes, m \in 1..Clients : Mine(s, m)' = Mine(s, m) /\ Mine(s, m) \in Client
      /\ combo \in 1..Combos
  BY <1>1, MineIs DEF Mine, IndInv, TypeOK, StandTypes
<1> SUFFICES ASSUME mainPc # "runTest", NEW s \in 1..Sizes, NEW i \in Ids, NEW k \in Requests,
                    files'[<<s, i, k>>] # "absent"
             PROVE  \E m \in 1..Clients :
                      id[Mine(s, m)] = i /\ Writer(Mine(s, m), k, files[<<s, i, k>>])'
  BY <1>1, <1>2 DEF FilesKnown
<1>3. CASE files'[<<s, i, k>>] = files[<<s, i, k>>]
  <2>1. PICK m \in 1..Clients : id[Mine(s, m)] = i /\ Writer(Mine(s, m), k, files[<<s, i, k>>])
    BY <1>3 DEF IndInv, FilesKnown
  <2>2. Begun(Mine(s, m), k)'
    BY <1>2, <2>1, ClientFrame DEF Writer
  <2>3. answered[Mine(s, m)] \subseteq answered'[Mine(s, m)] /\ answered'[Mine(s, m)] \subseteq Requests
    BY <1>2 DEF ClientStep, ClientTypes
  <2> QED
    BY <1>1, <1>2, <1>3, <2>1, <2>2, <2>3 DEF Writer
<1>4. CASE /\ files' = [files EXCEPT ![<<c[2], id[c], k0>>] = text] /\ c[1] = combo
           /\ Writer(c, k0, text)' /\ <<s, i, k>> = <<c[2], id[c], k0>>
  <2>1. c[3] \in 1..Clients /\ Mine(s, c[3]) = c
    BY <1>2, <1>4, MineIs
  <2>2. files'[<<s, i, k>>] = text
    BY <1>4 DEF IndInv, TypeOK, ClientTypes, FileNames
  <2> QED
    BY <1>1, <1>2, <1>4, <2>1, <2>2 DEF Writer
<1> QED
  <2>1. CASE files' = [files EXCEPT ![<<c[2], id[c], k0>>] = text] /\ <<s, i, k>> # <<c[2], id[c], k0>>
    <3>1. <<s, i, k>> \in FileNames /\ files \in [FileNames -> {"absent", "noOk", "closed", "ok"}]
      BY DEF FileNames, IndInv, TypeOK, ClientTypes
    <3>2. files'[<<s, i, k>>] = files[<<s, i, k>>]
      BY <2>1, <3>1
    <3> QED
      BY <1>3, <3>2
  <2> QED
    BY <1>3, <1>4, <2>1

LEMMA ProcessesFrame ==
  ASSUME IndInv, NEW c \in Client, ClientStep(c), NEW k0 \in Requests,
         \/ processes' \subseteq processes
         \/ /\ processes' = processes \cup {ProcessFor(c, k0, c[2])}
            /\ c[1] = combo /\ Begun(c, k0)'
  PROVE  ProcessesKnown'
<1>1. UNCHANGED <<combo, id>>
  BY DEF ClientStep
<1> SUFFICES ASSUME NEW p \in processes'
             PROVE  /\ p.client[1] = combo /\ p.size = p.client[2] /\ p.id = id[p.client]
                    /\ Begun(p.client, p.request)'
  BY <1>1 DEF ProcessesKnown
<1>2. CASE p \in processes
  <2>1. p.client \in Client /\ p.request \in Requests
    BY <1>2 DEF IndInv, TypeOK, ClientTypes, Process
  <2> QED
    BY <1>2, <2>1, ClientFrame DEF IndInv, ProcessesKnown
<1>3. CASE p = ProcessFor(c, k0, c[2]) /\ c[1] = combo /\ Begun(c, k0)'
  BY <1>3 DEF ProcessFor
<1> QED
  BY <1>2, <1>3

LEMMA TcpStepIndInv ==
  ASSUME IndInv, NEW c \in Client, ClientStep(c), UNCHANGED <<processes, files>>, TcpKnown'
  PROVE  IndInv'
<1>1. ProcessesKnown' /\ FilesKnown'
  BY ProcessesFrame, FilesFrame, Numbers
<1> QED
  BY <1>1, ClientFrame DEF IndInv

LEMMA SendRequestIndInv ==
  ASSUME IndInv, NEW c \in Client, SendRequest(c), StandUnchanged
  PROVE  IndInv'
<1>1. /\ kind = "tcp" /\ pc[c] = "request" /\ response' = [response EXCEPT ![c] = "part"]
      /\ pc' = [pc EXCEPT ![c] = "wait"]
      /\ UNCHANGED <<kind, mainVars, id, req, clientSuccess, clientError, processes, files, answered>>
  BY DEF SendRequest, StandUnchanged
<1>2. Moves(c)
  BY <1>1, GoesTo
<1>3. ClientStep(c)
  <2>1. response' \in [Client -> {"null", "part", "whole"}]
    BY <1>1 DEF IndInv, TypeOK, ClientTypes
  <2> QED
    BY <1>1, <1>2, <2>1 DEF IndInv, TypeOK, ClientTypes, ClientStep, Moves, mainVars
<1>4. TcpKnown'
  <2>1. \A d \in Client : response'[d] = "whole" => response[d] = "whole"
    BY <1>1 DEF IndInv, TypeOK, ClientTypes
  <2> QED
    BY <1>1, <2>1 DEF IndInv, TcpKnown
<1> QED
  BY <1>1, <1>3, <1>4, TcpStepIndInv

LEMMA ReadFullyIndInv ==
  ASSUME IndInv, NEW c \in Client, ReadFully(c), StandUnchanged
  PROVE  IndInv'
<1>1. /\ kind = "tcp" /\ pc[c] = "wait" /\ response' = [response EXCEPT ![c] = "whole"]
      /\ answered' = [answered EXCEPT ![c] = answered[c] \cup {req[c]}]
      /\ NextRequest(c)
      /\ UNCHANGED <<kind, mainVars, id, clientError, processes, files>>
  BY DEF ReadFully, StandUnchanged
<1>2. /\ Moves(c)
      /\ \/ req'[c] = req[c] + 1 /\ clientSuccess' = clientSuccess
         \/ req[c] = ReqAmount /\ req'[c] = req[c] /\ clientSuccess' = clientSuccess \cup {c}
  BY <1>1, NextRequestMoves
<1>3. /\ answered' \in [Client -> SUBSET Requests] /\ answered'[c] = answered[c] \cup {req[c]}
      /\ \A d \in Client : d # c => answered'[d] = answered[d]
      /\ response' \in [Client -> {"null", "part", "whole"}]
      /\ \A d \in Client : d # c => response'[d] = response[d]
  BY <1>1, Threads DEF IndInv, TypeOK, ClientTypes
<1>4. ClientStep(c)
  <2>1. ClientTypes'
    BY <1>1, <1>2, <1>3 DEF IndInv, TypeOK, ClientTypes, Moves
  <2>2. \A d \in Client : answered[d] \subseteq answered'[d]
    BY <1>3
  <2> QED
    BY <1>1, <1>2, <2>1, <2>2 DEF ClientStep, mainVars
<1>5. TcpKnown'
  <2>1. \A d \in Client : response'[d] = "whole" => answered'[d] # {}
    BY <1>1, <1>3 DEF IndInv, TcpKnown
  <2>2. ASSUME NEW d \in Client, d \notin clientError, d # c
        PROVE  /\ 1..(req'[d] - 1) \subseteq answered'[d]
               /\ d \in clientSuccess' => answered'[d] = Requests
    BY <1>1, <1>2, <1>3, <2>2 DEF IndInv, TcpKnown, Moves
  <2>3. ASSUME c \notin clientError
        PROVE  /\ 1..(req'[c] - 1) \subseteq answered'[c]
               /\ c \in clientSuccess' => answered'[c] = Requests
    <3>1. 1..req[c] \subseteq answered'[c]
      <4>1. 1..(req[c] - 1) \subseteq answered[c]
        BY <1>1, <2>3 DEF IndInv, TcpKnown
      <4>2. \A k \in 1..req[c] : k \in 1..(req[c] - 1) \/ k = req[c]
        BY Threads
      <4> QED
        BY <1>3, <4>1, <4>2
    <3>2. c \notin clientSuccess
      BY <1>1 DEF IndInv, DoneKnown
    <3>3. CASE req'[c] = req[c] + 1 /\ clientSuccess' = clientSuccess
      BY <3>1, <3>2, <3>3, Threads
    <3>4. CASE req[c] = ReqAmount /\ req'[c] = req[c]
      <4>1. answered'[c] = Requests
        BY <1>3, <3>1, <3>4 DEF Requests
      <4>2. 1..(req'[c] - 1) \subseteq 1..req[c]
        BY <3>4, Threads
      <4> QED
        BY <3>1, <4>1, <4>2
    <3> QED
      BY <1>2, <3>3, <3>4
  <2> QED
    BY <1>1, <2>1, <2>2, <2>3 DEF IndInv, TcpKnown
<1> QED
  BY <1>1, <1>4, <1>5, TcpStepIndInv

LEMMA TcpFailsIndInv ==
  ASSUME IndInv, NEW c \in Client, TcpFails(c), StandUnchanged
  PROVE  IndInv'
<1>1. /\ kind = "tcp" /\ pc[c] \in {"request", "wait"} /\ clientError' = clientError \cup {c}
      /\ NextRequest(c)
      /\ UNCHANGED <<kind, mainVars, id, response, processes, files, answered>>
  BY DEF TcpFails, StandUnchanged
<1>2. Moves(c)
  BY <1>1, NextRequestMoves
<1>3. ClientStep(c)
  <2>1. ClientTypes'
    BY <1>1, <1>2 DEF IndInv, TypeOK, ClientTypes, Moves
  <2> QED
    BY <1>1, <1>2, <2>1 DEF ClientStep, mainVars
<1>4. TcpKnown'
  <2>1. \A d \in Client : d \notin clientError' => d # c /\ d \notin clientError
    BY <1>1
  <2>2. \A d \in Client : d # c => req'[d] = req[d] /\ (d \in clientSuccess' => d \in clientSuccess)
    BY <1>2 DEF Moves
  <2> QED
    BY <1>1, <2>1, <2>2 DEF IndInv, TcpKnown
<1> QED
  BY <1>1, <1>3, <1>4, TcpStepIndInv

\* A thread that is seen to run a process belongs to the current combination.
LEMMA ActiveIs ==
  ASSUME IndInv, NEW c \in Client, Created(c), Observed(c), kind # "tcp"
  PROVE  /\ c[1] = combo /\ c[2] \in 1..Sizes /\ c[3] \in 1..Clients /\ c = Mine(c[2], c[3])
         /\ mainPc # "runTest" /\ c[2] <= fileSize
<1>1. c[1] = combo
  BY DEF Observed
<1>2. c[2] \in 1..Sizes /\ c[3] \in 1..Clients /\ c = Mine(c[2], c[3])
  BY <1>1, MineIs DEF IndInv, TypeOK, StandTypes
<1>3. mainPc # "runTest"
  BY <1>1 DEF IndInv, FutureUntouched
<1>4. fileSize \in 1..Sizes
  BY DEF IndInv, TypeOK, StandTypes
<1>5. c[2] <= fileSize
  BY <1>2, <1>3, <1>4 DEF IndInv, FutureUntouched
<1> QED
  BY <1>1, <1>2, <1>3, <1>5

LEMMA StartProcessIndInv ==
  ASSUME IndInv, NEW c \in Client, StartProcess(c), Observed(c), StandUnchanged
  PROVE  IndInv'
<1>1. /\ kind = "quic" /\ pc[c] = "request"
      /\ UNCHANGED <<kind, mainVars, id, response, answered>>
  BY DEF StartProcess, StandUnchanged
<1>2. /\ c[1] = combo /\ c[2] = fileSize /\ c[2] \in 1..Sizes
  <2>1. /\ c[1] = combo /\ c[2] \in 1..Sizes /\ c[3] \in 1..Clients /\ c = Mine(c[2], c[3])
        /\ mainPc # "runTest" /\ c[2] <= fileSize
    BY <1>1, ActiveIs DEF Created
  <2>2. ~(c[2] < fileSize)
    BY <1>1, <2>1 DEF IndInv, RoundsOver, Over
  <2>3. fileSize \in Nat
    BY Numbers DEF IndInv, TypeOK, StandTypes
  <2> QED
    BY <2>1, <2>2, <2>3
<1>3. files' = [files EXCEPT ![<<c[2], id[c], req[c]>>] = "noOk"]
  BY <1>1, <1>2 DEF StartProcess, Write, File, ProcessFor, StandUnchanged, mainVars
<1>4. \/ /\ processes' = processes \cup {ProcessFor(c, req[c], c[2])}
         /\ pc' = [pc EXCEPT ![c] = "wait"]
         /\ UNCHANGED <<req, clientSuccess, clientError>>
      \/ /\ processes' = processes /\ pc' = [pc EXCEPT ![c] = "done"]
         /\ clientError' = clientError \cup {c}
         /\ UNCHANGED <<req, clientSuccess>>
  BY <1>2 DEF StartProcess, GiveUp
<1>5. Moves(c) /\ pc'[c] \in {"wait", "done"} /\ req' = req
  BY <1>1, <1>4, GoesTo
<1>6. PICK k \in Requests : k = req[c]
  BY Threads
<1>7. Begun(c, k)'
  BY <1>5, <1>6 DEF Begun
<1>8. <<c[2], id[c], k>> \in FileNames /\ ProcessFor(c, k, c[2]) \in Process
  BY <1>2, <1>6 DEF FileNames, ProcessFor, Process, IndInv, TypeOK, ClientTypes
<1>9. files' \in [FileNames -> {"absent", "noOk", "closed", "ok"}]
      /\ \A f \in FileNames : files[f] # "absent" => files'[f] # "absent"
  BY <1>3, <1>6, <1>8 DEF IndInv, TypeOK, ClientTypes
<1>10. processes' \subseteq Process /\ clientError' \subseteq Client /\ clientError \subseteq clientError'
  BY <1>4, <1>6, <1>8 DEF IndInv, TypeOK, ClientTypes
<1>11. ClientStep(c)
  <2>1. ClientTypes'
    BY <1>1, <1>5, <1>9, <1>10 DEF IndInv, TypeOK, ClientTypes, Moves
  <2> QED
    BY <1>1, <1>5, <1>9, <1>10, <2>1 DEF ClientStep, mainVars
<1>12. ProcessesKnown'
  BY <1>2, <1>4, <1>6, <1>7, <1>11, ProcessesFrame
<1>13. FilesKnown'
  <2>1. Writer(c, k, "noOk")'
    BY <1>7 DEF Writer
  <2> QED
    BY <1>2, <1>3, <1>6, <1>11, <2>1, FilesFrame
<1>14. TcpKnown'
  BY <1>1 DEF TcpKnown
<1> QED
  BY <1>11, <1>12, <1>13, <1>14, ClientFrame DEF IndInv

LEMMA WaitForIndInv ==
  ASSUME IndInv, NEW c \in Client, WaitFor(c), StandUnchanged
  PROVE  IndInv'
<1>1. /\ kind = "quic" /\ pc[c] = "wait" /\ NextRequest(c)
      /\ UNCHANGED <<kind, mainVars, id, clientError, response, processes, files, answered>>
  BY DEF WaitFor, StandUnchanged, worldVars
<1>2. Moves(c)
  BY <1>1, NextRequestMoves
<1>3. ClientStep(c)
  BY <1>1, <1>2 DEF IndInv, TypeOK, ClientTypes, ClientStep, Moves, mainVars
<1>4. TcpKnown'
  BY <1>1 DEF TcpKnown
<1> QED
  BY <1>1, <1>3, <1>4, TcpStepIndInv

LEMMA ExecIndInv ==
  ASSUME IndInv, NEW c \in Client, Exec(c), Observed(c), StandUnchanged
  PROVE  IndInv'
<1>1. /\ kind = "quiche" /\ pc[c] = "request"
      /\ UNCHANGED <<kind, mainVars, id, response, answered>>
  BY DEF Exec, StandUnchanged
<1>2. c[1] = combo /\ c[2] \in 1..Sizes
  BY <1>1, ActiveIs DEF Created
<1>3. files' = [files EXCEPT ![<<c[2], id[c], 1>>] = "noOk"] \/ UNCHANGED files
  BY <1>1, <1>2 DEF Exec, Write, File, ProcessFor, StandUnchanged, mainVars
<1>4. \/ /\ processes' = processes \cup {ProcessFor(c, 1, c[2])}
         /\ pc' = [pc EXCEPT ![c] = "wait"]
         /\ UNCHANGED <<req, clientSuccess, clientError>>
      \/ /\ processes' = processes /\ pc' = [pc EXCEPT ![c] = "done"]
         /\ clientError' = clientError \cup {c}
         /\ UNCHANGED <<req, clientSuccess>>
  BY DEF Exec, GiveUp
<1>5. Moves(c) /\ pc'[c] \in {"wait", "done"} /\ req' = req
  BY <1>1, <1>4, GoesTo
<1>6. 1 \in Requests
  BY Numbers
<1>7. Begun(c, 1)'
  BY <1>5, Threads DEF Begun
<1>8. <<c[2], id[c], 1>> \in FileNames /\ ProcessFor(c, 1, c[2]) \in Process
  BY <1>2, <1>6 DEF FileNames, ProcessFor, Process, IndInv, TypeOK, ClientTypes
<1>9. files' \in [FileNames -> {"absent", "noOk", "closed", "ok"}]
      /\ \A f \in FileNames : files[f] # "absent" => files'[f] # "absent"
  BY <1>3, <1>8 DEF IndInv, TypeOK, ClientTypes
<1>10. processes' \subseteq Process /\ clientError' \subseteq Client /\ clientError \subseteq clientError'
  BY <1>4, <1>8 DEF IndInv, TypeOK, ClientTypes
<1>11. ClientStep(c)
  <2>1. ClientTypes'
    BY <1>1, <1>5, <1>9, <1>10 DEF IndInv, TypeOK, ClientTypes, Moves
  <2> QED
    BY <1>1, <1>5, <1>9, <1>10, <2>1 DEF ClientStep, mainVars
<1>12. ProcessesKnown'
  BY <1>2, <1>4, <1>6, <1>7, <1>11, ProcessesFrame
<1>13. FilesKnown'
  <2>1. Writer(c, 1, "noOk")'
    BY <1>7 DEF Writer
  <2> QED
    BY <1>2, <1>3, <1>6, <1>11, <2>1, FilesFrame
<1>14. TcpKnown'
  BY <1>1 DEF TcpKnown
<1> QED
  BY <1>11, <1>12, <1>13, <1>14, ClientFrame DEF IndInv

LEMMA PollOutputIndInv ==
  ASSUME IndInv, NEW c \in Client, PollOutput(c), StandUnchanged
  PROVE  IndInv'
<1>1. /\ kind = "quiche" /\ pc[c] = "wait" /\ pc' = [pc EXCEPT ![c] = "done"] /\ req' = req
      /\ UNCHANGED <<kind, mainVars, id, response, processes, files, answered>>
      /\ \/ clientSuccess' = clientSuccess \cup {c} /\ clientError' = clientError
         \/ clientSuccess' = clientSuccess /\ clientError' = clientError \cup {c}
  BY DEF PollOutput, GiveUp, StandUnchanged, worldVars
<1>2. Moves(c)
  BY <1>1, GoesTo
<1>3. ClientStep(c)
  <2>1. clientError' \subseteq Client /\ clientError \subseteq clientError'
    BY <1>1 DEF IndInv, TypeOK, ClientTypes
  <2> QED
    BY <1>1, <1>2, <2>1 DEF IndInv, TypeOK, ClientTypes, ClientStep, Moves, mainVars
<1>4. TcpKnown'
  BY <1>1 DEF TcpKnown
<1> QED
  BY <1>1, <1>3, <1>4, TcpStepIndInv

LEMMA ProcessEndsIndInv ==
  ASSUME IndInv, NEW p \in processes, ProcessEnds(p)
  PROVE  IndInv'
<1> USE DEF threadVars
<1>1. /\ processes' \subseteq processes
      /\ UNCHANGED <<kind, mainVars, id, threadVars, response>>
  BY DEF ProcessEnds, StandUnchanged
<1>2. PICK c \in Client, k \in Requests : c = p.client /\ k = p.request
  BY DEF IndInv, TypeOK, ClientTypes, Process
<1>3. /\ kind \in {"quic", "quiche"}
      /\ c[1] = combo /\ c[2] \in 1..Sizes /\ Begun(c, k)
      /\ File(p) = <<c[2], id[c], k>>
  <2>1. kind # "tcp"
    BY DEF IndInv, TcpKnown
  <2>2. c[2] \in 1..Sizes
    BY MineIs DEF IndInv, TypeOK, StandTypes
  <2> QED
    BY <1>2, <2>1, <2>2, FileSendingAssumption
       DEF IndInv, TypeOK, ClientTypes, ProcessesKnown, File
<1>4. <<c[2], id[c], k>> \in FileNames
  BY <1>3 DEF FileNames, IndInv, TypeOK, ClientTypes
<1>5. \/ /\ files' = [files EXCEPT ![<<c[2], id[c], k>>] = "ok"]
         /\ answered' = [answered EXCEPT ![c] =
                            IF kind = "quic" THEN answered[c] \cup {k} ELSE Requests]
      \/ files' = [files EXCEPT ![<<c[2], id[c], k>>] = "closed"] /\ answered' = answered
      \/ files' = files /\ answered' = answered
  <2>1. UNCHANGED combo
    BY <1>1 DEF mainVars
  <2> QED
    BY <1>2, <1>3, <2>1 DEF ProcessEnds, Write
<1>6. /\ answered' \in [Client -> SUBSET Requests]
      /\ \A d \in Client : answered[d] \subseteq answered'[d]
  <2>1. CASE answered' = answered
    BY <2>1 DEF IndInv, TypeOK, ClientTypes
  <2>2. CASE answered' = [answered EXCEPT ![c] = IF kind = "quic" THEN answered[c] \cup {k} ELSE Requests]
    <3>1. /\ answered \in [Client -> SUBSET Requests]
          /\ (IF kind = "quic" THEN answered[c] \cup {k} ELSE Requests) \in SUBSET Requests
      BY DEF IndInv, TypeOK, ClientTypes
    <3>2. answered[c] \subseteq (IF kind = "quic" THEN answered[c] \cup {k} ELSE Requests)
      BY <3>1
    <3> QED
      BY <2>2, <3>1, <3>2
  <2> QED
    BY <1>5, <2>1, <2>2
<1>7. /\ files' \in [FileNames -> {"absent", "noOk", "closed", "ok"}]
      /\ \A f \in FileNames : files[f] # "absent" => files'[f] # "absent"
  BY <1>4, <1>5 DEF IndInv, TypeOK, ClientTypes
<1>8. Moves(c)
  BY <1>1 DEF Moves, Begun, Over, IndInv, TypeOK, ClientTypes
<1>9. ClientStep(c)
  <2>1. ClientTypes'
    BY <1>1, <1>6, <1>7 DEF IndInv, TypeOK, ClientTypes
  <2> QED
    BY <1>1, <1>6, <1>7, <1>8, <2>1 DEF ClientStep, mainVars
<1>10. ProcessesKnown'
  BY <1>1, <1>2, <1>9, ProcessesFrame
<1>11. FilesKnown'
  <2>1. Begun(c, k)'
    BY <1>1, <1>3 DEF Begun
  <2>2. CASE /\ files' = [files EXCEPT ![<<c[2], id[c], k>>] = "ok"]
             /\ answered' = [answered EXCEPT ![c] =
                               IF kind = "quic" THEN answered[c] \cup {k} ELSE Requests]
    <3>1. answered'[c] = IF kind = "quic" THEN answered[c] \cup {k} ELSE Requests
      BY <2>2 DEF IndInv, TypeOK, ClientTypes
    <3>2. Writer(c, k, "ok")'
      BY <1>1, <1>3, <2>1, <3>1 DEF Writer
    <3> QED
      BY <1>3, <1>9, <2>2, <3>2, FilesFrame
  <2>3. CASE files' = [files EXCEPT ![<<c[2], id[c], k>>] = "closed"]
    <3>1. Writer(c, k, "closed")'
      BY <2>1 DEF Writer
    <3> QED
      BY <1>3, <1>9, <2>3, <3>1, FilesFrame
  <2>4. CASE files' = files
    BY <1>9, <2>4, FilesFrame
  <2> QED
    BY <1>5, <2>2, <2>3, <2>4
<1>12. TcpKnown'
  BY <1>1, <1>3 DEF TcpKnown
<1> QED
  BY <1>9, <1>10, <1>11, <1>12, ClientFrame DEF IndInv

---------------------------------------------------------------------------
(* The theorems. *)

LEMMA StutterIndInv == ASSUME IndInv, UNCHANGED vars PROVE IndInv'
<1> USE DEF vars, mainVars, threadVars, worldVars
<1>1. TypeOK' /\ LengthKnown'
  BY DEF IndInv, TypeOK, StandTypes, ClientTypes, LengthKnown
<1>2. FutureUntouched' /\ RoundCreated' /\ PositionKnown' /\ IdsApart'
  BY DEF IndInv, FutureUntouched, RoundCreated, PositionKnown, IdsApart, InRound, Created,
         Current, Mine
<1>3. DoneKnown' /\ ProcessesKnown' /\ TcpKnown'
  BY DEF IndInv, DoneKnown, ProcessesKnown, TcpKnown, Begun
<1>4. FilesKnown' /\ RoundsOver'
  BY DEF IndInv, FilesKnown, RoundsOver, Writer, Begun, Over, Mine
<1>5. ErrorsKnown' /\ ValidKnown' /\ SuccessIsEarned'
  BY DEF IndInv, ErrorsKnown, ValidKnown, SuccessIsEarned, FilesOf, Earned, Current, Mine
<1> QED
  BY <1>1, <1>2, <1>3, <1>4, <1>5 DEF IndInv

LEMMA NextIndInv == IndInv /\ [Next]_vars => IndInv'
<1> SUFFICES ASSUME IndInv, [Next]_vars PROVE IndInv'
  OBVIOUS
<1>1. CASE MainThread
  BY <1>1, RunTestIndInv, InitClientIndInv, StartClientsIndInv, JoinIndInv, FlagsIndInv,
     ValidateIndInv, GetErrorIndInv, ResultIndInv, FailedIndInv, ClearIndInv, ClearLastIndInv
     DEF MainThread
<1>2. ASSUME NEW c \in Client, Observed(c), ClientThread(c) PROVE IndInv'
  BY <1>2, SendRequestIndInv, ReadFullyIndInv, TcpFailsIndInv, StartProcessIndInv, WaitForIndInv,
     ExecIndInv, PollOutputIndInv DEF ClientThread
<1>3. ASSUME NEW p \in processes, ProcessEnds(p) PROVE IndInv'
  BY <1>3, ProcessEndsIndInv
<1>4. CASE UNCHANGED vars
  BY <1>4, StutterIndInv
<1> QED
  BY <1>1, <1>2, <1>3, <1>4 DEF Next

\* The inductive invariant holds in every state.
LEMMA Invariance == Spec => []IndInv
BY InitIndInv, NextIndInv, PTL DEF Spec

(***************************************************************************)
(* Every variable keeps its type: in particular no id is beyond the number *)
(* of clients the stand ever makes, although a combination that ends with  *)
(* an exception leaves its clients in the list                             *)
(* (AbstractCommonFileSendingTestStand.java, executeTest).                 *)
(***************************************************************************)
THEOREM TypeCorrect == Spec => []TypeOK
<1>1. IndInv => TypeOK
  BY DEF IndInv
<1> QED
  BY <1>1, Invariance, PTL

(***************************************************************************)
(* A round counts as successful only if the requests of all its clients    *)
(* were answered by processes of their own, whatever clients of earlier    *)
(* rounds still do: the files that validateResponse reads have the writer  *)
(* that their names suggest, since ids are apart and no client that is     *)
(* left behind starts another process.                                     *)
(***************************************************************************)
THEOREM SuccessIsEarnedHolds == Spec => []SuccessIsEarned
<1>1. IndInv => SuccessIsEarned
  BY DEF IndInv
<1> QED
  BY <1>1, Invariance, PTL

(***************************************************************************)
(* No two processes of the current combination write to one file.          *)
(***************************************************************************)
THEOREM WritersApartHolds == Spec => []WritersApart
<1>1. IndInv => WritersApart
  <2> SUFFICES ASSUME IndInv, NEW p \in processes, NEW q \in processes, File(p) = File(q)
               PROVE  p = q
    BY DEF WritersApart
  <2>1. p \in Process /\ q \in Process
    BY DEF IndInv, TypeOK, ClientTypes
  <2>2. p.size = q.size /\ p.id = q.id /\ p.request = q.request
    BY DEF File
  <2>3. /\ p.client \in Client /\ q.client \in Client
        /\ p.client[1] = combo /\ q.client[1] = combo
        /\ p.client[2] = q.client[2] /\ id[p.client] = id[q.client]
        /\ Created(p.client) /\ Created(q.client)
    BY <2>1, <2>2 DEF IndInv, ProcessesKnown, Begun, Created, Process
  <2>4. p.client = q.client
    <3>1. /\ p.client = Mine(p.client[2], p.client[3]) /\ q.client = Mine(p.client[2], q.client[3])
          /\ p.client[2] \in 1..Sizes /\ p.client[3] \in 1..Clients /\ q.client[3] \in 1..Clients
      BY <2>3, MineIs DEF IndInv, TypeOK, StandTypes
    <3> QED
      BY <2>3, <3>1 DEF IndInv, IdsApart
  <2> QED
    BY <2>1, <2>2, <2>4 DEF Process
<1> QED
  BY <1>1, Invariance, PTL

===========================================================================
