---------------------------- MODULE NativeTunnel ----------------------------
(***************************************************************************)
(* The native half of the tunnel: java_api.cpp and tunnel.cpp.  The main   *)
(* thread creates and deletes the Tunnel object, the receiving and the     *)
(* sending thread of TunnelInterface call readPacket and writePacket, and  *)
(* the rest of the process opens and closes files of its own, which get    *)
(* the lowest free descriptor as the device does.  A packet that is        *)
(* written goes through calculate_checksums (module Checksum).             *)
(***************************************************************************)
EXTENDS Checksum, FiniteSets, FiniteSetsExt

CONSTANTS
  Fds,         \* the descriptors that the process may have open
  QueueLimit   \* bound: packets that wait in the device

ASSUME NativeAssumption ==
  /\ Fds \subseteq Nat /\ IsFiniteSet(Fds)
  /\ QueueLimit \in Nat \ {0}

VARIABLES
  files,       \* what every descriptor is open for
  object,      \* the Tunnel object: none, or allocated
  pollFd,      \* its poll_fd.fd
  revents,     \* is POLLIN set in its poll_fd.revents?
  ref,         \* objectRef of the Java object is not 0
  mainPc, fd,  \* fd: the local variable of tun_alloc and init
  readerPc,
  writerPc,
  threads,     \* the two threads have been started and not been joined
  queued,      \* packets that wait in the device
  exited       \* exit(1) has been called, or an assertion has failed

nativeVars ==
  <<files, object, pollFd, revents, ref, mainPc, fd, readerPc, writerPc, threads, queued, exited>>
vars == <<nativeVars, checksumVars>>

Descriptors == Fds \cup {-1}

MainPcs == {"start", "open", "ioctl", "init", "delete", "setRef", "ready", "running",
            "stop", "clearRef", "stopped", "failed"}

TypeOK ==
  /\ ChecksumTypeOK
  /\ files \in [Fds -> {"free", "device", "other"}]
  /\ object \in BOOLEAN /\ ref \in BOOLEAN /\ revents \in BOOLEAN /\ exited \in BOOLEAN
  /\ threads \in BOOLEAN
  /\ pollFd \in Descriptors /\ fd \in Descriptors
  /\ mainPc \in MainPcs
  /\ readerPc \in {"out", "poll", "polled", "read"}
  /\ writerPc \in {"out", "checksums"}
  /\ queued \in 0..QueueLimit
  /\ writerPc = "out" <=> phase = "idle"

Init ==
  /\ ChecksumInit
  /\ files \in [Fds -> {"free", "other"}]
  /\ object = FALSE /\ ref = FALSE
  /\ pollFd = -1 /\ revents = FALSE
  /\ mainPc = "start" /\ fd = -1
  /\ readerPc = "out" /\ writerPc = "out" /\ threads = FALSE
  /\ queued = 0
  /\ exited = FALSE

Free == {f \in Fds : files[f] = "free"}
Lowest == Min(Free)
Close(f) == [files EXCEPT ![f] = "free"]

---------------------------------------------------------------------------
(***************************************************************************)
(* Tunnel_init.                                                            *)
(***************************************************************************)
NewTunnel ==
  /\ mainPc = "start"
  /\ object' = TRUE
  /\ pollFd' = -1 /\ revents' = FALSE
  /\ mainPc' = "open"
  /\ UNCHANGED <<files, ref, fd, readerPc, writerPc, threads, queued, exited>>

\* The name is too long, or open fails.
OpenFails ==
  /\ mainPc = "open"
  /\ fd' = -1
  /\ mainPc' = "init"
  /\ UNCHANGED <<files, object, pollFd, revents, ref, readerPc, writerPc, threads, queued, exited>>

Open ==
  /\ mainPc = "open" /\ Free # {}
  /\ fd' = Lowest
  /\ files' = [files EXCEPT ![Lowest] = "device"]
  /\ mainPc' = "ioctl"
  /\ UNCHANGED <<object, pollFd, revents, ref, readerPc, writerPc, threads, queued, exited>>

Ioctl ==
  /\ mainPc = "ioctl"
  /\ mainPc' = "init"
  /\ UNCHANGED <<files, object, pollFd, revents, ref, fd, readerPc, writerPc, threads, queued,
                 exited>>

\* Mutant: the descriptor is left open.
IoctlFailsOnly ==
  /\ mainPc = "ioctl"
  /\ fd' = -1
  /\ mainPc' = "init"
  /\ UNCHANGED <<files, object, pollFd, revents, ref, readerPc, writerPc, threads, queued, exited>>

IoctlFails ==
  /\ mainPc = "ioctl"
  /\ files' = Close(fd)
  /\ fd' = -1
  /\ mainPc' = "init"
  /\ UNCHANGED <<object, pollFd, revents, ref, readerPc, writerPc, threads, queued, exited>>

InitPollFd ==
  /\ mainPc = "init"
  /\ IF fd >= 0
     THEN pollFd' = fd /\ revents' = FALSE /\ mainPc' = "setRef"
     ELSE mainPc' = "delete" /\ UNCHANGED <<pollFd, revents>>
  /\ UNCHANGED <<files, object, ref, fd, readerPc, writerPc, threads, queued, exited>>

SetRef ==
  /\ mainPc = "setRef"
  /\ ref' = TRUE
  /\ mainPc' = "ready"
  /\ UNCHANGED <<files, object, pollFd, revents, fd, readerPc, writerPc, threads, queued, exited>>

\* delete tunnel, with the destructor, after a failure or in Tunnel_stop.  The
\* packets that wait in the device go with it.
Delete ==
  /\ mainPc \in {"delete", "stop"}
  /\ files' = IF pollFd >= 0 THEN Close(pollFd) ELSE files
  /\ object' = FALSE
  /\ queued' = 0
  /\ mainPc' = IF mainPc = "delete" THEN "failed" ELSE "clearRef"
  /\ UNCHANGED <<pollFd, revents, ref, fd, readerPc, writerPc, threads, exited>>

(***************************************************************************)
(* The threads are started and joined as often as there are tests.         *)
(***************************************************************************)
StartThreads ==
  /\ mainPc = "ready"
  /\ mainPc' = "running"
  /\ threads' = TRUE
  /\ UNCHANGED <<files, object, pollFd, revents, ref, fd, readerPc, writerPc, queued, exited>>

JoinThreads ==
  /\ mainPc = "running" /\ readerPc = "out" /\ writerPc = "out"
  /\ mainPc' = "ready"
  /\ threads' = FALSE
  /\ UNCHANGED <<files, object, pollFd, revents, ref, fd, readerPc, writerPc, queued, exited>>

(***************************************************************************)
(* Tunnel_stop, called by TestStand.finish whatever has happened before:   *)
(* also after a failed init, and with the threads still running.           *)
(***************************************************************************)
\* Mutant: the device is closed here, and once more by the destructor.
StopCloses ==
  /\ mainPc \in {"ready", "running", "failed"}
  /\ \/ /\ ref
        /\ files' = Close(pollFd)
        /\ mainPc' = "stop"
        /\ UNCHANGED exited
     \/ /\ ~ref
        /\ exited' = TRUE
        /\ UNCHANGED <<files, mainPc>>
  /\ UNCHANGED <<object, pollFd, revents, ref, fd, readerPc, writerPc, threads, queued>>

\* get_ref, assert(tunnel)
Stop ==
  /\ mainPc \in {"ready", "running", "failed"}
  /\ \/ ref /\ mainPc' = "stop" /\ UNCHANGED exited
     \/ ~ref /\ exited' = TRUE /\ UNCHANGED mainPc
  /\ UNCHANGED <<files, object, pollFd, revents, ref, fd, readerPc, writerPc, threads, queued>>

ClearRef ==
  /\ mainPc = "clearRef"
  /\ ref' = FALSE
  /\ mainPc' = "stopped"
  /\ UNCHANGED <<files, object, pollFd, revents, fd, readerPc, writerPc, threads, queued, exited>>

MainThread ==
  /\ \/ NewTunnel \/ OpenFails \/ Open \/ Ioctl \/ IoctlFails \/ InitPollFd \/ SetRef
     \/ Delete \/ StartThreads \/ JoinThreads \/ Stop \/ ClearRef
  /\ UNCHANGED checksumVars

---------------------------------------------------------------------------
(***************************************************************************)
(* readPacket.  Descriptor 0 counts as no device here (pollFd > 0),        *)
(* although init has accepted it: the call then returns 0 at once, and     *)
(* writePacket drops the packet.                                           *)
(*                                                                         *)
(* A call may go on, or even begin, when the object has been deleted:      *)
(* poll_fd is what it was until the memory is used again, and anything     *)
(* from then on (MemoryReused).                                            *)
(***************************************************************************)
\* The number in poll_fd is that of some open file.
Usable == pollFd \in Fds /\ files[pollFd] # "free"

\* get_ref, assert(tunnel), ...
EnterRead ==
  /\ threads /\ readerPc = "out"
  /\ \/ ref /\ pollFd > 0 /\ readerPc' = "poll" /\ UNCHANGED exited
     \/ ~ref /\ exited' = TRUE /\ UNCHANGED readerPc
  /\ UNCHANGED <<files, object, pollFd, revents, ref, mainPc, fd, writerPc, threads, queued>>

\* The packets that wait, the end of the timeout, or a signal, after which
\* revents is what it was; for a deleted object, what some other file is ready for.
Poll ==
  /\ readerPc = "poll"
  /\ revents' \in IF object THEN {queued > 0, revents} ELSE BOOLEAN
  /\ readerPc' = "polled"
  /\ UNCHANGED <<files, object, pollFd, ref, mainPc, fd, writerPc, threads, queued, exited>>

Polled ==
  /\ readerPc = "polled"
  /\ readerPc' = IF revents THEN "read" ELSE "out"
  /\ UNCHANGED <<files, object, pollFd, revents, ref, mainPc, fd, writerPc, threads, queued,
                 exited>>

\* Mutant: the returned flags are not cleared.
ReadOnly ==
  /\ readerPc = "read" /\ Usable
  /\ \/ object /\ queued > 0 /\ queued' = queued - 1
     \/ ~object /\ UNCHANGED queued
  /\ readerPc' = "out"
  /\ UNCHANGED <<files, object, pollFd, revents, ref, mainPc, fd, writerPc, threads, exited>>

\* read waits for a packet if there is none.  For a deleted object it takes what it
\* gets from a file of another part of the process.
Read ==
  /\ readerPc = "read" /\ Usable
  /\ \/ object /\ queued > 0 /\ queued' = queued - 1
     \/ ~object /\ UNCHANGED queued
  /\ revents' = FALSE
  /\ readerPc' = "out"
  /\ UNCHANGED <<files, object, pollFd, ref, mainPc, fd, writerPc, threads, exited>>

ReadFails ==
  /\ readerPc = "read"
  /\ exited' = TRUE
  /\ UNCHANGED <<files, object, pollFd, revents, ref, mainPc, fd, readerPc, writerPc, threads,
                 queued>>

ReceivingThread ==
  /\ EnterRead \/ Poll \/ Polled \/ Read \/ ReadFails
  /\ UNCHANGED checksumVars

(***************************************************************************)
(* writePacket: the checksums of the IP header and of the UDP or TCP       *)
(* packet in it, if it is one, and then the write.                         *)
(***************************************************************************)
EnterWrite ==
  /\ threads /\ writerPc = "out"
  /\ \/ ref /\ pollFd > 0 /\ writerPc' = "checksums" /\ Start("ip") /\ UNCHANGED exited
     \/ ~ref /\ exited' = TRUE /\ UNCHANGED <<writerPc, checksumVars>>
  /\ UNCHANGED <<files, object, pollFd, revents, ref, mainPc, fd, readerPc, threads, queued>>

Calculate ==
  /\ writerPc = "checksums"
  /\ CalculateChecksums
  /\ UNCHANGED nativeVars

Write ==
  /\ writerPc = "checksums" /\ phase = "done" /\ Usable
  /\ writerPc' = "out"
  /\ ChecksumReset
  /\ UNCHANGED <<files, object, pollFd, revents, ref, mainPc, fd, readerPc, threads, queued,
                 exited>>

WriteFails ==
  /\ writerPc = "checksums" /\ phase = "done"
  /\ exited' = TRUE
  /\ UNCHANGED <<files, object, pollFd, revents, ref, mainPc, fd, readerPc, writerPc, threads,
                 queued>>
  /\ UNCHANGED checksumVars

SendingThread == EnterWrite \/ Calculate \/ Write \/ WriteFails

---------------------------------------------------------------------------
(***************************************************************************)
(* Packets arrive at the device; the rest of the process has its files.    *)
(***************************************************************************)
Arrive ==
  /\ mainPc \in {"ready", "running"} /\ queued < QueueLimit
  /\ queued' = queued + 1
  /\ UNCHANGED <<files, object, pollFd, revents, ref, mainPc, fd, readerPc, writerPc, threads,
                 exited>>

OtherOpens ==
  /\ Free # {}
  /\ files' = [files EXCEPT ![Lowest] = "other"]
  /\ UNCHANGED <<object, pollFd, revents, ref, mainPc, fd, readerPc, writerPc, threads, queued,
                 exited>>

OtherCloses ==
  /\ \E f \in Fds : files[f] = "other" /\ files' = Close(f)
  /\ UNCHANGED <<object, pollFd, revents, ref, mainPc, fd, readerPc, writerPc, threads, queued,
                 exited>>

\* The memory of the deleted object is used again while a thread may still look at it.
MemoryReused ==
  /\ ~object /\ threads /\ (ref \/ {readerPc, writerPc} # {"out"})
  /\ pollFd' \in Descriptors
  /\ revents' \in BOOLEAN
  /\ UNCHANGED <<files, object, ref, mainPc, fd, readerPc, writerPc, threads, queued, exited>>

Environment ==
  /\ Arrive \/ OtherOpens \/ OtherCloses \/ MemoryReused
  /\ UNCHANGED checksumVars

Next ==
  /\ ~exited
  /\ MainThread \/ ReceivingThread \/ SendingThread \/ Environment

Spec == Init /\ [][Next]_vars

---------------------------------------------------------------------------
(***************************************************************************)
(* Outside of Tunnel_init and Tunnel_stop, the device is open once, under  *)
(* the descriptor of the object that Java refers to, and not at all        *)
(* without one: no failure of tun_alloc, at whatever point, leaves a       *)
(* descriptor behind (tunnel.cpp, lines 32-51, and java_api.cpp, line 197).*)
(***************************************************************************)
LeaksNothing ==
  mainPc \in {"ready", "running", "failed", "stopped"} =>
    {f \in Fds : files[f] = "device"} = IF ref THEN {pollFd} ELSE {}

(***************************************************************************)
(* As long as the object exists its descriptor is that of the device, so   *)
(* neither a call nor the destructor reads, writes or closes a file that   *)
(* another part of the process has opened under its number (tunnel.cpp,    *)
(* lines 99-101, against java_api.cpp, line 212).  A call that works on a  *)
(* deleted object, and so perhaps on such a file, is one that finish has   *)
(* overtaken: TestStand.java:73 stops the tunnel without joining anybody.  *)
(***************************************************************************)
OwnDescriptor ==
  /\ object /\ pollFd >= 0 => files[pollFd] = "device"
  /\ {readerPc, writerPc} # {"out"} =>
       \/ object /\ ref
       \/ threads /\ mainPc \in {"clearRef", "stopped"}

(***************************************************************************)
(* On an object that exists, read is called only when a packet waits: the  *)
(* flags of an earlier poll are cleared, so a poll that a signal ends does *)
(* not send the thread into a read without time limit, where no interrupt  *)
(* would reach it (tunnel.cpp, lines 138-145).                             *)
(***************************************************************************)
ReadIsReady == readerPc = "read" /\ object => queued > 0
==============================================================================
