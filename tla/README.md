# TLA+ for NetPackets-Simulator

NetPackets-Simulator emulates a network for tests of the UT2, TCP, QUIC and QUICHE protocols.
Programs under test talk through a TUN device; the simulator reads every packet from the device,
holds it back for half the round trip time, limits the rate of each client and direction, drops
packets after a loss profile, rewrites the addresses and writes the packet back to the device. A
JUnit class drives it through all combinations of round trip time, loss profile, bandwidth, speed
rate and window capacity, and runs a file transfer over each.

This directory models that system: what runs concurrently with what, what is counted, lost, delayed
and reordered, and what happens when a step fails.

Paths below are relative to the root of the repository; `ut2/` is short for
`src/main/java/one/transport/ut2/testing/`.

## The system

| Part | State | Operations | Interacts with |
|---|---|---|---|
| Congestion window (`ut2/tunnel/impl/CongestionControlWindowImpl.java`) | `deque`, `currentSize`, `capacity`, two packet counters shared by all windows | `tryToPush`, `peek`, `pop`, `setCapacity`, flush of the counters | receiving thread pushes, sending thread peeks and pops, main thread sets the capacity and flushes |
| Loss function (`ut2/tunnel/PacketLoss.java`) | timestamps of dropped packets, `resetId` | `loss(id, timestamp)` | one object per direction, used by the sending thread |
| Packet path (`ut2/tunnel/TunnelInterface.java`) | window, caches and token buckets per client and direction, counters, thread fields | loops of the two threads, `processPacket`, `trySendPacket`, `start`, `stop`, `flushStat`, `getPacketLoss` | device (native), window, loss function; main thread starts, stops and reads |
| Devices and packets (`ut2/entity/Configuration.java`, `ut2/tunnel/Packet.java`) | addresses, header fields | `isSrc`, `isDst`, `apply`, getters and setters over the bytes | packet path |
| Native tunnel (`tunnel/src`) | `Tunnel` object, reference to it, file descriptor | `init`, `stop`, `readPacket`, `writePacket`, checksums | called through JNI by both threads and by the suite |
| Test stand (`src/test/java/.../TestStand.java`) | interface, tunnel, results | `init`, `finish`, `executeTest` | everything below it |
| File sending tests (`ut2/stand/Abstract*Stand.java`, `ut2/entity/**`) | client threads, server, child processes, result | `init`, `runTest`, `executeTest`, `clear` | child processes, temp and log files, statistic |
| UT2 tests (`ut2/stand/AbstractUT2TestStand.java`) | current request handler with its `lastRequestId`, response threads, client processes | as above | UT2 library (external), monitor |
| UT2 client program (`client/src`) | its configuration, commands in its standard input, `request_counter`, `success_requests`, the lines it has printed | reading `configuration.json`, `send`, `exit`, `cipher` | Java side by a file and by pipes, RapidJSON (vendored), UT2 library (external) |
| UT2 cluster (`ut2/cluster`, `ut2/handler`) | `ClusterUtils.hosts` | list of the hosts for the clients | test stand, UT2 library (external) |

What is hard in it:

* **Races without locks.** `currentSize` of the window is a plain field that two threads compute
  from a weakly consistent walk and then store. The counters are plain `long`s that one thread
  counts up, while another reads two of them one after the other, or clears them.
* **A packet in two places.** The sending thread processes the head of the window before it removes
  it, while the receiving thread adds at the other end.
* **Arithmetic of the loss profile** around `x0`, with a division that truncates, and a `resetId`
  computed without `x0`.
* **Failure of one step of several.** `clear` runs in a `finally` block and may throw; `stop` comes
  after the block. Threads then outlive their test, and the native object is deleted under them.
* **Files written under their readers.** All clients of a UT2 test read one `configuration.json`,
  which is truncated and written anew half a second after each of them was started; the output files
  of QUIC clients are named after a static field that the main thread changes.
* **Descriptors.** The device has a number that the process may give to another file once it is
  closed, `init` can fail at three points, and a poll can end by a signal.
* **Sums that wrap.** Both checksums add words to 32 bits and fold the carries at different times.
* **Time limits** (`join(300_000)`, `waitFor(900 s)`, `wait(60_000)`) whose expiry is not
  distinguished from success, and wake-ups that are tested for outside the monitor.

What makes each part correct, in one line: the *window* keeps order, loses nothing it admitted,
stays near its capacity and drains; the *loss function* drops exactly the packets of the profile's
gaps; the *packet path* is a FIFO link per client and direction with loss and a minimum delay, whose
counters agree with what it did; the *test stand* has at most one pair of threads, never uses a
deleted tunnel, and reports one result per combination and file size; the *native tunnel* closes what
it opened, and nothing else; the *checksums* are accepted by a receiver; the *tests* report success
only when every client got every answer; a *client* runs on a whole configuration of this test.

## The modules

| Module | Models | Kind |
|---|---|---|
| `CongestionWindow` | `CongestionControlWindowImpl` and its counters under two threads and the flush of a third, one step per access to shared memory | state machine, properties, inductive invariant |
| `LossParams` | `LossParams`, `checkLossGap`, `getResetId` | operators |
| `PacketLoss` | `PacketLoss.loss` over a stream of packets | state machine, properties |
| `Traffic` | packets, devices, delay; the lanes in which packets keep their order | operators |
| `LossyLink` | what the packet path promises | abstract specification |
| `TunnelInterface` | the packet path with its three threads | state machine, properties, refinement of `LossyLink` |
| `Checksum` | `ip_checksum` and `udp_tcp_checksum`, a step per word | state machine, properties |
| `NativeTunnel` | `java_api.cpp` and `tunnel.cpp` with the descriptors of the process; extends `Checksum` | state machine, properties |
| `TestStand` | the suite, the interface's life cycle, the native object | state machine, properties |
| `UT2Test` | the UT2 test: main thread, response threads, handler of the server, client programs | state machine, properties |
| `FileSending` | the TCP, QUIC and QUICHE tests: main thread, client threads, their processes and files | state machine, properties |
| `JsonParser` | the parser of RapidJSON as far as the client uses it | operators |
| `ClientConfiguration` | the start of the clients of a UT2 test, and how they read their configuration; extends `JsonParser` | state machine, properties |
| `MCPacketLoss`, `MCTunnelInterface` | values of the constants | for TLC |
| `CongestionWindowProofs`, `PacketLossProofs`, `TunnelInterfaceProofs`, `NativeTunnelProofs`, `TestStandProofs`, `UT2TestProofs`, `FileSendingProofs`, `ClientConfigurationProofs` | | theorems about the module in the name and those that it extends |

A definition whose comment begins with "Mutant:" is not part of a model: it is a variant of the
definition that follows with a plausible mistake, kept to show that a property can tell them apart.

### CongestionWindow

`deque` is a `ConcurrentLinkedDeque`, so `add` and `pop` are single steps (`PushAdd`, `Pop`). The
sum over `deque.stream()` is a walk: `PushVisit` and `PopVisit` meet the next linked packet at or
after the place reached, `PushWalked` and `PopWalked` find no more, and only then `PushStore` and
`PopStore` write `currentSize`. `PushAccept` and `PushDrop` are the two outcomes of the test of line
29. Packets carry the offset of their first byte in the stream of all admitted bytes; it
identifies them, and lets the properties speak of what was admitted and taken. Memory is taken to be
sequentially consistent for `currentSize`: each store is followed by an atomic operation of its
thread before the thread reads the field again.

The counters of `CongestionControlWindow.Statistic` are counted in two steps each (`ReadTotal`,
`WriteTotal`; `PushDrop`, `WriteDropped`), and `FlushStat` takes four: read and clear the drops, read
and clear the packets. The main thread flushes while the receiving thread counts, so a count may be
lost, or come back after it has been reported, and dropped packets may outnumber packets.
`ReportInRange` says what is left of the report: both numbers are at most that of the packets offered,
and up to the first flush that ends within the count of a packet (`torn`) the drops are at most the
packets, which they owe to the order of the two flushes in `TunnelInterface.java`, lines 66-67.

When the sending thread takes the head depends on its age; here it may take it at any time, so no
timing is excluded.

### LossParams and PacketLoss

`CheckLossGap` and `GetResetId` are the expressions of the code, with Java's truncating division.
One step of `PacketLoss` is one call of `loss`: the packet passes, is dropped, or cuts the gap
short, which is the case in which `checkInterval` finds growing pauses. The properties compare this
with the profile read as a set of numbers (`InGap`, `SameGap`), with floor division.

Assumed of a profile (`ProfilesAssumption`): `up + down > 0`, and when `intervals` is set also
`interval > 0`, without which the code throws, and `-up <= x0 <= 0`, because `getResetId` leaves `x0`
out. Every profile of `configuration.json` satisfies it. Where `intervals` is not set, `interval` is
never used and `x0` may be anything. One consequence of the truncating division remains: with
`up = 0` and `x0 > 0`, the packets a whole number of periods before `x0` are dropped although they
are in no gap (`Stray`, which `LossOnlyInGaps` names).

### Traffic, LossyLink and TunnelInterface

The window is a FIFO that may refuse any packet (see `CongestionWindow`: its count may be wrong in
both directions, so which packets are refused is not determined by its contents). Packets age until
they are ripe (`2 * age > Rtt`); `Tick` is the clock and the refill of the buckets (Bucket4j,
external: starts full, never exceeds its size). A turn of the sending thread is `SendTop`, then
`ProcessPacket` and `Pop` while the head is ripe, `WindowDone`, then for the caches of packets from
clients and from servers, client by client, `Forward` while there are packets and tokens, and
`NextCache`, `RoundDone`. `Forward` counts, asks the loss function, and sends. Of the back-off rule
only its outcome is modelled: a packet of a gap may pass.

The main thread starts, reads the loss of a direction (`ReadSent`, `ReadRecv`: the operands of the
division, in their order), flushes, stops and joins, and starts again. What `flushStat` clears may
come back if the sending thread is just counting it up (`Cleared`). `start` renews counters and
caches, but the window is the one of the run before.

`LossyLink` is a set of packets in transit with the number each was accepted under, and what has been
delivered. It may lose any packet at any time; it delivers a packet that is ripe and has the lowest
number of its lane (a client's packets, the servers' packets for a client, packets between servers).
Its invariant `WellDelivered` is what programs under test rely on. The refinement mapping is a union:
in transit is what the window and the caches hold, less the head of the window while it is processed
but not yet popped (`Waiting`); accepted is the number of packets read from the device.

### Checksum and NativeTunnel

A step of `Checksum` is a turn of one of the loops of `checksum.cpp`; the word is chosen when it is
read. The last byte of an odd length, the six words of the pseudo header with the swapped length,
the early folding of `ip_checksum` (line 55) and the folding at the end are steps of their own. A
byte has `ByteBase` values instead of 256, the sum is reduced to two words as `uint32_t` is, and
`FoldBit` stands for the tested bit. `total` is the true sum, which the code does not have:
`ReceiverAccepts` compares the check field with it. `SumIsCongruent` is the invariant behind it. The
code takes the length of a fragment's UDP header as it comes, and so does the model.

`NativeTunnel` has a program counter for the main thread and one for each thread in a native call.
`files` says what each descriptor is open for; `open` takes the lowest free one, and so does the
rest of the process (`OtherOpens`, `OtherCloses`). `OpenFails` and `IoctlFails` are the error paths
of `tun_alloc`, `Delete` is the destructor, after a failure and in `Tunnel_stop`. `Poll` may end
because of packets, of the timeout, or of a signal, which leaves `revents` as it was: that is why
`readPacket` clears it (`ReadIsReady`). A failing `read` or `write` calls `exit(1)`, after which
nothing happens.

`Stop` may come at any time after `init`, because `finish` calls it whatever has happened: with the
threads joined, with the threads running (a skipped `stop` of the interface), or without an object,
when the assertion ends the process. A thread may then be inside a call, or enter one before
`ClearRef`, with the object deleted. What it finds there is `poll_fd` as it was, until
`MemoryReused` replaces it by anything; it can read from or write to a file that another part of the
process has opened (`Usable`). `OwnDescriptor` and `ReadIsReady` speak of the time while the object
exists, and `OwnDescriptor` adds that a call meets a deleted object only in this way. What else the
process may do after a use of freed memory is not modelled. That the reference being zero then fails
an assertion in the threads is the subject of `TestStand`.

### TestStand

One step per statement of `executeTest` that can fail or that touches the threads. Each call of
`start` has a number; the threads it creates, the statistic and the caches it installs go by that
number. `start` installs statistic and caches before it finds out that threads are running, as in
the code. A test ends with results (`Run`, which is also the handler of exceptions) or with an
`Error` that the handler does not catch (`RunError`); `Clear` may throw after either. The threads
are their loop tests and their calls into the native library. `RefusedForGood` is about a start that
is refused: the running threads then count into a statistic that is not theirs (`Mixed`), for good,
and nothing of it reaches a result. JUnit runs `@AfterAll` also when
`@BeforeAll` has failed.

### UT2Test

`AbstractUT2TestStand.runTest` after the clients have been started, together with the programs it
talks to. A round is one file size. The main thread's `pc` names the statement it is at; testing
`isAlive` and writing the command are two steps. Handlers are numbered by their round; the field
`requestsHandler` and the handler the server has are two variables, as they change at different
times. A response thread tests, enters the monitor and waits in separate steps. Storing
`lastRequestId` and `notifyAll` are one step: a thread that looks in between sees what it sees after
it, and a wake-up is at most what a time-out does anyway. A request is opened with the handler of
that moment and its chunk is handed over later, so a request of one round can reach the handler of
another. A client works off its pipe of commands as `client.cpp` does; a request that fails may
still reach the server after the client has gone on. What a response contains is left out: it is
whole or not. (The comparison in `client.cpp` line 144 is a `strncmp` and sees nothing after a zero
byte; the model takes the client's verdict as it is.)

The rounds do overlap: all clients write to one `lastRequestId`, so the first to finish ends the
wait for all, and with one request per client nothing waits at all. What keeps the results right is
that each client works off its commands in order and that the outputs are read after the exits.

### FileSending

`runTest` for one combination after the other and, inside it, one round per file size, on the main
thread; its labels are the statements that can fail. A client is identified by combination, round
and number; `id` is the number the stand gives it, which is the length of `clientThreads` at that
time, and `fileSize` is the static field that names the files. `Join` may end before the client
does. `Flags`, `Validate` and `GetError` are the three loops of `setUpTestResult`: the last two read
files and throw if one is missing. The client threads are `PureTcpClient.run` (`SendRequest`,
`ReadFully`, `TcpFails`), `AbstractQuicClient.run` (`StartProcess`, `WaitFor`) and
`QuicheClient.run` (`Exec`, `PollOutput`); processes end with or without an answer (`ProcessEnds`).

Two conditions matter. There are at most three clients, so that the joins of a round (300 s each) are
over before a `waitFor` of 900 s. And of the clients left behind, only those of the current
combination are followed, and TCP clients that are still in the list (`Observed`, `Kept`): the log
directory of a combination is renewed, and no result depends on the others.

`SuccessIsEarned` has an exception because the code has one: a TCP client that fails after it has got
a whole response once sets `success = true` at its end. `WritersApart` holds for a reason nobody
wrote down: a client that has not come to its last request makes `getError` throw on the missing
file, so no further round starts in which it could meet its successor's file names.

### JsonParser and ClientConfiguration

A text is a sequence of symbols. A line break stands for itself with its indentation, `net.` for the
network part of an address; digits stay single, because numbers can be cut in two. The recursive
calls of the parser are the stack `open`, and the document's stack is `stack`. `Step` takes one
symbol, `Run` a whole text (a recursive function over its positions), and `ParseStream` ends with the
document, which stays null after an error. `Close` is the end of an object or an array: its members
leave the stack and it takes the place of its head. Escapes, signs, fractions and exponents do not
occur in the configuration and are left out. Braces, quote and line break have names (`LeftBrace`,
`Quote` ...), under which the proofs speak of them. Numbers are written by `Decimal` and read by
`ParseDigit` (ports) and `NumberOf` (the last byte of an address).

`ClientConfiguration` is the loop of `runTest` over the clients: the file is truncated when it is
opened (`OpenWriter`), written in one piece when it is closed (it is shorter than the buffers on both
sides), cut off when the disk is full (`WriteFails`); the client is started; half a second passes,
however far the client has come (`Slept`). A client reads what is there, then asks again until
nothing comes, so a file that has been replaced by a longer one gives a mixture. `SetUp` and `Abort`
are the assertions of `configuration.cpp` and the pool that results, with one port per server
uninitialised. `late` remembers which clients had not read everything when the file was opened again.

A mixture never gets through: it has more after the end of the document, and is refused. (White space
after it is accepted.) A client that comes too late may however take the address of the next one.

## The runs

| Run | Shows | Instance |
|---|---|---|
| `window` | order, bounded overshoot, draining and sound reports under every interleaving | 5 packets of 1 or 2 bytes, capacity 2 or 3: enough for two pushes to fall between the walk and the store of one pop, twice; flushes that begin up to the second packet: enough for one within a count and another one after it |
| `window_wedge` | **violation**: an empty window refuses a packet that fits | same |
| `packet_loss` | the loss function drops what the profile says | 17 profiles, 13 packets (two to three periods), pauses 0, 1, 2 |
| `tunnel_test` | counters, reports, one pair of threads, refinement of `LossyLink` | 1 client, 1 server, 3 packets, 2 runs, loss with and without back-off |
| `tunnel_live` | no packet stuck under odd traffic, `stop` returns | 2 clients, 2 servers, 2 packets of 6 kinds |
| `native_tunnel` | the device is closed exactly once, its number used for no other file and no read without a packet as long as the object exists; a receiver accepts every checksum | 2 descriptors, 2 waiting packets, bytes of 4 values, words 1 and 15, lengths 0, 3, 8 |
| `test_stand` | at most one pair of threads, no results after a refused start, results complete, the suite ends | 3 test methods of 2 combinations, 2 file sizes |
| `stand_read_after_stop` | **violation**: `assert(tunnel)` in `readPacket` | same |
| `ut2_rounds` | outputs are read when complete; the awaited number is there in the end | 2 clients, 2 rounds, 2 requests, no faults |
| `ut2_faults` | results are earned, the test ends, no response thread waits for ever | 1 client, 2 rounds, 2 requests, 2 faults |
| `client_configuration` | clients run on whole configurations of this test only, and on their own unless overtaken | 3 clients, 2 servers, both modes |
| `file_sending` | results are earned, no two processes write to one file, the test ends | all three transports, 2 combinations, 2 file sizes, 1 client, 3 requests |

Bounds: `MaxPackets`, `LastFlush`, `MaxId` and `MaxRuns` end the input; nothing in the code depends
on them.
Three packets are enough for one to be in the window, one processed but not popped and one in a
cache; two runs for a packet to be left in the window from one to the next. The rates are so small
that a bucket is empty after one packet. `CHECK_DEADLOCK FALSE` is set where the input is bounded
(`CongestionWindow`, `PacketLoss`) and where the suite, the test, the process or the start of the
clients ends (`TestStand`, `UT2Test`, `FileSending`, `NativeTunnel`, `ClientConfiguration`).
Two clients are the fewest that can overwrite each other's `lastRequestId`, and two rounds the fewest
that can overlap; with faults too this takes more states than a run allows, so `ut2_faults` keeps
the two rounds, whose counters could mix, and gives up the second client. In `file_sending` the
interesting meetings are those of a client with its successor of the next file size or combination,
which has the same id; three requests leave one before and one after the request at which it is left
behind. In `client_configuration` the addresses end in one, two and three digits, so that a text can
be longer or shorter than the one before it; three clients let a client be overtaken twice. In
`native_tunnel` descriptor 0 is one that `init` accepts and the other calls take for none, with a
second one the number of the closed device can be given to another file, the words
1 and 15 carry soon and late, and the lengths are none, an odd one and one that an IP header can
have.

Fairness: the sending and receiving threads spin and are always runnable (`readPacket` returns after
at most a second), so each has weak fairness, as has the clock; in `CongestionWindow` no packet has
to arrive, so only the steps inside a push are fair. The main thread is fair inside `stop` and, in
`TestStand`, throughout, because every test waits for its clients with a time limit. In `UT2Test` the
main thread, the response threads (whose waits have limits) and the server are fair; the clients are
not, so that `RunEnds` holds whatever they do, and `WaitersEnd` is about tests that returned. In
`FileSending` only the main thread is fair, for the same reason. `NativeTunnel` and
`ClientConfiguration` have safety properties only.

## Proofs

Every invariant that a run checks is also proved, for all values of the constants that the named
assumptions allow. Each proof goes through an inductive
invariant (`IndInv`, `ThreadInv` ...), which adds to the properties what holds at each statement of
each thread. TLC has checked all of them on the instances of the runs (that of `ClientConfiguration`
with one server).

**CongestionWindowProofs**: `TypeOK`, `IsStream`, `PushRecountCovers`, `BoundedOvershoot`,
`ReportInRange`. Assumed are only that `MaxLength` and `MaxCapacity` bound the two sets, and that the
bounds of the model are natural numbers. `IndInv` adds:

* a walk has counted at least what it has passed and is still there (`Covers`), and has stopped at
  a `Boundary` between packets; so a walk that is over has counted at least what is in the window
  (lemmas `VisitCovers`, `WalkedCovers`);
* packets in the window are in order (`InOrder`), by pairs, which spares an induction over them;
* a pop's recount that waits to be stored is short only by what was pushed since its walk ended
  (`PendingPopStore`). The first such push adds at most `MaxLength`. Every further one has been
  tested against the recount of the push before it, which is not short, so it leaves the window
  within its capacity. Hence `ShortByOne`, and the overshoot of one packet, which does happen: TLC
  finds it when asked for a window within its capacity;
* a counter, and what a `++` or a flush has read of one, never exceeds the packets offered
  (`CountsOffered`), and before a torn flush the packet of every counted drop is counted, in the
  counters and in what is on its way to them (`CountsAgree`). `LocalsKnown` says what the locals are
  at each statement.

**PacketLossProofs**: `TypeOK`, `LossOnlyInGaps`, `GapsComplete`, `CutEndsGap`, `CutsAreEarned`, for
every profile. What the expressions of the code compute is in two lemmas: with Java's division,
`checkLossGap` is membership in a gap, or `Stray` (`CheckLossGapIs`), and `getResetId` is the next
multiple of the period (`GetResetIdIs`). From `-up <= x0 <= 0` that multiple lies past the end of the
gap that was cut and not past the start of the next one (`ResetAfterGap`, `ResetBeforeNextGap`). The
invariant adds that `resetId` is that of the last cut (`ResetKnown`), and that no more timestamps are
kept than packets have been dropped since then (`TimestampsEarned`). The proof of `LossOnlyInGaps`
failed at first on `up = 0`: that is how the stray losses were found.

**TunnelInterfaceProofs**: `TypeOK`, `Exclusive`, the refinement `ImplementsLink`, `Conservation`, and
for the traffic of the tests `LossIsTheProfile` and `ReportInRange`; in layers.

* `ThreadInv`: the types, `Exclusive`, and that a head which has been processed is there to be popped.
* `OrderInv`: numbers grow along the window; in a cache they grow too, are all of its lane, of ripe
  packets, and lower than those of that lane in the window. Hence a packet that is forwarded is the
  first of its lane, and each step is a step of `LossyLink` or none: `Receive` accepts, `Tick` is
  time, `ProcessPacket` delivers directly, loses the packet, or changes nothing when it puts it into a
  cache (the mapping moves it from window to cache), `Forward` delivers or loses, `Pop` changes
  nothing. `WellDeliveredHolds` then says what this gives: everything that was written is ripe, in
  order within its lane, and written once.
* `CountInv`: `Conservation`, with the places in the caches as a finite set that each step changes by
  one element at most.
* `StatInv`: what was sent is at most what was processed, at the moment that `ReadSent` reads as well;
  and the set of the numbers in gaps grows by one element or none with each call of `loss`.

`LossIsTheProfile` and `ReportInRange` have the hypothesis `TestTraffic`: every packet is UDP or TCP
and goes from a client to a server or back. The tests send nothing else, and the properties are false
without it: a packet that `apply` refuses is counted as processed but never as sent, one from client to
client is processed upward and sent downward, and one between servers is only counted as sent. The other theorems do without it.

**NativeTunnelProofs**, first part, about `Checksum`: `ChecksumTypeOK`, `SumIsCongruent`,
`ReceiverAccepts`, for every size of a byte from
four values, all words and lengths, and any tested bit. The sum in the register is the true sum
modulo `Base - 1` (`SumIsCongruent`) because adding a carry does not change the remainder
(`FoldKeepsRemainder`), whenever it is done, and because nothing is lost: two bytes or one word of the
pseudo header add at most `Base - 1` (`TotalBounded`), so the sum of the longest packet fits into two
words.

Second part, about `NativeTunnel`: `TypeOK`, `LeaksNothing`, `OwnDescriptor`, `ReadIsReady`, and `ReceiverAccepts` for
the composed system. `IndInv` says at which statements of the main thread the object, the reference
(`ObjectKnown`) and the device (`DeviceKnown`) are there, that native calls happen only between start
and join, or for good when `Tunnel_stop` comes first (`CallsKnown`), and that a flag which `poll` has
set is gone before the call returns, if the object still exists (`FlagsKnown`).

**TestStandProofs**: `TypeOK`, `OneOfEach`, `StopFindsThreads`, `RefusedForGood`, `PassedIsComplete`, for
any number of test methods, combinations and file sizes. `AliveIsNamed` and `ThreadsKnown` say which
threads may run, which the fields name and whose statistic is in force at each statement of
`executeTest`; `InterruptKnown`, that only a thread which `stop` is joining has been interrupted;
`StartsCounted` and `ResultsCounted` count starts and results by combination. `RefusedForGood` is an
action property: a thread that was left running has not been interrupted, so it goes on and the
fields keep naming it, and each start is refused (`MixedStaysMixed`).

**UT2TestProofs**: `TypeOK`, `ValidatedWhenDone`, `FinalIdReached`, `ResultsEarned`, for any number of
clients, rounds, requests and faults. `PipesKnown` and `ToldKnown`: the commands in the pipe of a client
are the next ones of 1, 2, ..., exit, up to the one the main thread is writing. `LoopKnown`,
`CountKnown`, `LinesKnown`: a client's counters are those of the round it is in, and the line it prints
says whether all requests of the round were answered. `LastIdKnown`: without faults, each client's
last number is stored after all its other ones, so when all have finished the last store was one of
these.

**FileSendingProofs**: `TypeOK`, `SuccessIsEarned`, `WritersApart`, for all three transports and any number
of combinations, sizes and requests, and up to three clients (`FileSendingAssumption`). The argument
that nobody wrote down is in `IndInv`:

* a client is in the list at the place its id says while its round lasts (`PositionKnown`), so ids in
  a round are apart (`IdsApart`), although the list may begin with clients of an earlier combination;
* a file has been begun by the client that its name suggests, and says ok only when that client's
  request was answered (`FilesKnown`); this needs that a QUIC client left behind starts no process
  under the new `fileSize` (`RoundsOver`). That holds because a round ends without an exception only
  if all threads are done, or if `getError` has found a file of the last request of each client
  (lemma `RoundOver`);
* so what `validateResponse` reads was written for the client it is read for (`ValidateEarned`).

**ClientConfigurationProofs**: `TypeOK`, `WholeTextOnly`, `ReadsBack`, `OwnUnlessOvertaken`, for any number
of clients and servers, all addresses and ports up to 65535, and whatever uninitialised memory holds;
and about the text alone: `ConfigurationReadsBack` (what is written for a client is read as it was
meant), `CutConfigurationRefused`, `LongerConfigurationRefused`. The proof has three layers.

* Recursion over data. The library's induction theorems have an operator as a parameter, which the
  provers cannot instantiate. Here induction is over a *set* of numbers: one that has 0 and the
  successor of each of its members has all of them (`SetInduction`), because a set of numbers that is
  not empty has a least one (`LeastNumber`). That a recursive function exists (`RunExists`,
  `DecimalIs`, `FirstExists`) is proved in the same way, and from it that `Run` takes one symbol after
  the other (`RunAppend`) and a text in two parts (`RunConcat`), and that `ParseDigit` and `NumberOf`
  undo `Decimal` (`RunDecimal`, `NumberOfDecimal`).
* The parser on a configuration. A `Place` is what the parser expects, the open calls and the stack;
  `Takes(x, t, y)` says that text `t` takes it from place `x` to place `y`. There is a lemma for each piece
  of the text, from the symbols (`TakesBreak`, `TakesComma`, `TakesOpenObject` ...) to names, strings and
  numbers, a server (`TakesServer`), the list of servers (`TakesElements`, by induction), and the whole
  (`TakesConfiguration`), which leaves `Doc(c)` on the stack. Every parser state keeps a shape
  (`IsParser`, `RunKeeps`), and one that has the root complete (`Done`) fails at the next symbol that
  is not white space. Hence a configuration that goes on is refused (`ParseLonger`); and since it ends
  with a brace, which a parser that is done refuses, no part of one that is cut short is a document
  (`ParseShorter`).
* The system. `FileInv` says what the file can hold at each statement of `runTest`: nothing, the
  configuration of the current client, or, after a failure, a beginning of one or one that no later
  client was started after. `TextInv`: what a client has read is nothing, a whole configuration of itself
  or of a later client and perhaps more, or what is left of one that is cut short. That is inductive
  although the file changes between two reads, because what is added to a whole configuration leaves it
  a prefix. `OwnInv`: a client that is not `late` has only ever seen its own configuration. `PoolInv`
  draws the conclusions for clients that have set their pool up.

What stays with TLC:

* liveness (`EveryByteTaken`, `EveryPacketLeaves`, `StopReturns`, `SuiteEnds`, `RunEnds`, `WaitersEnd`,
  `TestEnds`): the prover does not treat fairness;
* the two violations.

`SumIsCongruent`, `WellDelivered` and the `TypeOK` of `CongestionWindow`, `UT2Test`, `FileSending` and
`ClientConfiguration` are proved but not checked by a run of their own.

## Findings

Shown by a run:

* `window_wedge`: `tryToPush` may store a recount older than the pops that emptied the window: the
  window then refuses packets it has room for, until one small enough is pushed; if none is, for
  ever. The default capacity of 1 MB hides it; a capacity of a few packets would not.
* `stand_read_after_stop`: when `clear` throws, `stop` is skipped. Every later `start` then throws
  "Interface has been already started", and at the end of the suite `finish` deletes the native
  object while the threads use it.

Met while modelling, and part of the models:

* `pop` may store a recount older than a push: the window exceeds its capacity by up to one packet.
* The flush of the window's counters, which races with the count of a packet, loses counts or reports
  them twice; after one that ends within a count more packets can be reported as dropped than as sent
  to the window.
* A call that `finish` has overtaken works on the deleted `Tunnel` object, and may read from or write
  to a file that another part of the process has opened under the number of the device.
* The threads that a refused `start` finds running count into the statistic of the refused test, to
  the end of the suite.
* A profile that passes nothing (`up = 0`) and starts later (`x0 > 0`) drops a packet every period
  before it starts, since the division truncates (`PacketLoss.java`, line 18). No profile of
  `configuration.json` is like that.
* Packets between servers wait half a round trip like all others, although a comment
  (`TunnelInterface.java`, line 147) says they are delivered without delay.
* When `getError` throws, `clientThreads` is not cleared. The next combination starts the same
  threads again, which throws, and so do all combinations after it.
* An error of a TCP client is overwritten by `success = true` at the end of its loop.
* The result of `waitFor` with a time limit is ignored; `QuicheClient` keeps its process in a local
  variable, so that `clear` never destroys it.
* A UT2 client that needs more than half a second to read its configuration runs with the address of
  the next client, or aborts.
* A UT2 test that throws while it starts its clients leaves the started ones running.

Seen in code that is not modelled:

* The names of log directory and profile leave out the speed rate, so one combination deletes the
  results of another (`AbstractTestStand.java`, lines 89-98).
* `errorName` equals `outputName` (`AbstractQuicClient.java`, lines 14-15).
* `QuicheServer.clear` can return before it interrupts the thread that copies the output, which then
  spins at the end of the file; and the process it kills is whichever has the port open.
* The loop of `PureTcpServer` does not recognise the end of a stream and spins there.
* The executor of `OptClusterHandler` is never shut down: `stop` only cancels the timer, so every
  combination leaves a thread behind.

## Not modelled, and the plan

Left out for good:

* Reading and writing the device file, file system helpers, property files, logging, results as
  JSON: pure I/O and data carriers.
* Of vendored code everything but the part of RapidJSON that reads the configuration. RapidJSON is
  nearly all of the C and C++ in the repository (writer, schema, pointer, regular expressions,
  encodings, number formatting); the program calls none of that, and a model of it would say nothing
  about this system. The UT2 library and its headers and the Gradle wrapper are third-party code.
* The look-ups by name in `java_api.cpp`, and `main.cpp`, which is not part of the build.
* The host list that the cluster handler sends (`OptClusterHandler`): a message format of the UT2
  library. Of `ClusterUtils.hosts` the models use that it lists the servers of the test.
* The swap of `htons` (`ClientConfiguration`): a bijection on the ports.
* In `FileSending`: an exception of `getPacketLoss` after a successful round, and a client that gives
  up before its log file exists.
* `bannedDevices` (nothing adds to it) and the counters of packets by type (only printed).
* The threads that copy the output of a process, and those of `PureTcpServer`.

Still to be done, in this order:

1. Addresses (`apply` and the way back of a packet) over the bytes of a packet.
2. `CongestionWindow` under `TunnelInterface`: that the FIFO of the packet path, which may refuse any
   packet, is implemented by the window with its races.
