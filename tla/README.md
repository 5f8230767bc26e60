# TLA+ models of the DNS workbench

TLA+ specifications of the DNS workbench of this repository, the TLC
configurations that check them on small instances, and TLAPS proofs about its
components for every value of their parameters. `PROJECT.json` lists the
runs, the mutants that each property is shown to notice, the lines each
definition models, the hazards the properties aim at and the theorems.

    tlc -workers 2 -config MCXskWorker.cfg MCXskWorker.tla         # one run
    tlapm XskWorkerProofs.tla                                      # one proof

## 1. The system

The workbench measures DNS load generators and DNS servers. A controller
(Python, `load_testing_benchmark`) drives client hosts that run load tools and
a server host that runs either `dns_responder` (C, AF_XDP) or a real DNS
service, all over SSH. Two standalone tools go with it: a packet timestamper
(`packet_capture`) and a generator of zone and query files (`zone_generation`).

| Component | State it keeps | Operations | What is hard | What makes it correct |
|---|---|---|---|---|
| AF_XDP queue (`dns_responder/src/af_xdp.c`) | UMEM frames, free stack, four rings, counters | populate, refill, reclaim, peek/process/release RX, reserve/write/submit TX, kick | the kernel works on the rings at every instruction; full rings; a stop inside a wait | one owner per frame, no frame lost, no ring overrun, balanced counters, no wait without end |
| Responder process (`main.c`) | XDP attachment, per-queue UMEM and socket, threads, `running` | setup, launch, wait, join, collect, cleanup | eleven setup calls that can fail at any queue, signals, unsynchronised counters | threads only on live queues, final report, nothing left behind, it ends |
| RX timestamps and window (`af_xdp.c`, `main.c`, `stats.c`) | log per worker, min/max fields, merge cursors | record, grow, merge, window | failing allocations, ties, idle queues, initial values | sorted and complete file, exact window |
| DNS packets (`dns.c`, `net.h`, `xdp/`) | none (one packet at a time) | filter, parse, answer in place | lengths, extra sections, checksum | consistent response |
| Load-impact campaign (`scripts/load_impact.py`, `benchmark/dns_servers.py`) | current service and test, daemons on the server | stop, start, probe, clear, test | crash, hang, slow stop, timeouts, exceptions | measures the right service, local failures, everything stopped |
| One load-impact test (`scripts/load_impact.py`, `benchmark/collectl.py`) | collectl session, trail file, tools, result rows | start, margin, load, save, wait, copy, crop | processes that start late, fail or hang; two clocks; a failure between two rows | samples from the load of their own row, rows whole or absent, patience |
| Throughput and accuracy campaigns (`scripts/max_throughput.py`, `qps_accuracy.py`, `benchmark/remote.py`, `dns_responder.py`) | responder sessions, shared files on the server, rows | session, concurrent tools, wait, copies, row | stale files, late responder, timeouts, local tools | rows from their own run, complete, it ends |
| Packet capture (`packet_capture/dns_timestamp.py`) | attached programs, BPF ring buffer, capture file | attach, reserve, submit, poll, detach | CPUs side by side, full ring, end of capture, calls that raise | each packet accounted for once, cause before effect, it ends |
| Capture analysis (`dns_timestamp_analyze.py`) | times waiting under each ID | read, pair, compare hosts | record layout, repeated IDs, losses | reads what was written (it does not: section 5); the rest is not modelled |
| Zone generation (`zone_generation/`) | pattern position, open part file, query file | one record at a time | remainders, file boundaries, floats, a failing write | every record once, every query answerable, shares kept |
| Metrics (`results.py`) | bins, series | compute, export | empty bins | not modelled (section 7) |
| Service scripts, configuration, tool adapters, charts, installation | files | one-shot commands | — | not modelled (section 7) |

How they interact: the kernel and a worker share the rings; the main thread and
the workers share `running` and, after the join, the counters and logs; the
controller starts a responder over SSH and later copies the file it wrote at
its end; the controller and the service scripts share the daemons, and all
daemons share port 53; a test and collectl share the trail file; the capture
programs and their reader share the ring buffer, and the analysis reads the
files that the readers of both hosts have written.

## 2. Modules

| Module | Models | Used by |
|---|---|---|
| `FrameLease` | abstract specification: who may touch a frame | refined by `XskWorker` |
| `XskWorker` | one queue, its worker in each of the three modes, the kernel | |
| `XskWorkerProps` | its properties, and the refinement mapping to `FrameLease` | `MCXskWorker` |
| `XskWorkerProofs` | proofs about the queue, and that it implements `FrameLease` | |
| `Responder` | one responder process; relies on `XskWorker`'s `StopTerminates` for its workers | `MCResponder` |
| `ResponderProofs` | proofs about it | |
| `TrafficLog`, `TrafficLogProps` | timestamps, traffic window, merge | `MCTrafficLog` |
| `DnsPacket`, `DnsPacketProps` | one packet: XDP filter, scan, answer in place, checksum | `MCDnsPacket` |
| `PacketProofs` | proofs about the packets and the checksum, and about the merge and the window of `TrafficLog` | |
| `ImpactCampaign` | load-impact campaign and the daemons | `MCImpactCampaign` |
| `ImpactTest` | the campaign's step `RunTest` in detail, with collectl | `MCImpactTest` |
| `ImpactCampaignProofs` | proofs about the campaign and about one test | |
| `ThroughputCampaign` | throughput/accuracy campaign and its responders; relies on `Responder` for what a responder does at its end | `MCThroughputCampaign` |
| `ThroughputCampaignProofs` | proofs about it | |
| `PacketCapture` | capture programs, ring buffer, reader, the network around them | `MCPacketCapture` |
| `PacketCaptureProofs` | proofs about the capture | |
| `CaptureFile` | the file as `PacketCapture` writes it and as the analysis reads it back | `MCCaptureFile` |
| `ZoneGenerator` | records, part files, query file | `MCZoneGenerator` |
| `ZoneGeneratorProofs` | proofs about the parts, the queries and the shares of the types | |
| `Induction` | lemmas: induction over numbers, running sums | `PacketProofs`, `ImpactCampaignProofs`, `ZoneGeneratorProofs` |

The operators under "Mistakes the properties must notice" (`...No...`,
`...TooMany` and so on) are not used by the specifications. Each is a plausible
bug in the definition it is named after; put in its place, it makes the named
property fail (`mutants` in `PROJECT.json`).

### XskWorker

A frame address `i * frame_size` is the number `i`. `at[p]` is the sequence of
frames in place `p`: the free stack, the fill, RX, TX and completion rings, the
worker's `tx_addrs[]` (`batch`) and the driver (`nic`). A ring entry is written
before it is submitted: `fillVis` and `txVis` say how many entries the kernel
can see. A consumed slot is read before it is released: `rxHeld` and `compHeld`
count those, which still take room in their rings. `pc` and `n` are the
worker's position and loop counter. Each iteration of a loop over frames is a
step, so the kernel acts in the middle of every batch. The three worker
functions share one loop; `CountsRejected` and `Answers` are where they differ.

The kernel (`Receive`, `Transmit`, `GiveUp`, `Complete`) is
external, modelled from the AF_XDP contract the code relies on: it takes a
frame from the fill ring for each packet (without one the packet is lost, which
changes nothing in the queue), transmits after a kick, sets a
completion slot aside before it does, and completes what it took. `GiveUp` is a
kick that ends early, which `kick_tx` cannot see; `KernelGivesUp` is the set of
worker modes it may happen in, so that one run has queues with and without it.
`MaxArrivals` bounds the packets of each mode.

A loop of `SubmitFill` that ran out of frames submits its unwritten slots, as
the code does: they hold address 0 in a fresh ring, any address in a used one.

### Responder

`pc` and `q` are the position of `main()` and the queue of its current loop.
Every call that can fail has a failing action. `thread`, `seen` and `reported`
relate the workers' live counters to the copies in `all_stats`. A failed
`pthread_create` leaves `threads[q]` undefined: zero or not, and joining a value
that is not zero may crash (`JoinCrashes`). After a failed `mmap` the area of a
queue is `failed` (`MAP_FAILED`), which the cleanup hands to `munmap` in vain.
The signal handler is taken to run
on the main thread, the only one the process has until the workers start.

### TrafficLog

Times are ticks; packets in one tick share a timestamp, so ties occur. `Never`
is `UINT64_MAX`. `launched` is the set of workers whose thread was created,
which a failure may cut short. `handled` is a history variable: the times a
worker really handled packets at, against which the window is compared.

### DnsPacket

The one module on the level of bytes, because its properties are about offsets,
lengths and a checksum: `pkt` is the frame as a function from offsets to bytes,
`len` its length, `at` how far it has come. `Filter` is the XDP program,
`AnswerQuery`, `NotImplemented` and `Reject` the three ways out of
`process_dns_packet`, `NxDomain` and `RejectShort` those of
`process_nxdomain_packet`. Writes happen in place in the code's order. The
checksum adds words in the byte order of the CPU, as the code does; the
properties verify it in network order. `XskWorker` abstracts this module to the
choice between `AnswerOne` and `DiscardOne`. RDATA is abstracted to its length.
"Malformed" means by the bytes of the frame, as in the code: padding after a
truncated question counts as part of it. `DnsPacketProps` reads query and
response as a client would, with a declarative definition of a name.
`FrameAssumption` says what a client sends: bytes, in a frame that has room for
them and for the longest answer, and an IPv4 header of at least the five words
that its fixed fields take (`Frame` writes those, so a shorter `ihl` is not
among the inputs; the code's own test for it is part of the guard).

### ImpactCampaign

`proc[v]` is the daemon of a service: down, starting, up, hung or stopping.
Probes are answered by whoever holds port 53. `astray` is a history variable: a
command whose effect the campaign lost sight of. `clearing` holds the services
whose cache clear timed out while their script restarts the daemon: only the
local ssh is killed, so the script may still stop and start its daemon at any
later time (`LateClear`), also when another service is being tested. Services are distinct daemons
(in the repository the `ns_` and `resolver_` variants of bind and of unbound
share one). The two seconds after a stop (load_impact.py:261) are taken to be
enough for a daemon to go.

### ImpactTest

The function that `RunTest` stands for. Time passes in ticks of one collectl
sample, and no tick passes a deadline that is due, so the margin, the timeouts
of the tools and the wait for collectl end when the code says. `coll` is the
collectl process on the server, `trail` the file it writes (that of an earlier
campaign stays when ssh fails), `tool[h]` the tool of a client. A sample is the
Boolean "every tool was running"; what the columns hold is abstracted away.
Processes launched at a tick begin up to `Skew` ticks later. Every phase may
fail where the code catches or raises.

### ThroughputCampaign

One module for the two scripts, which share everything but what they read at
the end; `accuracy` says which one it is. `resp[r]` is the responder of run `r`,
`file[f]` the run whose responder wrote file `f` on the server last, `copy[f]`
what the controller fetched, `wrote[r]` what the responder of run `r` got
written: it writes the statistics, and then, for the accuracy campaign, the
timestamps, which that campaign copies, reads and removes as well. The SSH
session is taken to live as long as the responder. One responder at a time can
bind the queues of the interface. A client in `LocalHosts` is localhost, as in
the default configuration: the kill at the timeout reaches only the shell, and
`ssh_run` waits on, without a limit, for a tool that outlives it
(`KilledReturns`).

### PacketCapture and CaptureFile

A packet is `<<k, 0>>`, query `k`, or `<<k, 1>>`, its response; the captured
host is the server or the client. `stage` says what has become of each packet;
a response is due when its query has gone past this host. A program reserves a
slot in the ring (`Reserve`), later fills in the time and submits (`Submit`),
with other CPUs in between; a slot without a time is not taken by the reader
and holds up those behind it. A full ring (`Lose`) and a missing program
(`Miss`) let the packet pass without an event. The reader is the whole of
`main()`: the two attachments with their failures, the polls, the test of the
duration, the last drain, the detachments. `bpftool` may name another capture's
program of the same name (`tc = "other"`). `lost` and `missed` are history.

`busy` is other DNS traffic that comes faster than a poll returns: while it
lasts no poll ends, and the ring may be full of it for any of our packets. It
may set in and leave off at any time. A write may fail (`WriteFails`: the
exception in the callback loses the event), a poll may raise (`PollRaises`),
and so may the flush, the close and the detachment of XDP (`CloseFile`,
`RemoveXdp`): what comes after is then not done, and the programs stay attached.

`CaptureFile` takes the file of `PacketCapture` as 4-byte words, so that the
size of a written record and of a record read are two different things, and
reads the words as both readers of the analysis do. `RecordsRead` compares.
What the analysis then computes is not modelled (section 7).

### ZoneGenerator

One turn of the loop over the records is one step. A record is its number, the
number of the address that makes its name, and the type it is stored as. The
quotient that shares out the remainder is computed with floats; `cfg.short` is
the set of types for which an exact quotient comes out one less, so every
rounding is covered. Writing a record or the main zone file may fail
(`WriteFails`, `MainFails`). The types are those of a dict in its order, so each is
there once. Wording of headers and record data is left out.

## 3. Runs

| Run | Question | Bounds | States |
|---|---|---|---|
| `xsk` | safety and liveness of one queue in each of the three modes, refinement, answers sent | 5 frames, rings of 2, batches of 2, 4 or 5 packets, early give-ups in DNS mode | ~309 000 |
| `responder` | process life cycle | 2 queues, duration 0 and 2, all zero-copy options, 2 packets, 2 signals | ~17 000 |
| `responder_signal` | finding: signal before `pause()` | 1 queue, 1 signal | violation |
| `traffic_log` | merge of the logs, window of -T and of -t | 2 queues, 3 packets each, 4 ticks, initial capacity 1, failing allocations | ~191 000 |
| `traffic_window` | finding: an idle queue with -t | 2 queues, 1 packet each, 2 ticks | violation |
| `dns_packet` | responses delivered, to the question asked, rejections | 8 names, 7 types, with and without EDNS, IP options, padding; all truncations of 3 queries; IPv6 and other ports | ~8 900 |
| `impact` | campaign over misbehaving services | 3 services (2 restart on clear), 2 tests each | ~389 000 |
| `impact_test` | one test: whose samples, which rows, how long to wait | 2 clients, 3 ticks of load, margin 0 and 1, skew 1 | ~481 000 |
| `throughput` | rows, shared files, timeouts | a local and a remote client, 2 runs of either campaign | ~56 000 |
| `capture` | events accounted for, their order, the end | 2 CPUs, 2 queries, ring of 2, both hosts, with and without a duration, other traffic | ~819 000 |
| `capture_records` | finding: records of 32 bytes read as 28 | as `capture` | violation |
| `zone` | records, queries and shares | 0 to 7 records, 3 types of weight 0 to 2, parts of 1 to 3, 2 and 8 addresses | ~18 000 |

Why the bounds are enough. With 5 frames and rings of 2, frames are scarce and
plentiful, every ring gets full and empty, the TX wait is entered, the
completion ring blocks the driver, and `free` runs dry. Five packets fill two
batches and block a third one behind a full completion ring, four fill two. The
refill cap (half a ring) is smaller than a batch, so a refill takes several
turns. Capacity 1 makes the log grow twice in three
packets. A packet is
handled on its own, so the packet run enumerates inputs instead of histories:
both sides of each limit of the scan (63 and 64, the end of the packet, a
pointer), each template, and what may follow a question. Three services are needed for a leftover of a first service to meet a
third one. Two runs let an
abandoned responder of the first write into the second, between its own
responder's two files too. Two queries on two CPUs submit out of order and fill
a ring of two. In a test of 3 ticks the skew, the grace
and the margin are each as long as one sample, so every order of the ends of
tools and collectl occurs. Seven records in parts of three have full, last and
single parts, and every remainder of every pattern up to six long.
`CHECK_DEADLOCK FALSE` is set everywhere because each of these programs
ends; that they end only where they should is what the liveness properties say.

## 4. Fairness

* `XskWorker`: weak fairness of the worker (a running thread is scheduled);
  strong fairness of `Transmit`, because each kick is a new occasion that an
  early return may waste, and the worker's wait keeps kicking; weak fairness of
  `Complete`, because a driver completes what it took. No packet and no stop is
  obliged to come.
* `Responder`: weak fairness of the main thread and of each worker's return,
  which `StopTerminates` of `XskWorker` justifies. No signal is obliged to come.
* `ImpactCampaign`: weak fairness of the script and of a daemon that was told to
  stop. Every command of the script's own loop goes through `ssh_run` with a
  timeout; on a local host the killed shell's children are taken to end.
* `ThroughputCampaign`: weak fairness of the script but for its copies, of the
  kill at a tool's timeout, and of the return of `ssh_run` after the kill on
  remote hosts, where the killed process is the ssh client that holds the pipes.
  No responder, tool, copy (`scp_from` has no timeout) or killed local tool is
  obliged to end, so `Terminates` says that the campaign finishes or is held up
  for ever by one of the last two (`HeldUp`).
* `PacketCapture`: weak fairness of the reader, of the passing of its duration,
  and of each program that has reserved a slot (a BPF program runs to its end).
  No packet and no signal is obliged to come, no call to raise, and the other
  traffic is not obliged to leave off: `CaptureEnds` has that as its premise.
* `TrafficLog`, `DnsPacket`, `ImpactTest` and `ZoneGenerator` state safety only
  and assume none.

`AnswersSent` is claimed for the modes without early give-ups only: a batch whose
kick is cut short waits for the next kick, which silence may withhold.

## 5. Findings

| Run | What the code does |
|---|---|
| `responder_signal` | `running` is tested before `pause()` (main.c:480-481): a SIGINT in between is lost |
| `traffic_window` | with `-t` a queue that logged nothing leaves 0 as its first timestamp (main.c:503), where stats.h:21 says `UINT64_MAX` and dns_responder/README.md:182 the time from the first packet: the window begins with the run |
| `capture_records` | `DnsEvent` is written with its padding, 32 bytes (dns_timestamp.py:352), and read in steps of `RECORD_SIZE` = 28: only the first record is read right |

Further observations, which no run checks as a finding:

* `-f` below the ring size: `xsk_populate_fill_ring` submits every slot even if
  it ran out of frames (af_xdp.c:124), so one frame is given out several times.
  The theorems about the queue therefore assume `FrameCount >= RingSize`.
* A service whose start or probe failed is skipped ahead of the `finally` that
  stops it (load_impact.py:275, 317); the next service's first stop gets it.
* A failed responder leaves the previous statistics file in place, and its exit
  status is not looked at (dns_responder.py:60-68, 103); likewise a trail of
  an earlier campaign is filed when collectl could not be started
  (load_impact.py:83). `FreshIfServed` and `SamplesFromLoad` exclude the cases.
* A collectl that died within twice the margin leaves a trail that is not
  cropped at all (`Crop`): its samples may all be from before the load.
* The ring buffer's losses are not counted: the drop counter the capture prints
  is never updated (dns_timestamp.py:335), though packet_capture/README.md:80
  tells its reader to look at it ("If you see drops"). `EachEventOnce` keeps the
  books with history variables.
* packet_capture/README.md:41 says of `--duration` "Seconds to capture", but
  `ring_buffer_poll` takes events as long as there are any, and the reader looks
  at its duration and at the flag of the signal handler only between two polls:
  under DNS traffic that never lets the ring run empty the capture does not end.
  `CaptureEnds` holds from the time on when that traffic leaves off.
* A signal or an error in the set-up of a capture, a poll, flush or close that
  raises leave its programs attached.
* On a local client, the default, a tool that outlives its shell holds a
  campaign up for good (remote.py:28-30), and so may a copy (remote.py:154);
  `Terminates` says that nothing else does.
* With more records than addresses names repeat, and a CNAME may stand beside
  other data; `QueriesAnswerable` demands otherwise only without repetition.

## 6. Proofs

Nothing is assumed but the named assumptions on the constants in each module
and, for the queue, one more. Every safety proof has the same plan: an
inductive invariant `Inv`, the initial states have it, each action keeps it
(one step per action, split by conjunct where the action disturbs it), it
implies the property, and a last temporal step.

**Queue.** The theorems hold for every `FrameCount`, `RingSize`, `BatchSize`,
`DefaultBatchSize`, set of modes and number of packets that `WorkerAssumption`
admits, and under `FrameCount >= RingSize`, without
which `OneOwner` fails (section 5). `WorkerAssumption` bounds the
batch by `DEFAULT_BATCH_SIZE`, which the code does not check.

* `Counting` (XskWorkerProofs): `[](TypeOK /\ NoLeak /\ RingsFit /\ CleanExit)`,
  with `Capacities` and `WorkerExit` as corollaries.
  None of the parts is inductive alone. `CountInv` adds `LoopOK`, which relates
  the loop counter to the rings at each label: in a fill loop `n` frames are in
  the pool and `n` slots in the ring; in a peek loop `n` entries are there to
  read; in the write loop the reserved slots are free. Only from these does it
  follow that a submit never publishes an unwritten slot.
* `Ownership`: `[]OneOwner`, from `CountInv` and `OneOwner` itself; each kind of
  move (`Move`, `Free`) preserves it by a lemma about sequences.
* `Accounting` (XskWorkerProofs): `[](BooksBalance /\ OneResponsePerQuery)`,
  with `CountInv` for the value of `n` at the write loop; `Responses` is its
  corollary.
* `Refinement`: `Spec => LeaseSpec`. `HolderOf` reads the
  holder of a frame off its place; with `OneOwner` every step moves at most one
  frame, along an arrow of the lease, and the rest are stuttering steps.
  Ownership is what makes `HolderOf` a function of the place.

**Packet.** `RejectedHolds`, `DeliveredHolds`, `MatchesHolds` (PacketProofs),
for frames of any size up to 65535 and any set of queries that
`FrameAssumption` admits, so for every content of a message. All of it is about
one step per packet; what is hard is what the step computes.

* The scan is recursive from the end of the packet back, and a name is a set of
  places where labels start. By induction over the bytes, from the end of the
  packet to the question, the scan gives at each offset the length of the one
  name that starts there, or 0 when none ends early enough (`ScanFinds`): a
  label before a name makes a name, and a name without its first label is one.
  With it the code's guard and the existence of a name coincide
  (`FitsIffNamed`), which is `RejectedHolds`.
* A query's frame has its IP header, its lengths and its bytes where the code
  looks for them (`FrameReceived`). `AskedInv` keeps that until the worker
  acts, `RepliedInv` says that what is sent is the composition of the writes
  of one of the three functions.
* Each write is described by the bytes it puts and those it leaves
  (`SwapHeadersAre`, `DnsHeaderIs`, `FinishIs`, `AnswerIs`), so that their
  order can be followed to the frame that is sent (`NxDomainResponse`,
  `NotImplementedResponse`, `AnswerResponse`): a later write does not touch what
  an earlier one made, with or without IP options.
* `ChecksumVerifies`: for every sum of up to 30 words the folded and
  complemented sum makes a receiver's sum a multiple of 65535, and not zero.
  `FoldSum` shows that two carries are enough. The code adds the words as a
  little-endian CPU reads them, the receiver in network order; modulo 65535 one
  sum is 256 times the other (`EitherOrder`).

In the model, the scan is written with IF rather than CASE: a CASE chooses among
its true branches, and the provers do not see that only one is.

**Process.** `WorkersSafe`, `ReportSafe`, `ExitClean`, `ZeroCopySafe`
(ResponderProofs), for any number of queues up to `MAX_QUEUES`. The four
properties speak of single moments; the invariant adds the order of the loops:
queues before `q` are ready while the setup runs, threads exist only from the
launch loop on and none runs behind the join loop, resources before `q` are
gone while the release runs, and the mode new sockets get agrees with the
option, the XDP mode and the sockets already made.

**Campaigns.** `MeasuresRight`, `TestsAccounted`, `TestedStopped`
(ImpactCampaignProofs), for any number of services and tests. `Alone` is the
reason a test measures its service: unless a command went astray, all other
daemons are down from the sleep after the first stop on; `clearing` is empty
unless one did. `Counted` gives the
sum of the three counters for the services done, the current one and the rest;
`StepKinds` and `TestsCounted` reduce the sixteen steps of the script to "one
test ends" and "none does".
`RowsFresh`, `RowsWaitForAll` (ThroughputCampaignProofs), for any number of
runs and clients: a responder of an earlier run that has not ended was
abandoned, so whoever overwrites a file of a run that is done is known.

**Capture.** `EventsAccounted`, `EventsCausal` (PacketCaptureProofs), for any
number of CPUs and queries and any ring. Both are about `file \o ring`, which a
poll does not change (`MoveHead`). The invariant adds that the CPUs hold
different packets, which are held; that only the event of a held packet lacks
its time, that no such event is in the file, and that no time is ahead of the
clock; and that a response comes after its query has passed. From the last two
it follows that the query's event has its time when the response's slot is
reserved, and that a later submit gives a later time. A failed write takes one
event out of the middle of `file \o ring` and leaves those on either side in
their order (`WriteFailsEvents`).

**Zone.** `PartsAlwaysExact` (ZoneGeneratorProofs), for any types, weights,
number of records, size of a part and rounding. The invariant is `i = fileIdx *
perFile + fileCount` with a place for the next record as long as there is one
(`PlaceOK`); `EnoughParts` shows that `num_files` parts hold all records and one
less does not, so at the end the open part is the last one.

`QueriesAlwaysAnswerable`: query `k` is the one of record number `k - 1`, and
each record written has the name of its number and the type its query asks for
or the one this is stored as (`Faithful`). `PlaceOfNumber` adds that a finished
zone holds each number in exactly one place: the quotient and the remainder by
`perFile` are unique (`SamePlace`). So a query's record exists, and with enough
addresses it is the only one of its name.

`SharesAlwaysKept`: the argument has three layers.

* A pattern is built one turn at a time, turn `k` coming to type `TypeAt(k)` in
  round `RoundOf(k)`. After `k` turns a type has been come to `Passed` times and
  taken as often as that, up to its count (`Had`), and the pattern holds each
  type that often (`Spaced`). After the last round this is the count of each
  type, so both patterns have the intended length and composition
  (`InterleavedAre`). Here the types must be distinct, as the keys of
  `record_weights` are (`ZoneAssumption`).
* The shares of the remainder do not add up to more than it (`SumOverScaled`),
  so what the most common type gets on top is not negative (`RemainingAre`).
* The loop has `a` whole rounds of the primary pattern and `x` places of the
  current one behind it, and each type has been asked for accordingly
  (`Turned`, `PatternInv`). The switch happens at `MainCount` exactly, where `x`
  is a whole round (`AtSwitch`); with a switch one record late it would not be.

At the end each type has `a * weight` records from the rounds and its count in
the remainder, which `ShareOfAll` shows to be its share of all records.

**Timestamps.** `MergeExactHolds`, `WindowExactHolds` (PacketProofs), for any
number of queues, packets, ticks, initial capacity and whichever allocation
fails. A log is sorted because the clock does not go back (`DataInv`); the
cursors stay in the logs and no time already merged is later than one still to
come (`OrderHolds`); every time is in the file as often as it is in the logs
before the cursors (`LinesInv`), and `Written` counts both. What makes `Best`
right is that the sentinel of the search is never below a logged time. For the
window, which with -t is claimed when no queue was idle, each worker's fields are the extremes of what it handled (`MinMaxInv`)
or its log is what it handled (`WorkerInv`), and `WindowIs` reduces the fold of
`stats_aggregate` to a lowest and a highest.

**One load-impact test.** `RowsWholeHolds`, `PatienceHolds`,
`SamplesFromLoadHolds` (ImpactCampaignProofs), for any number of clients,
runtime, margin, skew and grace. `TimeInv` relates the clock to the begin of
collectl and of each tool; `TrailInv` says which samples the trail holds: one
per tick since collectl began, and one that was not taken under load was taken
before some tool began or after it ended (`Absent`); `MetricsInv` that what was computed is the crop of that trail. The
bound on samples outside the load is a count of ticks before the last tool
began and after the first one ended (`OutsideOne`, `SpreadIs`, `CropIs`).
`SamplesFromLoadHolds` assumes `Runtime > 0`: with a runtime of zero and a
margin a trail of twice the margin is not cropped, and the property is false.
Nothing in the code checks the configured runtime, but a test of no duration
is no test.

**Induction.** The induction theorems of the library take a predicate as a
parameter, which no installed prover can instantiate. `Induction` states them
with sets instead: a set of natural numbers has a least element
(`LeastElement`, from well-foundedness of `<`), so what holds at 0 and is kept
from `n` to `n + 1` holds up to any bound (`UpTo`). From it follow that a
recursive sum defines something (`SumsExist`) and what it grows by
(`SumsGrow`): that is how the totals over queues and clients, which the models
write as recursive functions, enter the proofs.

**Bounds on the steps.** `ProcessBounded` (ResponderProofs), `CampaignBounded`
(ImpactCampaignProofs, ThroughputCampaignProofs). `StepsLeft` counts what a main
thread or a script has left at most, from where it stands, the queue, test,
service or run it is at and, in the responder, the seconds that remain, the
state of `running` and the one retry of a socket. Every step of its own leaves
fewer, no step of the others leaves more, and none is left only at the end. So a
responder takes at most 7 steps for each queue, one for each second and 8 more,
the impact campaign 6 for each test and 7 for each service, the throughput
campaigns 8 for each run, whatever fails, hangs or times out and however often.
These are the safety half of `ProcessEnds`, `SignalEnds` and the two
`Terminates`: nothing goes round for ever. The other half, that none of them is
blocked for ever before the end, speaks of `ENABLED` and of fairness and is what
the runs check.

Model-checked only: the liveness properties (fairness and `ENABLED` are outside
the prover's reach). Every invariant, the action property and the refinement
that the passing runs check are also proved.

## 7. Not modelled

* Answers over IPv6: the filter redirects such queries and `DnsPacket` models
  what then happens to them, but no property demands anything of it.
* Option parsing, detection of the queue count, printing, CPU pinning.
* `benchmark/results.py` beyond the order in which rows are added: bins,
  medians and trimmed means are floating-point statistics over finished files.
* `generate_aaaa_zone.py`: one loop that prints one record per address.
* Building tool commands, parsing tool output, configuration files, charts and
  replotting, installation and environment
  collection: one-shot transformations of text without state.
* The service scripts themselves: environment of `ImpactCampaign`. Zone
  deployment: file copies one after another.
* Cache warm-up, the columns of a collectl trail, the export, dry runs of the
  throughput campaigns.
* The second release of a UMEM after a failed `xsk_umem_init`, and the
  detachment of another process's XDP program: modelled or noted as hazards,
  without a property.
* What the capture's analysis computes (pairing, drop counts, percentiles, rates,
  histograms): it starts from what `read_events` returns, and from the second
  record on that is not what was captured (`capture_records`), so there is
  nothing true to say of its figures before the layout is mended.
* A grandchild that outlives a killed local command, in the commands of the
  impact campaign and in `ImpactTest`: `ssh_run` is taken to return after the
  kill there. `ThroughputCampaign` models it.

## 8. What could follow

* The pairing and the drop counts of the analysis, once a record is read as it
  was written.
* `ImpactTest` as a refinement of `ImpactCampaign`'s step `RunTest`.
