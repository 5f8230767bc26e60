--------------------------- MODULE PacketCapture ---------------------------
(***************************************************************************)
(* The packet timestamper (packet_capture/dns_timestamp.py) on one host of *)
(* a DNS exchange: the XDP and TC programs, which run on every CPU and put *)
(* an event into the BPF ring buffer for each DNS packet, and the reader,  *)
(* which attaches them, polls the ring into the capture file until its     *)
(* duration is over or a signal comes, and detaches them again.            *)
(*                                                                         *)
(* A packet is << k, qr >>: query k (qr = 0) or its response (qr = 1).     *)
(* All of them pass the filter of process_packet (IPv4, UDP, port 53 and   *)
(* four bytes of DNS).  Beside them there may be other DNS traffic, whose  *)
(* events keep the ring from running empty; any other packet changes       *)
(* nothing.                                                                *)
(***************************************************************************)
EXTENDS Integers, Sequences

CONSTANTS
  Cpus,         \* the CPUs the two programs run on
  Roles,        \* the captured host: "server", or "client"
  NumQueries,   \* bound: queries of one run
  RingSize,     \* --ringbuf-pages-order, in events
  Durations     \* the values of --duration: 0 means until a signal

ASSUME CaptureAssumption ==
  /\ Roles \subseteq {"server", "client"}
  /\ NumQueries \in Nat /\ RingSize \in Nat
  /\ Durations \subseteq Nat

VARIABLES
  cfg,       \* [role, duration]
  pc,        \* where the reader is
  xdp, tc,   \* the programs attached; tc may be another capture's program
  running,   \* the flag of main()
  expired,   \* the duration is over
  stage,     \* what has become of each packet: ahead, held by a program,
             \* passed, or gone (lost on the network)
  cpu,       \* the packet whose event each CPU has reserved
  ring,      \* events in the ring buffer, in the order of their reservation
  clock,     \* bpf_ktime_get_ns
  busy,      \* other DNS traffic comes faster than polls return
  file,      \* events written to the capture file
  lost,      \* history: packets whose reservation or writing failed
  missed     \* history: packets that passed without our program

reader  == <<cfg, pc, xdp, tc, running, expired>>
kernel  == <<stage, cpu, clock, busy, lost, missed>>
vars    == <<reader, kernel, ring, file>>

Queries == 1..NumQueries
Packets == Queries \X {0, 1}
Idle    == << >>

(* 0 = RX, 1 = TX: the server receives queries, the client sends them.      *)
Direction(p) == IF cfg.role = "server" THEN p[2] ELSE 1 - p[2]

Init ==
  /\ cfg \in [role : Roles, duration : Durations]
  /\ pc = "xdp"
  /\ xdp = "none" /\ tc = "none"
  /\ running = TRUE /\ expired = FALSE
  /\ stage = [p \in Packets |-> "ahead"]
  /\ cpu = [c \in Cpus |-> Idle]
  /\ ring = << >>
  /\ clock = 0
  /\ busy \in BOOLEAN
  /\ file = << >>
  /\ lost = {} /\ missed = {}

Goto(label) == pc' = label

-----------------------------------------------------------------------------
(* Mistakes the properties must notice. *)

(* A clock too coarse to tell a query from its response. *)
SubmitCoarse(c) ==
  /\ cpu[c] # Idle
  /\ clock' = 1
  /\ ring' = [i \in 1..Len(ring) |->
               IF ring[i].pkt = cpu[c] THEN [pkt |-> cpu[c], ts |-> 1] ELSE ring[i]]
  /\ stage' = [stage EXCEPT ![cpu[c]] = "passed"]
  /\ cpu' = [cpu EXCEPT ![c] = Idle]
  /\ UNCHANGED <<reader, busy, file, lost, missed>>

(* The flag is set anew from the duration and forgets a signal. *)
CheckDurationOnly ==
  /\ pc = "check"
  /\ running' = ~(cfg.duration > 0 /\ expired)
  /\ Goto("while")
  /\ UNCHANGED <<cfg, xdp, tc, expired, kernel, ring, file>>

-----------------------------------------------------------------------------
(* process_packet, run by the XDP program (RX) or the TC program (TX).      *)

(* Queries are sent in the order of their numbers; the response to a query  *)
(* follows once the query has been let through and is not lost on its way.  *)
Due(p) ==
  /\ stage[p] = "ahead"
  /\ IF p[2] = 0 THEN p[1] > 1 => stage[<<p[1] - 1, 0>>] # "ahead"
                 ELSE stage[<<p[1], 0>>] = "passed"

(* The network loses a packet of the peer's before this host sees it, or    *)
(* one of this host's before the peer does.                                 *)
Drop(p) ==
  /\ \/ Direction(p) = 0 /\ Due(p)
     \/ /\ Direction(p) = 1 /\ stage[p] = "passed"
        /\ p[2] = 0 => stage[<<p[1], 1>>] = "ahead"
  /\ stage' = [stage EXCEPT ![p] = "gone"]
  /\ UNCHANGED <<reader, cpu, clock, busy, lost, missed, ring, file>>

Watched(p) == IF Direction(p) = 0 THEN xdp = "own" ELSE tc = "own"

(* A mistake: a buffer that overwrites its oldest event when it is full.    *)
ReserveOverwrites(c, p) ==
  /\ cpu[c] = Idle /\ Due(p) /\ Watched(p)
  /\ Len(ring) = RingSize => Head(ring).ts > 0
  /\ cpu' = [cpu EXCEPT ![c] = p]
  /\ stage' = [stage EXCEPT ![p] = "held"]
  /\ ring' = Append(IF Len(ring) = RingSize THEN Tail(ring) ELSE ring,
                    [pkt |-> p, ts |-> 0])
  /\ UNCHANGED <<reader, clock, busy, file, lost, missed>>

(* ringbuf_reserve: the slot is in the ring, and the reader cannot go past  *)
(* it before it is submitted.                                               *)
Reserve(c, p) ==
  /\ cpu[c] = Idle /\ Due(p) /\ Watched(p)
  /\ Len(ring) < RingSize
  /\ cpu' = [cpu EXCEPT ![c] = p]
  /\ stage' = [stage EXCEPT ![p] = "held"]
  /\ ring' = Append(ring, [pkt |-> p, ts |-> 0])
  /\ UNCHANGED <<reader, clock, busy, file, lost, missed>>

(* The ring is full, of these packets or of other traffic: the packet       *)
(* passes and nothing counts it.                                            *)
Lose(c, p) ==
  /\ cpu[c] = Idle /\ Due(p) /\ Watched(p)
  /\ Len(ring) = RingSize \/ busy
  /\ stage' = [stage EXCEPT ![p] = "passed"]
  /\ lost' = lost \union {p}
  /\ UNCHANGED <<reader, cpu, ring, clock, busy, file, missed>>

(* No program of ours is attached on the packet's way. *)
Miss(p) ==
  /\ Due(p) /\ ~Watched(p)
  /\ stage' = [stage EXCEPT ![p] = "passed"]
  /\ missed' = missed \union {p}
  /\ UNCHANGED <<reader, cpu, ring, clock, busy, file, lost>>

(* The time, the other fields and ringbuf_submit; then the packet goes on.  *)
Stamped(p) == [i \in 1..Len(ring) |->
                 IF ring[i].pkt = p THEN [pkt |-> p, ts |-> clock + 1] ELSE ring[i]]

Submit(c) ==
  /\ cpu[c] # Idle
  /\ clock' = clock + 1
  /\ ring' = Stamped(cpu[c])
  /\ stage' = [stage EXCEPT ![cpu[c]] = "passed"]
  /\ cpu' = [cpu EXCEPT ![c] = Idle]
  /\ UNCHANGED <<reader, busy, file, lost, missed>>

Submitted(e) == e.ts > 0

-----------------------------------------------------------------------------
(* The reader: main(). *)

(* b.attach_xdp, which raises when it cannot. *)
AttachXdp ==
  /\ pc = "xdp"
  /\ \/ xdp' = "own" /\ Goto("tc")
     \/ UNCHANGED xdp /\ Goto("crashed")
  /\ UNCHANGED <<cfg, tc, running, expired, kernel, ring, file>>

(* attach_tc_egress: no qdisc or no filter, and the capture goes on with RX *)
(* only; or the program of that name which bpftool lists first, ours or one *)
(* that another capture has loaded.  b.load_func raises when it cannot.     *)
AttachTc ==
  /\ pc = "tc"
  /\ \/ tc' \in {"none", "own", "other"} /\ Goto("open")
     \/ UNCHANGED tc /\ Goto("crashed")
  /\ UNCHANGED <<cfg, xdp, running, expired, kernel, ring, file>>

(* The output files, the header and the signal handlers.  An OSError here,  *)
(* like a signal before the handlers are installed, ends the process with   *)
(* its programs still attached.                                             *)
OpenOutput ==
  /\ pc = "open"
  /\ pc' \in {"while", "crashed"}
  /\ UNCHANGED <<cfg, xdp, tc, running, expired, kernel, ring, file>>

While ==
  /\ pc = "while"
  /\ Goto(IF running THEN "poll" ELSE "drain")
  /\ UNCHANGED <<cfg, xdp, tc, running, expired, kernel, ring, file>>

(* One event of ring_buffer_poll: handle_event writes it to the file. *)
Consume ==
  /\ pc \in {"poll", "drain"}
  /\ ring # << >> /\ Submitted(Head(ring))
  /\ file' = Append(file, Head(ring))
  /\ ring' = Tail(ring)
  /\ UNCHANGED <<reader, kernel>>

(* A poll returns when there is nothing more to take, and not before.       *)
EndPoll ==
  /\ pc \in {"poll", "drain"}
  /\ (ring # << >> => ~Submitted(Head(ring))) /\ ~busy
  /\ Goto(IF pc = "poll" THEN "check" ELSE "close")
  /\ UNCHANGED <<cfg, xdp, tc, running, expired, kernel, ring, file>>

(* handle_event raises: the event is out of the ring and not in the file.   *)
WriteFails ==
  /\ pc \in {"poll", "drain"}
  /\ ring # << >> /\ Submitted(Head(ring))
  /\ lost' = lost \union {Head(ring).pkt}
  /\ ring' = Tail(ring)
  /\ UNCHANGED <<reader, stage, cpu, clock, busy, missed, file>>

(* A poll raises: nothing in the last one; and before that the end of the   *)
(* loop when a signal has come, or else the end of the process, with its    *)
(* programs still attached.                                                 *)
PollRaises ==
  /\ pc \in {"poll", "drain"}
  /\ Goto(IF pc = "drain" THEN "close" ELSE IF running THEN "crashed" ELSE "drain")
  /\ UNCHANGED <<cfg, xdp, tc, running, expired, kernel, ring, file>>

(* The duration is looked at between two polls. *)
CheckDuration ==
  /\ pc = "check"
  /\ running' = (running /\ ~(cfg.duration > 0 /\ expired))
  /\ Goto("while")
  /\ UNCHANGED <<cfg, xdp, tc, expired, kernel, ring, file>>

(* The flush, the close and the two detachments; the first three raise when *)
(* they cannot, and what comes after them is not done.                      *)
CloseFile ==
  /\ pc = "close"
  /\ pc' \in {"removeXdp", "crashed"}
  /\ UNCHANGED <<cfg, xdp, tc, running, expired, kernel, ring, file>>

RemoveXdp ==
  /\ pc = "removeXdp"
  /\ \/ xdp' = "none" /\ Goto("removeTc")
     \/ UNCHANGED xdp /\ Goto("crashed")
  /\ UNCHANGED <<cfg, tc, running, expired, kernel, ring, file>>

CleanupTc ==
  /\ pc = "removeTc"
  /\ tc' = "none"
  /\ Goto("done")
  /\ UNCHANGED <<cfg, xdp, running, expired, kernel, ring, file>>

Reader == \/ AttachXdp \/ AttachTc \/ OpenOutput    \/ While     \/ Consume
          \/ EndPoll   \/ CheckDuration \/ CloseFile \/ RemoveXdp \/ CleanupTc

Over  == {"done", "crashed"}
Setup == {"xdp", "tc", "open"}

Raises == WriteFails \/ PollRaises

(* handle_signal once it is installed; the default action before.           *)
Signal ==
  /\ pc \notin Over /\ running
  /\ IF pc \in Setup THEN Goto("crashed") /\ UNCHANGED running
                     ELSE running' = FALSE /\ UNCHANGED pc
  /\ UNCHANGED <<cfg, xdp, tc, expired, kernel, ring, file>>

Expire ==
  /\ pc \notin Setup \union Over /\ ~expired
  /\ expired' = TRUE
  /\ UNCHANGED <<cfg, pc, xdp, tc, running, kernel, ring, file>>

-----------------------------------------------------------------------------
Program(c) == Submit(c) \/ \E p \in Packets : Reserve(c, p) \/ Lose(c, p)

(* The other traffic sets in, or leaves off. *)
Traffic ==
  /\ busy' = ~busy
  /\ UNCHANGED <<reader, stage, cpu, clock, lost, missed, ring, file>>

Next == \/ Reader \/ Raises \/ Signal \/ Expire \/ Traffic
        \/ \E c \in Cpus : Program(c)
        \/ \E p \in Packets : Miss(p) \/ Drop(p)

Spec == Init /\ [][Next]_vars

(* The reader runs, time passes, and a BPF program that has reserved a slot *)
(* runs to its end.  No packet and no signal is obliged to come, no call to *)
(* raise, and the other traffic not to leave off.                           *)
FairSpec == /\ Spec
            /\ WF_vars(Reader) /\ WF_vars(Expire)
            /\ \A c \in Cpus : WF_vars(Submit(c))

-----------------------------------------------------------------------------
TypeOK ==
  /\ cfg \in [role : Roles, duration : Durations]
  /\ pc \in Setup \union Over
            \union {"while", "poll", "check", "drain", "close", "removeXdp", "removeTc"}
  /\ xdp \in {"none", "own"} /\ tc \in {"none", "own", "other"}
  /\ running \in BOOLEAN /\ expired \in BOOLEAN
  /\ stage \in [Packets -> {"ahead", "held", "passed", "gone"}]
  /\ cpu \in [Cpus -> Packets \union {Idle}]
  /\ ring \in Seq([pkt : Packets, ts : Nat]) /\ Len(ring) <= RingSize
  /\ file \in Seq([pkt : Packets, ts : Nat])
  /\ clock \in Nat /\ busy \in BOOLEAN
  /\ lost \subseteq Packets /\ missed \subseteq Packets

Captured    == file \o ring
Events      == DOMAIN Captured
Pkt(i)      == Captured[i].pkt
Ts(i)       == Captured[i].ts

(* The packets this host has had on its interface. *)
Seen(p) == /\ stage[p] # "ahead"
           /\ stage[p] = "gone" => Direction(p) = 1

(* Every DNS packet this host sends or receives is accounted for exactly    *)
(* once: by an event in the file, by one still in the ring, by a failed     *)
(* reservation or a failed write, or by passing while our program was not   *)
(* on its way; and no packet has two events.  Nothing in the tool keeps     *)
(* these books: its drop counter stays 0 whatever the ring loses.           *)
EachEventOnce ==
  /\ \A i, j \in Events : Pkt(i) = Pkt(j) => i = j
  /\ \A i \in Events : Pkt(i) \notin lost \union missed
  /\ lost \intersect missed = {}
  /\ \A p \in Packets :
       Seen(p) <=> p \in lost \union missed \/ \E i \in Events : Pkt(i) = p

(* The file keeps cause before effect: the event of a query stands before   *)
(* the event of its own response and carries the smaller time, whichever    *)
(* CPUs took them.  (Two events of different queries may stand in the       *)
(* wrong order of time.)                                                    *)
CausalOrder ==
  \A i, j \in Events :
    Pkt(i)[2] = 0 /\ Pkt(j) = <<Pkt(i)[1], 1>> =>
      i < j /\ 0 < Ts(i) /\ (Ts(j) > 0 => Ts(i) < Ts(j))

(* The capture ends after a signal or after its duration, if traffic does   *)
(* not keep a poll from returning for ever: main() looks at its flag and at *)
(* the time between two polls only.                                         *)
CaptureEnds ==
  <>[]~busy =>
    ((pc \notin Setup /\ (~running \/ (expired /\ cfg.duration > 0))) ~> pc \in Over)
=============================================================================
