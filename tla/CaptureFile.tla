---------------------------- MODULE CaptureFile ----------------------------
(***************************************************************************)
(* The capture file: what the capture writes (packet_capture/              *)
(* dns_timestamp.py) and what the analysis reads back                      *)
(* (packet_capture/dns_timestamp_analyze.py), which all its latencies and  *)
(* drop counts are computed from.                                          *)
(*                                                                         *)
(* The file is a sequence of 4-byte words, least significant byte first.   *)
(* A clock fits one word here, so the upper word of a time is 0.           *)
(***************************************************************************)
EXTENDS PacketCapture

CONSTANTS
  RecordWords   \* words of one record written: sizeof(DnsEvent) / 4

-----------------------------------------------------------------------------
(* Writing: write_file_header and bytes(evt) of handle_event.               *)

(* What an event says, once it is read. *)
Fields(e) == [time |-> <<e.ts, 0>>, src |-> 1 + e.pkt[2], dst |-> 2 - e.pkt[2],
              txid |-> e.pkt[1], direction |-> Direction(e.pkt), qr |-> e.pkt[2]]

Magic      == 1
HeaderSize == 16
Header     == << Magic, 1 + 64 * 2^16, 28, 7, 7, 5, 5, 0 >> \o [i \in 1..8 |-> 9]

DnsPort    == 53
PacketSize == 80

Word(f, w) ==
  CASE w \in {1, 2} -> f.time[w]
    [] w = 3 -> f.src
    [] w = 4 -> f.dst
    [] w = 5 -> DnsPort + DnsPort * 2^16
    [] w = 6 -> f.txid + PacketSize * 2^16
    [] w = 7 -> f.direction + f.qr * 2^8
    [] OTHER -> 0

Written ==
  Header \o [i \in 1..(RecordWords * Len(file)) |->
               Word(Fields(file[(i - 1) \div RecordWords + 1]),
                    ((i - 1) % RecordWords) + 1)]

-----------------------------------------------------------------------------
(* Reading: read_header, read_events and read_events_numpy.                 *)

RECORD_SIZE == 7      \* 28 bytes

ReadHeader(words) == [magic |-> words[1], clocks |-> SubSeq(words, 4, 7),
                      hostname |-> SubSeq(words, 9, 16)]

ReadEvent(data, i) ==
  LET at(w) == data[i * RECORD_SIZE + w]
  IN  [time |-> <<at(1), at(2)>>, src |-> at(3), dst |-> at(4),
       txid |-> at(6) % 2^16,
       direction |-> at(7) % 2^8, qr |-> (at(7) \div 2^8) % 2^8]

ReadEvents(words) ==
  LET data == SubSeq(words, HeaderSize + 1, Len(words))
  IN  [i \in 1..(Len(data) \div RECORD_SIZE) |-> ReadEvent(data, i - 1)]

-----------------------------------------------------------------------------
(* What was written is what is read: DnsEvent matches the layout that       *)
(* RECORD_SIZE and both readers assume (dns_timestamp.py:145).              *)
RecordsRead ==
  /\ ReadHeader(Written).magic = Magic
  /\ ReadEvents(Written) = [i \in DOMAIN file |-> Fields(file[i])]
=============================================================================
