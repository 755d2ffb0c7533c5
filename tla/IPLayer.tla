------------------------------- MODULE IPLayer -------------------------------
(***************************************************************************)
(* IPLayer: IPv4 packets made by create_packet, handed to the kernel by    *)
(* send_packet, damaged or not on the way, and taken apart by parse_packet.*)
(*                                                                         *)
(* A header is its 20 bytes in memory; of the payload there is the length. *)
(* NetworkUtils sums the header in words of the host's byte order, so the  *)
(* model says what that order is.                                          *)
(***************************************************************************)
EXTENDS Integers, Sequences

CONSTANTS
  LittleEndian,   \* the host's byte order
  Addresses,      \* addresses, as four bytes each
  Protocols,
  Lengths,        \* sizes of the payloads handed to the layer
  Sizes,          \* bound: sizes a packet may be cut to on its way
  Changed,        \* bound: what a byte damaged on its way may become
  Ids             \* bound: values of packet_id_ with which packets are made

Byte == 0 .. 255
Word == 2^16
HeaderSize == 20

ASSUME IPAssumption ==
  /\ LittleEndian \in BOOLEAN
  /\ Addresses \subseteq [1 .. 4 -> Byte]
  /\ Protocols \subseteq Byte
  /\ Lengths \subseteq Nat /\ Sizes \subseteq Nat /\ Changed \subseteq Byte
  /\ Ids \subseteq 0 .. Word - 1

VARIABLES
  packet_id_,
  packet,     \* the packet at hand: its header, and its size in bytes
  payload,    \* where in the packet what parse_packet returned lies
  stage,      \* what became of the packet
  asked,      \* history: what the packet was made of
  faults      \* history: what happened to the packet since

vars == <<packet_id_, packet, payload, stage, asked, faults>>

Header == [1 .. HeaderSize -> Byte]
Packet == [header : Header, size : Nat]
Requests == [src_ip : Addresses, dst_ip : Addresses, protocol : Protocols, length : Lengths]

NoPacket == [header |-> [i \in 1 .. HeaderSize |-> 0], size |-> 0]
NoRequest == [src_ip |-> [i \in 1 .. 4 |-> 0], dst_ip |-> [i \in 1 .. 4 |-> 0],
              protocol |-> 0, length |-> 0]
-----------------------------------------------------------------------------
(* Headers and checksums *)

High(n) == n \div 256
Low(n) == n % 256

\* The i-th 16-bit word of a header, in network order and as the host reads it.
NetWord(h, i) == 256 * h[2 * i - 1] + h[2 * i]
HostWord(h, i) ==
  IF LittleEndian THEN h[2 * i - 1] + 256 * h[2 * i] ELSE NetWord(h, i)

\* A mutant: the last word is left out.
accumulate_short(h) ==
  HostWord(h, 1) + HostWord(h, 2) + HostWord(h, 3) + HostWord(h, 4) + HostWord(h, 5)
    + HostWord(h, 6) + HostWord(h, 7) + HostWord(h, 8) + HostWord(h, 9)

checksum_accumulate(h) ==
  HostWord(h, 1) + HostWord(h, 2) + HostWord(h, 3) + HostWord(h, 4) + HostWord(h, 5)
    + HostWord(h, 6) + HostWord(h, 7) + HostWord(h, 8) + HostWord(h, 9) + HostWord(h, 10)

\* The sum with its carries added until there is none: for the sum of ten words
\* twice is enough.
AddCarryOnce(sum) == (sum % Word) + (sum \div Word)
AddCarry(sum) == AddCarryOnce(AddCarryOnce(sum))

calculate_checksum(h) == (Word - 1 - AddCarry(checksum_accumulate(h))) % Word

\* The header with its checksum field, the sixth word, set in network order.
WithChecksum(h, sum) == [h EXCEPT ![11] = High(sum), ![12] = Low(sum)]

\* A mutant: the field counts in the sum.
validate_in_place(h) == NetWord(h, 6) = calculate_checksum(h)

validate_checksum(h) == NetWord(h, 6) = calculate_checksum(WithChecksum(h, 0))

\* Version 4, 5 words; Don't Fragment; time to live 64.
create_ip_header(src_ip, dst_ip, protocol, payload_length) ==
  LET length == (HeaderSize + payload_length) % Word IN
  <<69, 0, High(length), Low(length),
    High(packet_id_), Low(packet_id_), 64, 0,
    64, protocol, 0, 0,
    src_ip[1], src_ip[2], src_ip[3], src_ip[4],
    dst_ip[1], dst_ip[2], dst_ip[3], dst_ip[4]>>

\* payload.size() becomes a uint16_t on its way to create_ip_header.
NewHeader(r) ==
  create_ip_header(r.src_ip, r.dst_ip, r.protocol, r.length % Word)

\* The checksum of a host that follows RFC 791: the sum of the words in network order.
StandardChecksum(h) ==
  Word - 1 - AddCarry(NetWord(h, 1) + NetWord(h, 2) + NetWord(h, 3) + NetWord(h, 4)
                        + NetWord(h, 5) + NetWord(h, 6) + NetWord(h, 7) + NetWord(h, 8)
                        + NetWord(h, 9) + NetWord(h, 10))

get_version(h) == h[1] \div 16
get_header_length(h) == 4 * (h[1] % 16)
total_length(h) == NetWord(h, 2)

\* Mutants: the length of the header is not checked against, and that of the packet.
AcceptsWrapped(p) ==
  /\ p.size >= HeaderSize
  /\ get_version(p.header) = 4
  /\ get_header_length(p.header) \in HeaderSize .. p.size
  /\ total_length(p.header) <= p.size
  /\ validate_checksum(p.header)

AcceptsCut(p) ==
  /\ p.size >= HeaderSize
  /\ get_version(p.header) = 4
  /\ get_header_length(p.header) \in HeaderSize .. p.size
  /\ total_length(p.header) >= get_header_length(p.header)
  /\ validate_checksum(p.header)

\* The tests of parse_packet.
Accepts(p) ==
  /\ p.size >= HeaderSize
  /\ get_version(p.header) = 4
  /\ get_header_length(p.header) \in HeaderSize .. p.size
  /\ total_length(p.header) \in get_header_length(p.header) .. p.size
  /\ validate_checksum(p.header)

\* The part of the packet that is copied to payload.
PayloadOf(p) == [from |-> get_header_length(p.header), to |-> total_length(p.header)]
-----------------------------------------------------------------------------

Init ==
  /\ packet_id_ \in Ids
  /\ packet = NoPacket
  /\ payload = [from |-> 0, to |-> 0]
  /\ stage = "nothing"
  /\ asked = NoRequest
  /\ faults = {}

\* A packet is made after the last one was taken apart: one does not bear on another.
Made(r, h) ==
  /\ packet_id_ \in Ids /\ stage # "made"
  /\ packet_id_' = (packet_id_ + 1) % Word
  /\ packet' = [header |-> h, size |-> HeaderSize + r.length]
  /\ stage' = "made"
  /\ asked' = r
  /\ UNCHANGED payload

create_packet(r) ==
  /\ Made(r, WithChecksum(NewHeader(r), calculate_checksum(NewHeader(r))))
  /\ faults' = {}

\* The kernel fills in the checksum of a packet it is given with IP_HDRINCL.
send_packet(r) ==
  /\ HeaderSize + r.length < Word
  /\ Made(r, WithChecksum(NewHeader(r), StandardChecksum(NewHeader(r))))
  /\ faults' = {"kernel"}

\* sendto may fail, and does when the packet is too long: the identification is spent.
send_packet_fails ==
  /\ packet_id_ \in Ids /\ stage # "made"
  /\ packet_id_' = (packet_id_ + 1) % Word
  /\ UNCHANGED <<packet, payload, stage, asked, faults>>

\* On the way a byte of the header is changed, or the end of the packet is lost.
Damage(i, b) ==
  /\ stage = "made" /\ faults = {}
  /\ packet.header[i] # b
  /\ packet' = [packet EXCEPT !.header[i] = b]
  /\ faults' = {"damaged"}
  /\ UNCHANGED <<packet_id_, payload, stage, asked>>

Cut(size) ==
  /\ stage = "made" /\ faults = {}
  /\ size < packet.size
  /\ packet' = [packet EXCEPT !.size = size]
  /\ faults' = {"cut"}
  /\ UNCHANGED <<packet_id_, payload, stage, asked>>

parse_packet ==
  /\ stage = "made"
  /\ \/ /\ Accepts(packet)
        /\ stage' = "accepted"
        /\ payload' = PayloadOf(packet)
     \/ /\ ~Accepts(packet)
        /\ stage' = "refused"
        /\ UNCHANGED payload
  /\ UNCHANGED <<packet_id_, packet, asked, faults>>

Next ==
  \/ \E r \in Requests : create_packet(r) \/ send_packet(r)
  \/ send_packet_fails
  \/ \E i \in 1 .. HeaderSize, b \in Changed : Damage(i, b)
  \/ \E size \in Sizes : Cut(size)
  \/ parse_packet

Spec == Init /\ [][Next]_vars
-----------------------------------------------------------------------------
Parsed == stage \in {"accepted", "refused"}

\* Every variable has its type.
TypeOK ==
  /\ packet_id_ \in 0 .. Word - 1
  /\ packet \in Packet
  /\ payload \in [from : Nat, to : Nat]
  /\ stage \in {"nothing", "made", "accepted", "refused"}
  /\ asked \in Requests \cup {NoRequest}
  /\ faults \in {{}, {"kernel"}, {"damaged"}, {"cut"}}

\* A packet of create_packet that nothing happened to is accepted, with the
\* addresses and the protocol asked for and the whole payload, as long as its
\* length fits the header's field: whatever its identification and its checksum
\* are.  (create_packet, create_ip_header, parse_packet)
RoundTrip ==
  Parsed /\ faults = {} /\ HeaderSize + asked.length < Word
    => /\ stage = "accepted"
       /\ payload = [from |-> HeaderSize, to |-> HeaderSize + asked.length]
       /\ \A i \in 1 .. 4 : /\ packet.header[12 + i] = asked.src_ip[i]
                            /\ packet.header[16 + i] = asked.dst_ip[i]
       /\ packet.header[10] = asked.protocol

\* A packet with one byte of its header changed is refused.  (validate_checksum)
DamagedIsRefused == Parsed /\ faults = {"damaged"} => stage = "refused"

\* What is copied to the payload lies inside the packet, also when the length in
\* the header says otherwise.  (parse_packet)
PayloadIsInside ==
  stage = "accepted" => HeaderSize <= payload.from /\ payload.from <= payload.to
                        /\ payload.to <= packet.size

\* The length in the header is that of the packet modulo 2^16.  For every length
\* asked for: the packet is refused exactly if that leaves less than a header, and
\* otherwise what is missing of the payload is its last bytes, a multiple of 2^16
\* of them.  (create_ip_header, parse_packet)
MissingInWholeWords ==
  Parsed /\ faults = {}
    => /\ stage = "refused" <=> (HeaderSize + asked.length) % Word < HeaderSize
       /\ stage = "accepted"
            => /\ payload.from = HeaderSize
               /\ ((HeaderSize + asked.length) - payload.to) % Word = 0

\* A packet whose checksum the kernel filled in, over the words in network order,
\* passes the test on a host of that order, and on one of the other order exactly
\* when the two bytes of its checksum are the same: the sum of the words with their
\* bytes swapped is the sum with its bytes swapped.  (calculate_checksum, send_packet)
KernelPacketsByByteOrder ==
  Parsed /\ faults = {"kernel"}
    => (stage = "accepted" <=> ~LittleEndian \/ packet.header[11] = packet.header[12])
-----------------------------------------------------------------------------
(* What the documentation says and the code does not do *)

\* "RFC 791 compliant IPv4 implementation": what send_packet sends is accepted.
SentIsAccepted == Parsed /\ faults = {"kernel"} => stage = "accepted"

\* "RFC 791 compliant IPv4 implementation": a packet that is accepted has its whole
\* payload.
NothingIsCutOff == stage = "accepted" /\ faults = {} => payload.to = packet.size
=============================================================================
