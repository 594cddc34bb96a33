------------------------------ MODULE Packets ------------------------------
(***************************************************************************)
(* The packets on the serial line (include/mbot/messages.hpp): checksum()  *)
(* and encode_msg().  A byte is a number below PktBase; lengths and topics *)
(* take two bytes, the low one first.                                      *)
(*                                                                         *)
(* External: the line, which may change one byte, and the receiver, which  *)
(* takes a packet when its flags and both checksums are right.             *)
(***************************************************************************)
EXTENDS Sums, SequencesExt

CONSTANTS
  PktBase,  \* values of a byte, 256 in the code
  MaxMsg    \* bound on the length of a message

ASSUME PacketsAssumption == PktBase \in Nat \ {0, 1, 2} /\ MaxMsg \in Nat

VARIABLES
  pkt,     \* rospkt
  sent,    \* what was encoded, or Refused
  damaged, \* a byte was changed on the line
  heard    \* what the receiver takes the packet for, or Refused

packetVars == <<pkt, sent, damaged, heard>>

Byte == 0 .. PktBase - 1
Refused == [msg |-> <<>>, topic |-> -1]

SYNC_FLAG == PktBase - 1
VERSION_FLAG == PktBase - 2
ROS_HEADER_LENGTH == 7
ROS_PKG_LENGTH == ROS_HEADER_LENGTH + 1

\* Mutant: what it is given is not looked at.
BugChecksum(addends) == PktBase - 1

checksum(addends) == PktBase - 1 - (SumOf(addends) % PktBase)

Low(x)  == x % PktBase

High(x) == (x \div PktBase) % PktBase

\* encode_msg() when the buffer has the right length.
Encoded(msg, topic) ==
  LET len == <<Low(Len(msg)), High(Len(msg))>>
      body == <<Low(topic), High(topic)>> \o msg
  IN <<SYNC_FLAG, VERSION_FLAG>> \o len \o <<checksum(len)>> \o body \o <<checksum(body)>>

\* The sanity check: the buffer is as long as the packet.
Fits(msg, len) == Len(msg) + ROS_PKG_LENGTH = len

-----------------------------------------------------------------------------
PacketInit == pkt = <<>> /\ sent = Refused /\ damaged = FALSE /\ heard = Refused

\* A buffer of len bytes is filled, or left alone and -1 returned.
Encode(msg, topic, len) ==
  /\ pkt = <<>>
  /\ IF Fits(msg, len)
     THEN pkt' = Encoded(msg, topic) /\ sent' = [msg |-> msg, topic |-> topic]
     ELSE pkt' = [i \in 1 .. len |-> 0] /\ UNCHANGED sent
  /\ UNCHANGED <<damaged, heard>>

Damage(i, b) ==
  /\ ~damaged /\ i \in DOMAIN pkt /\ pkt[i] # b
  /\ pkt' = [pkt EXCEPT ![i] = b] /\ damaged' = TRUE /\ heard' = Refused
  /\ UNCHANGED sent

\* The receiver's reading of the packet format.
Accepted(p) ==
  /\ Len(p) >= ROS_PKG_LENGTH /\ p[1] = SYNC_FLAG /\ p[2] = VERSION_FLAG
  /\ (p[3] + p[4] + p[5] + 1) % PktBase = 0
  /\ Len(p) = p[3] + PktBase * p[4] + ROS_PKG_LENGTH
  /\ (SumOf(SubSeq(p, 6, Len(p))) + 1) % PktBase = 0

Receive ==
  /\ pkt # <<>>
  /\ heard' = (IF Accepted(pkt)
               THEN [msg |-> SubSeq(pkt, 8, Len(pkt) - 1), topic |-> pkt[6] + PktBase * pkt[7]]
               ELSE Refused)
  /\ UNCHANGED <<pkt, sent, damaged>>

PacketNext ==
  \/ \E msg \in SeqOf(Byte, MaxMsg), topic \in 0 .. PktBase * PktBase - 1,
        len \in 1 .. MaxMsg + ROS_PKG_LENGTH : Encode(msg, topic, len)
  \/ \E i \in 1 .. MaxMsg + ROS_PKG_LENGTH, b \in Byte : Damage(i, b)
  \/ Receive

-----------------------------------------------------------------------------
(* Correctness.                                                            *)

\* The receiver takes an encoded packet for the message and the topic that
\* were encoded, and never takes a packet with one wrong byte for anything.
HeardRight == heard # Refused => ~damaged /\ heard = sent

\* Every packet that encode_msg() made, and only such a packet, is accepted
\* when it arrives undamaged.
EncodedIsAccepted == pkt # <<>> /\ ~damaged => (Accepted(pkt) <=> sent # Refused)

\* Both: the line between encode_msg() and a receiver of its format loses no
\* packet and invents none.
ReceivedAsSent == HeardRight /\ EncodedIsAccepted
=============================================================================
