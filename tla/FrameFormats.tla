---------------------------- MODULE FrameFormats ----------------------------
(***************************************************************************)
(* The frames that L1DistributionHandler sends: the encoding of triggers,  *)
(* the MRP, UDP, IP and Ethernet headers, their 16-bit length fields and   *)
(* their checksums, and what a receiver that uses EthernetUtils makes of   *)
(* a frame that may have been damaged on its way.                          *)
(*                                                                         *)
(* A frame is a record of sequences of 16-bit words in network byte order; *)
(* an IP address is a sequence of four bytes.                              *)
(***************************************************************************)
EXTENDS Integers, Sequences, SequencesExt

CONSTANTS
  Events,         \* the events that are requested
  Groups,         \* the multicast groups
  Unicasts,       \* the unicast addresses of Initialize
  GatewayMAC,     \* StringToMAC(gatewayMAC)
  MyIP,           \* NetworkHandler::GetMyIP()
  Port,           \* source and destination port
  MaxTriggers,    \* bound: triggers in a frame whose contents are modelled
  MaxHeader,      \* bound: triggers a header is made for
  BadWords        \* what a damaged word may have become

\* The values of a byte, of a 16-bit word and of an IP address.
UINT8 == 0..255

UINT16 == 0..65535

Address == [1..4 -> UINT8]

Destinations == Groups \cup Unicasts

ASSUME FormatsAssumption ==
  /\ \A e \in Events :
       /\ e.timestamp \in UINT16 \X UINT16
       /\ e.fineTime \in UINT8 /\ e.zSuppressed \in {0, 1}
       /\ e.triggerTypeWord \in UINT16 /\ e.eventNumber \in Nat
  /\ Groups \subseteq Address /\ Unicasts \subseteq Address
  /\ Groups \cap Unicasts = {}
  /\ GatewayMAC \in [1..6 -> UINT8] /\ MyIP \in Address /\ Port \in UINT16
  /\ MaxTriggers \in Nat /\ MaxHeader \in Nat /\ BadWords \subseteq UINT16

VARIABLES
  phase,        \* "collect", "sent", "damaged" or "header"
  destination,  \* the address an MRP goes to
  triggers,     \* the events requested, in the order of the frame
  frame,        \* the frame
  number        \* the number of triggers the header was made for

vars == <<phase, destination, triggers, frame, number>>

Uint16(n) == n % 65536

\* Byte number k of n, from the lowest.
Byte(n, k) == (n \div 256^k) % 256

Word(high, low) == high * 256 + low

AddressWords(ip) == <<Word(ip[1], ip[2]), Word(ip[3], ip[4])>>

-----------------------------------------------------------------------------
(* Sizes in bytes. *)
SizeofIP == 20
SizeofUDP == 8
SizeofUDPHdr == 14 + SizeofIP + SizeofUDP
SizeofMRPHdr == 12
SizeofTrigger == 12

\* Mutant: what the comment of SetNumberOfTriggers says.
MRPLengthComment(n) == Uint16(8 + n * SizeofTrigger)

\* const uint16_t length
MRPLength(n) == Uint16(SizeofMRPHdr + n * SizeofTrigger)

\* SetNumberOfTriggers and setPayloadSize; the argument is a uint16_t.
LengthFields(n) ==
  LET length == MRPLength(Uint16(n))
  IN  [numberOfTriggers |-> Uint16(n), MRPLength |-> length,
       totLen |-> Uint16(SizeofIP + SizeofUDP + length),
       udpLen |-> Uint16(SizeofUDP + length)]

-----------------------------------------------------------------------------
\* Mutant: htonl without the shift.
EventNumberWordsUnshifted(n) ==
  <<Word(0, Byte(n, 3)), Word(Byte(n, 2), Byte(n, 1))>>

\* reserved2 and the 24 bits of htonl(eventNumber) >> 8.
EventNumberWords(n) ==
  <<Word(0, Byte(n, 2)), Word(Byte(n, 1), Byte(n, 0))>>

\* TRIGGER_RAW_HDR
generateTriggerHDR(e) ==
  e.timestamp \o <<Word(e.fineTime, e.zSuppressed), e.triggerTypeWord>>
    \o EventNumberWords(e.eventNumber)

\* The triggers one behind the other, six words each.
TriggerWords(events) ==
  [j \in 1..6 * Len(events) |->
     generateTriggerHDR(events[((j - 1) \div 6) + 1])[((j - 1) % 6) + 1]]

\* 01:00:5e and the last 23 bits of the group.
GenerateMulticastMac(ip) == <<1, 0, 94, ip[2] % 128, ip[3], ip[4]>>

-----------------------------------------------------------------------------
(***************************************************************************)
(* Checksums.  GenerateChecksumUnwrapped and Wrapsum are DataContainer's.  *)
(***************************************************************************)
AddWord(sum, w) == IF sum + w > 65535 THEN sum + w - 65535 ELSE sum + w

\* The sum runs over the words from the first to the last.
GenerateChecksumUnwrapped(words, sum) ==
  LET running[i \in 0..Len(words)] ==
        IF i = 0 THEN sum ELSE AddWord(running[i - 1], words[i])
  IN  running[Len(words)]

Wrapsum(sum) == 65535 - Uint16(sum)

GenerateChecksum(words) == Wrapsum(GenerateChecksumUnwrapped(words, 0))

IPPROTO_UDP == 17

\* saddr and daddr are words 7 to 10 of the IP header.
PseudoHeader(f) ==
  GenerateChecksumUnwrapped(SubSeq(f.ip, 7, 10), IPPROTO_UDP + f.udp[3])

\* Mutant: the last word is left out.
UDPSumShort(f, words) ==
  GenerateChecksumUnwrapped(f.udp,
    GenerateChecksumUnwrapped(Front(words), PseudoHeader(f)))

UDPSum(f, words) ==
  GenerateChecksumUnwrapped(f.udp, GenerateChecksumUnwrapped(words, PseudoHeader(f)))

\* f.udp[4], the checksum, is 0 at this point.
GenerateUDPChecksum(f, payloadLength) ==
  Wrapsum(UDPSum(f, SubSeq(f.payload, 1, payloadLength \div 2)))

CheckUDP(f) == UDPSum(f, f.payload) = 65535

\* CheckData reads the words in the byte order of the host and folds the
\* carries at the end.
CheckData(words) ==
  LET running[i \in 0..Len(words)] ==
        IF i = 0 THEN 0 ELSE running[i - 1] + Word(words[i] % 256, words[i] \div 256)
      sum == running[Len(words)]
      folded == (sum \div 65536) + Uint16(sum)
  IN  folded + (folded \div 65536) = 65535

\* isFragment: offset or "more fragments" in frag_off, word 4 of the IP header.
isFragment(f) == f.ip[4] % 16384 # 0

-----------------------------------------------------------------------------
\* Frames to a unicast address go to the gateway.
DestinationMac(g) == IF g \in Groups THEN GenerateMulticastMac(g) ELSE GatewayMAC

\* GenerateUDP and the MRP header of Initialize, for one destination.
HeaderTemplate(g) ==
  [mac |-> DestinationMac(g),
   ip |-> <<Word(69, 0), 0, 0, 16384, Word(128, IPPROTO_UDP), 0>>
            \o AddressWords(MyIP) \o AddressWords(g),
   udp |-> <<Port, Port, 0, 0>>,
   payload |-> <<0, 0>> \o AddressWords(MyIP) \o <<0, 0>>]

\* One iteration of the loop of Async_SendMRP: the header in front of the
\* triggers, the length fields, and then the checksums.
MRPFrame(g, events) ==
  LET n == Len(events)
      fields == LengthFields(n)
      template == HeaderTemplate(g)
      hdr == [template EXCEPT
                !.ip[2] = fields.totLen,
                !.udp[3] = fields.udpLen,
                !.payload = [@ EXCEPT ![1] = fields.numberOfTriggers,
                                      ![2] = fields.MRPLength]
                  \o TriggerWords(events)]
  IN  [hdr EXCEPT !.ip[6] = GenerateChecksum(hdr.ip),
                  !.udp[4] = GenerateUDPChecksum(hdr, fields.MRPLength)]

NoFrame == [mac |-> <<>>, ip |-> <<>>, udp |-> <<>>, payload |-> <<>>]

Init ==
  /\ phase = "collect"
  /\ destination \in Destinations
  /\ triggers = <<>>
  /\ frame = NoFrame
  /\ number = 0

AddTrigger(e) ==
  /\ phase = "collect"
  /\ Len(triggers) < MaxTriggers
  /\ triggers' = Append(triggers, e)
  /\ UNCHANGED <<phase, destination, frame, number>>

SendMRP ==
  /\ phase = "collect"
  /\ triggers # <<>>
  /\ phase' = "sent"
  /\ frame' = MRPFrame(destination, triggers)
  /\ number' = Len(triggers)
  /\ UNCHANGED <<destination, triggers>>

\* On its way one word of the IP or UDP part takes another value.  (A one's
\* complement sum does not tell 0 from 65535.)
Damage(part, i, w) ==
  /\ phase = "sent"
  /\ w % 65535 # frame[part][i] % 65535
  /\ phase' = "damaged"
  /\ frame' = [frame EXCEPT ![part][i] = w]
  /\ UNCHANGED <<destination, triggers, number>>

\* A header is made for any number of triggers.
PrepareHeader(n) ==
  /\ phase = "collect"
  /\ triggers = <<>>
  /\ phase' = "header"
  /\ number' = n
  /\ UNCHANGED <<destination, triggers, frame>>

Next ==
  \/ \E e \in Events : AddTrigger(e)
  \/ SendMRP
  \/ phase = "sent" /\ \E part \in {"ip", "udp", "payload"} :
       \E i \in DOMAIN frame[part], w \in BadWords : Damage(part, i, w)
  \/ \E n \in 0..MaxHeader : PrepareHeader(n)

Spec == Init /\ [][Next]_vars

-----------------------------------------------------------------------------
\* The triggers a receiver finds in a payload.
DecodedTrigger(f, i) == SubSeq(f.payload, 6 * i + 1, 6 * i + 6)

\* What the receiver should find: the event number modulo 2^24, big-endian.
ExpectedTrigger(e, words) ==
  /\ SubSeq(words, 1, 2) = e.timestamp
  /\ words[3] = 256 * e.fineTime + e.zSuppressed
  /\ words[4] = e.triggerTypeWord
  /\ words[5] < 256
  /\ words[5] * 65536 + words[6] = e.eventNumber % 2^24

\* The value of the last 23 bits of an address.
Last23(bytes) == (bytes[1] * 65536 + bytes[2] * 256 + bytes[3]) % 2^23

\* The frame goes to the Ethernet address of its group, or to the gateway.
SentToDestination ==
  /\ destination \in Groups =>
       /\ SubSeq(frame.mac, 1, 3) = <<1, 0, 94>>
       /\ frame.mac[4] * 65536 + frame.mac[5] * 256 + frame.mac[6]
            = Last23(Tail(destination))
  /\ destination \in Unicasts => frame.mac = GatewayMAC

\* Every frame that is sent is valid: its checksums are accepted by CheckUDP
\* and CheckData (also where the checksum is 0), it is no fragment, it goes
\* to its destination, and it requests the given events.
FrameAccepted ==
  phase = "sent" =>
    /\ CheckUDP(frame)
    /\ CheckData(frame.ip)
    /\ ~ isFragment(frame)
    /\ SentToDestination
    /\ Len(frame.payload) = 6 * (Len(triggers) + 1)
    /\ \A i \in DOMAIN triggers : ExpectedTrigger(triggers[i], DecodedTrigger(frame, i))

\* A frame with one damaged word, wherever it is between the IP header and
\* the last trigger, is not taken for a valid one.
DamageDetected == phase = "damaged" => ~ (CheckUDP(frame) /\ CheckData(frame.ip))

\* The length of the frame for n triggers: offset at the end of Async_SendMRP.
FrameLength(n) == SizeofUDPHdr + SizeofMRPHdr + n * SizeofTrigger

\* The length fields agree with the frame.
Exact(n) ==
  LET fields == LengthFields(n)
  IN  /\ fields.numberOfTriggers = n
      /\ fields.MRPLength = FrameLength(n) - SizeofUDPHdr
      /\ fields.udpLen = fields.MRPLength + SizeofUDP
      /\ fields.totLen = FrameLength(n) - 14

\* The 16-bit length fields are exact for every frame that PFring::send_packet
\* takes (1500 bytes); they first wrap around far beyond, at 5458 triggers.
LengthsExact ==
  phase = "header" =>
    /\ FrameLength(number) <= 1500 => Exact(number)
    /\ Exact(number) <=> number <= 5457
=============================================================================
