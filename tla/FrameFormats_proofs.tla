------------------------ MODULE FrameFormats_proofs ------------------------
(***************************************************************************)
(* The frame formats for every number of triggers, every event, every      *)
(* destination and every address and port.                                 *)
(*                                                                         *)
(* The checksums are sums over the words of a frame.  What such a sum is   *)
(* for every length is proved by induction, in the form that a set of      *)
(* numbers that is not empty has a least member (LeastNumber).  Modulo     *)
(* 65535, where the one's complement sum of EthernetUtils is an ordinary   *)
(* sum, the byte order of the host is a factor of 256 and a checksum       *)
(* completes its sum to 0; a change of one word by no multiple of 65535    *)
(* does not vanish in it, which is why one damaged word is noticed.        *)
(***************************************************************************)
EXTENDS FrameFormats, WellFoundedInduction, SequenceTheorems, TLAPS

\* The numbers of an interval.
LEMMA InRange ==
  ASSUME NEW n \in Nat, NEW x \in 0..n
  PROVE  x \in Nat /\ x < n + 1
OBVIOUS

\* The values of a byte.
LEMMA Uint8Member ==
  \A x \in UINT8 : x \in Nat /\ x < 256
<1> DEFINE n == 255
<1>1. n \in Nat /\ n + 1 = 256
  BY SMT
<1>2. UINT8 = 0..n
  BY SMT DEF UINT8
<1> HIDE DEF n
<1> QED BY SMT, <1>1, <1>2, InRange

\* The values of a 16-bit word.
LEMMA Uint16Member ==
  \A x \in UINT16 : x \in Nat /\ x < 65536
<1> DEFINE n == 65535
<1>1. n \in Nat /\ n + 1 = 65536
  BY SMT
<1>2. UINT16 = 0..n
  BY SMT DEF UINT16
<1> HIDE DEF n
<1> QED BY SMT, <1>1, <1>2, InRange

\* Functions with such a domain are sequences.
LEMMA FunctionIsSeq ==
  ASSUME NEW n \in Nat, NEW a \in [1..n -> Nat]
  PROVE  a \in Seq(Nat) /\ Len(a) = n
BY SMT

\* All but the first of four numbers.
LEMMA TailOfFour ==
  ASSUME NEW g \in Seq(Nat), Len(g) = 4
  PROVE  Tail(g)[1] = g[2] /\ Tail(g)[2] = g[3] /\ Tail(g)[3] = g[4]
BY SMTT(30)

\* An IP address is a sequence of four bytes.
LEMMA AddressBytes ==
  ASSUME NEW a \in Address
  PROVE  /\ a \in Seq(Nat) /\ Len(a) = 4
         /\ a[1] \in Nat /\ a[2] \in Nat /\ a[3] \in Nat /\ a[4] \in Nat
         /\ a[1] < 256 /\ a[2] < 256 /\ a[3] < 256 /\ a[4] < 256
<1>1. a \in [1..4 -> UINT8] /\ 1 \in 1..4 /\ 2 \in 1..4 /\ 3 \in 1..4 /\ 4 \in 1..4
  BY SMT DEF Address
<1>2. a[1] \in UINT8 /\ a[2] \in UINT8 /\ a[3] \in UINT8 /\ a[4] \in UINT8
  BY Zenon, <1>1
<1>3. /\ a[1] \in Nat /\ a[2] \in Nat /\ a[3] \in Nat /\ a[4] \in Nat
      /\ a[1] < 256 /\ a[2] < 256 /\ a[3] < 256 /\ a[4] < 256
  BY SMT, <1>2, Uint8Member
<1>4. a \in [1..4 -> Nat]
  BY SMT, <1>1, Uint8Member
<1>5. a \in Seq(Nat) /\ Len(a) = 4
  BY <1>4, FunctionIsSeq
<1> QED BY <1>3, <1>5

\* The length fields, as long as a uint16_t holds them.
LEMMA Uint16Facts ==
  ASSUME NEW n \in Nat
  PROVE  Uint16(n) \in Nat /\ Uint16(n) < 65536 /\ (n < 65536 <=> Uint16(n) = n)
BY DEF Uint16

\* The length fields of a header agree with its frame up to 5457 triggers, and
\* for no larger number.
LEMMA LengthFieldsExact ==
  ASSUME NEW n \in Nat
  PROVE  Exact(n) <=> n <= 5457
<1> DEFINE m == Uint16(n)
           k == 12 + m * 12
           length == Uint16(k)
<1>1. m \in Nat /\ m < 65536 /\ (n < 65536 <=> m = n)
  BY Uint16Facts
<1>2. k \in Nat
  BY <1>1
<1>3. length \in Nat /\ length < 65536 /\ (k < 65536 <=> length = k)
  <2> HIDE DEF k
  <2> QED BY <1>2, Uint16Facts
<1>4. /\ LengthFields(n).numberOfTriggers = m
      /\ LengthFields(n).MRPLength = length
      /\ LengthFields(n).totLen = Uint16(28 + length)
      /\ LengthFields(n).udpLen = Uint16(8 + length)
  BY DEF LengthFields, MRPLength, SizeofMRPHdr, SizeofTrigger, SizeofIP, SizeofUDP
<1>5. FrameLength(n) - SizeofUDPHdr = 12 + n * 12 /\ FrameLength(n) - 14 = 40 + n * 12
  BY DEF FrameLength, SizeofUDPHdr, SizeofMRPHdr, SizeofTrigger, SizeofIP, SizeofUDP
<1> HIDE DEF m, length
<1>6. /\ 28 + length < 65536 <=> Uint16(28 + length) = 28 + length
      /\ 8 + length < 65536 <=> Uint16(8 + length) = 8 + length
      /\ Uint16(28 + length) \in Nat /\ Uint16(28 + length) < 65536
  <2>1. 28 + length \in Nat /\ 8 + length \in Nat
    BY <1>3
  <2> QED BY <2>1, Uint16Facts
<1>7. Exact(n) <=> /\ m = n
                   /\ length = 12 + n * 12
                   /\ Uint16(8 + length) = length + 8
                   /\ Uint16(28 + length) = 40 + n * 12
  BY <1>4, <1>5 DEF Exact, SizeofUDP
<1>8. CASE n <= 5457
  <2>1. m = n
    BY <1>1, <1>8
  <2>2. length = 12 + n * 12
    BY <1>3, <1>8, <2>1
  <2> QED BY <1>6, <1>7, <1>8, <2>1, <2>2
<1>9. CASE n > 5457
  BY <1>6, <1>7, <1>9
<1> QED BY <1>8, <1>9

\* The number a header was made for.
NumberInv == number \in Nat /\ triggers \in Seq(Events)

\* It is a number of triggers.
LEMMA NumberInvariance == Spec => []NumberInv
<1>1. Init => NumberInv
  BY DEF Init, NumberInv
<1>2. NumberInv /\ [Next]_vars => NumberInv'
  <2> SUFFICES ASSUME NumberInv, [Next]_vars PROVE NumberInv'
    OBVIOUS
  <2>1. ASSUME NEW e \in Events, AddTrigger(e) PROVE NumberInv'
    BY <2>1 DEF AddTrigger, NumberInv
  <2>2. CASE SendMRP
    BY <2>2 DEF SendMRP, NumberInv
  <2>3. ASSUME NEW part, NEW i, NEW w, Damage(part, i, w) PROVE NumberInv'
    BY <2>3 DEF Damage, NumberInv
  <2>4. ASSUME NEW n \in 0..MaxHeader, PrepareHeader(n) PROVE NumberInv'
    BY <2>4 DEF PrepareHeader, NumberInv
  <2>5. CASE UNCHANGED vars
    BY <2>5 DEF vars, NumberInv
  <2> QED BY <2>1, <2>2, <2>3, <2>4, <2>5 DEF Next
<1> QED BY <1>1, <1>2, PTL DEF Spec

\* SetNumberOfTriggers and setPayloadSize write exact lengths for every frame
\* that PFring::send_packet takes; the fields first wrap around at 5458.
THEOREM LengthsAreExact == Spec => []LengthsExact
<1>1. NumberInv => LengthsExact
  <2> SUFFICES ASSUME NumberInv
               PROVE  /\ FrameLength(number) <= 1500 => Exact(number)
                      /\ Exact(number) <=> number <= 5457
    BY DEF LengthsExact
  <2>1. Exact(number) <=> number <= 5457
    BY LengthFieldsExact DEF NumberInv
  <2>2. FrameLength(number) <= 1500 => number <= 5457
    BY DEF NumberInv, FrameLength, SizeofUDPHdr, SizeofMRPHdr, SizeofTrigger, SizeofIP,
       SizeofUDP
  <2> QED BY <2>1, <2>2
<1> QED BY <1>1, NumberInvariance, PTL

-----------------------------------------------------------------------------
\* The words of a trigger hold the event it was made for; of the event number
\* the last 24 bits.
LEMMA EventNumberDecoded ==
  ASSUME NEW n \in Nat
  PROVE  /\ EventNumberWords(n)[1] < 256
         /\ EventNumberWords(n)[1] * 65536 + EventNumberWords(n)[2] = n % 2^24
<1> DEFINE b0 == n % 256
           n1 == n \div 256
           b1 == n1 % 256
           n2 == n1 \div 256
           b2 == n2 % 256
           n3 == n2 \div 256
<1>1. n = n1 * 256 + b0 /\ n1 \in Nat /\ b0 \in Nat /\ b0 < 256
  BY SMT
<1>2. n1 = n2 * 256 + b1 /\ n2 \in Nat /\ b1 \in Nat /\ b1 < 256
  BY SMT, <1>1
<1>3. n2 = n3 * 256 + b2 /\ n3 \in Nat /\ b2 \in Nat /\ b2 < 256
  BY SMT, <1>2
<1>4. n \div 256^0 = n /\ n \div 256^1 = n1 /\ n \div 256^2 = n2
  BY SMT
<1>5. EventNumberWords(n) = <<b2, b1 * 256 + b0>>
  BY SMT, <1>4 DEF EventNumberWords, Word, Byte
<1> HIDE DEF b0, n1, b1, n2, b2, n3
<1>6. n = n3 * 16777216 + (b2 * 65536 + b1 * 256 + b0)
  BY SMT, <1>1, <1>2, <1>3
<1>7. (b2 * 65536 + b1 * 256 + b0) \in Nat /\ (b2 * 65536 + b1 * 256 + b0) < 16777216
  BY SMT, <1>1, <1>2, <1>3
<1>8. n % 16777216 = b2 * 65536 + b1 * 256 + b0
  BY SMT, <1>3, <1>6, <1>7
<1>9. 2^24 = 16777216
  BY SMT
<1>10. EventNumberWords(n)[1] = b2 /\ EventNumberWords(n)[2] = b1 * 256 + b0
  BY SMT, <1>5
<1>11. b2 * 65536 + (b1 * 256 + b0) = b2 * 65536 + b1 * 256 + b0
  BY SMT, <1>1, <1>2, <1>3
<1> QED BY SMT, <1>3, <1>8, <1>9, <1>10, <1>11

\* A pair of words behind a sequence of words.
LEMMA ConcatPair ==
  ASSUME NEW s \in Seq(Nat), NEW pair \in Seq(Nat), Len(pair) = 2
  PROVE  /\ s \o pair \in Seq(Nat) /\ Len(s \o pair) = Len(s) + 2
         /\ \A i \in 1..Len(s) : (s \o pair)[i] = s[i]
         /\ (s \o pair)[Len(s) + 1] = pair[1] /\ (s \o pair)[Len(s) + 2] = pair[2]
<1>1. /\ s \o pair \in Seq(Nat) /\ Len(s \o pair) = Len(s) + Len(pair)
      /\ \A i \in 1 .. Len(s) + Len(pair) :
           (s \o pair)[i] = IF i <= Len(s) THEN s[i] ELSE pair[i - Len(s)]
  BY ConcatProperties
<1>2. Len(s) \in Nat
  OBVIOUS

<1>3. \A i \in 1..Len(s) : (s \o pair)[i] = s[i]
  BY SMT, <1>1, <1>2
<1>4. (s \o pair)[Len(s) + 1] = pair[1] /\ (s \o pair)[Len(s) + 2] = pair[2]
  BY SMT, <1>1, <1>2
<1> QED BY SMT, <1>1, <1>3, <1>4

\* generateTriggerHDR puts the event into six words from which a receiver reads
\* the same event again, whatever its values are.
THEOREM TriggersDecoded ==
  ASSUME NEW e, NEW high \in Nat, NEW low \in Nat, e.timestamp = <<high, low>>,
         e.fineTime \in Nat, e.zSuppressed \in Nat, e.triggerTypeWord \in Nat,
         e.eventNumber \in Nat
  PROVE  /\ Len(generateTriggerHDR(e)) = 6
         /\ ExpectedTrigger(e, generateTriggerHDR(e))
<1> DEFINE first == <<high, low>>
           second == <<Word(e.fineTime, e.zSuppressed), e.triggerTypeWord>>
           third == EventNumberWords(e.eventNumber)
           words == (first \o second) \o third
<1>1. generateTriggerHDR(e) = words
  BY Zenon DEF generateTriggerHDR
<1>2. first \in Seq(Nat) /\ Len(first) = 2 /\ first[1] = high /\ first[2] = low
  BY SMT
<1>3. /\ second \in Seq(Nat) /\ Len(second) = 2
      /\ second[1] = 256 * e.fineTime + e.zSuppressed /\ second[2] = e.triggerTypeWord
  <2>1. Word(e.fineTime, e.zSuppressed) = 256 * e.fineTime + e.zSuppressed
    BY SMT DEF Word
  <2>2. Word(e.fineTime, e.zSuppressed) \in Nat
    BY SMT DEF Word
  <2> QED BY SMT, <2>1, <2>2
<1>4. third \in Seq(Nat) /\ Len(third) = 2
  <2>1. \A n \in Nat, k \in 0..2 : Byte(n, k) \in Nat
    <3>1. 256^0 = 1 /\ 256^1 = 256 /\ 256^2 = 65536
      BY SMT
    <3> QED BY SMT, <3>1 DEF Byte
  <2>2. Word(0, Byte(e.eventNumber, 2)) \in Nat
    BY SMT, <2>1 DEF Word
  <2>3. Word(Byte(e.eventNumber, 1), Byte(e.eventNumber, 0)) \in Nat
    BY SMT, <2>1 DEF Word
  <2> QED BY SMT, <2>2, <2>3 DEF EventNumberWords
<1>5. third[1] < 256 /\ third[1] * 65536 + third[2] = e.eventNumber % 2^24
  BY EventNumberDecoded, SMT
<1> HIDE DEF first, second, third
<1> DEFINE four == first \o second
<1>6. /\ four \in Seq(Nat) /\ Len(four) = Len(first) + 2
      /\ \A i \in 1..Len(first) : four[i] = first[i]
      /\ four[Len(first) + 1] = second[1] /\ four[Len(first) + 2] = second[2]
  BY <1>2, <1>3, ConcatPair
<1> HIDE DEF four
<1>7. /\ Len(four) = 4
      /\ four[1] = high /\ four[2] = low /\ four[3] = second[1] /\ four[4] = second[2]
  BY SMT, <1>2, <1>6
<1> DEFINE six == four \o third
<1>11. /\ six \in Seq(Nat) /\ Len(six) = Len(four) + 2
       /\ \A i \in 1..Len(four) : six[i] = four[i]
       /\ six[Len(four) + 1] = third[1] /\ six[Len(four) + 2] = third[2]
  BY <1>4, <1>6, ConcatPair
<1>12. words = six
  BY Zenon DEF four
<1> HIDE DEF six, words
<1>13. /\ six \in Seq(Nat) /\ Len(six) = 6
       /\ six[1] = high /\ six[2] = low /\ six[3] = second[1] /\ six[4] = second[2]
       /\ six[5] = third[1] /\ six[6] = third[2]
  BY SMT, <1>7, <1>11
<1>8. /\ words \in Seq(Nat) /\ Len(words) = 6
      /\ words[1] = high /\ words[2] = low /\ words[3] = second[1] /\ words[4] = second[2]
      /\ words[5] = third[1] /\ words[6] = third[2]
  BY Zenon, <1>12, <1>13
<1>9. SubSeq(words, 1, 2) = e.timestamp
  <2>1. /\ SubSeq(words, 1, 2) \in Seq(Nat) /\ Len(SubSeq(words, 1, 2)) = 2
        /\ SubSeq(words, 1, 2)[1] = high /\ SubSeq(words, 1, 2)[2] = low
    BY SMT, <1>8
  <2>2. \A i \in 1..2 : SubSeq(words, 1, 2)[i] = first[i]
    BY SMT, <1>2, <2>1
  <2>3. SubSeq(words, 1, 2) = first
    BY <1>2, <2>1, <2>2, SeqEqual
  <2> QED BY <2>3 DEF first
<1>10. ExpectedTrigger(e, words)
  BY SMT, <1>3, <1>5, <1>8, <1>9 DEF ExpectedTrigger
<1> QED BY <1>1, <1>8, <1>10

\* GenerateMulticastMac keeps the last 23 bits of the group's address.
LEMMA MacOfGroup ==
  ASSUME NEW g, g[2] \in Nat, g[3] \in Nat, g[4] \in Nat, g[3] < 256, g[4] < 256
  PROVE  LET mac == GenerateMulticastMac(g)
         IN  /\ SubSeq(mac, 1, 3) = <<1, 0, 94>>
             /\ mac[4] * 65536 + mac[5] * 256 + mac[6]
                  = (g[2] * 65536 + g[3] * 256 + g[4]) % 2^23
<1> DEFINE b == g[2] % 128
           c == g[2] \div 128
           rest == b * 65536 + g[3] * 256 + g[4]
<1>1. g[2] = c * 128 + b /\ c \in Nat /\ b \in Nat /\ b < 128
  BY SMT
<1>2. /\ SubSeq(GenerateMulticastMac(g), 1, 3) = <<1, 0, 94>>
      /\ GenerateMulticastMac(g)[4] = b
      /\ GenerateMulticastMac(g)[5] = g[3] /\ GenerateMulticastMac(g)[6] = g[4]
  <2> DEFINE mac == GenerateMulticastMac(g)
             prefix == <<1, 0, 94>>
  <2>1. /\ mac \in Seq(Nat) /\ Len(mac) = 6 /\ mac[1] = 1 /\ mac[2] = 0 /\ mac[3] = 94
        /\ mac[4] = b /\ mac[5] = g[3] /\ mac[6] = g[4]
    BY SMT, <1>1 DEF GenerateMulticastMac
  <2>2. /\ prefix \in Seq(Nat) /\ Len(prefix) = 3
        /\ prefix[1] = 1 /\ prefix[2] = 0 /\ prefix[3] = 94
    BY SMT
  <2> HIDE DEF mac, prefix
  <2>3. /\ SubSeq(mac, 1, 3) \in Seq(Nat) /\ Len(SubSeq(mac, 1, 3)) = 3
        /\ \A i \in 1..3 : SubSeq(mac, 1, 3)[i] = mac[i]
    BY SMTT(30), <2>1
  <2>4. \A i \in 1..3 : SubSeq(mac, 1, 3)[i] = prefix[i]
    BY SMT, <2>1, <2>2, <2>3
  <2>5. SubSeq(mac, 1, 3) = prefix
    BY <2>2, <2>3, <2>4, SeqEqual
  <2> QED BY <2>1, <2>5 DEF mac, prefix
<1> HIDE DEF b, c
<1>3. g[2] * 65536 + g[3] * 256 + g[4] = c * 8388608 + rest
  BY SMT, <1>1
<1>4. rest \in Nat /\ rest < 8388608
  BY SMT, <1>1
<1> HIDE DEF rest
<1>5. (c * 8388608 + rest) % 8388608 = rest
  BY SMT, <1>1, <1>4
<1>6. 2^23 = 8388608
  BY SMT
<1> QED BY SMT, <1>2, <1>3, <1>5, <1>6 DEF rest

-----------------------------------------------------------------------------
\* The lengths and checksums that Async_SendMRP fills in leave the destination
\* of the template as it is.
LEMMA DestinationKept ==
  ASSUME NEW g, NEW events
  PROVE  MRPFrame(g, events).mac = DestinationMac(g)
BY DEF MRPFrame, HeaderTemplate

\* What is sent is a complete frame for its destination.
SentInv ==
  /\ destination \in Destinations
  /\ phase = "sent" => frame = MRPFrame(destination, triggers)

\* SendMRP is the only step after which a frame is sent.
LEMMA SentInvariance == Spec => []SentInv
<1>1. Init => SentInv
  BY DEF Init, SentInv
<1>2. SentInv /\ [Next]_vars => SentInv'
  BY DEF SentInv, Next, AddTrigger, SendMRP, Damage, PrepareHeader, vars
<1> QED BY <1>1, <1>2, PTL DEF Spec

\* A frame to a group goes to the address GenerateMulticastMac gives it.
LEMMA GroupOfFrame ==
  ASSUME SentInv, phase = "sent", destination \in Groups
  PROVE  /\ SubSeq(frame.mac, 1, 3) = <<1, 0, 94>>
         /\ frame.mac[4] * 65536 + frame.mac[5] * 256 + frame.mac[6]
              = Last23(Tail(destination))
<1>1. frame.mac = GenerateMulticastMac(destination)
  BY DestinationKept DEF SentInv, DestinationMac
<1>2. destination \in Address
  BY FormatsAssumption
<1>3. /\ destination \in Seq(Nat) /\ Len(destination) = 4
      /\ destination[2] \in Nat /\ destination[3] \in Nat /\ destination[4] \in Nat
      /\ destination[3] < 256 /\ destination[4] < 256
  BY <1>2, AddressBytes
<1> DEFINE last == Tail(destination)
<1>4. last[1] = destination[2] /\ last[2] = destination[3] /\ last[3] = destination[4]
  <2>1. destination \in Seq(Nat) /\ Len(destination) = 4
    BY <1>3
  <2> QED BY SMT, <2>1, TailOfFour
<1> HIDE DEF last
<1>7. /\ last[1] * 65536 = destination[2] * 65536 /\ last[2] * 256 = destination[3] * 256
  BY SMT, <1>4
<1>8. last[1] * 65536 + last[2] * 256 + last[3]
        = destination[2] * 65536 + destination[3] * 256 + destination[4]
  BY SMT, <1>3, <1>4, <1>7
<1>9. Last23(last)
        = (destination[2] * 65536 + destination[3] * 256 + destination[4]) % 2^23
  BY SMT, <1>8 DEF Last23
<1>5. Last23(Tail(destination))
        = (destination[2] * 65536 + destination[3] * 256 + destination[4]) % 2^23
  BY SMT, <1>9 DEF last
<1> DEFINE mac == GenerateMulticastMac(destination)
<1>6. /\ SubSeq(mac, 1, 3) = <<1, 0, 94>>
      /\ mac[4] * 65536 + mac[5] * 256 + mac[6]
           = (destination[2] * 65536 + destination[3] * 256 + destination[4]) % 2^23
  <2>1. /\ destination[2] \in Nat /\ destination[3] \in Nat /\ destination[4] \in Nat
        /\ destination[3] < 256 /\ destination[4] < 256
    BY <1>3
  <2> QED BY SMT, <2>1, MacOfGroup
<1> QED BY SMT, <1>1, <1>5, <1>6

\* A frame to a unicast address goes to the gateway.
LEMMA DestinationOfFrame == ASSUME SentInv, phase = "sent" PROVE SentToDestination
<1>1. CASE destination \in Groups
  <2>1. destination \notin Unicasts
    BY <1>1, FormatsAssumption
  <2> QED BY <1>1, <2>1, GroupOfFrame DEF SentToDestination
<1>2. CASE destination \notin Groups
  <2>1. frame.mac = GatewayMAC
    BY <1>2, DestinationKept DEF SentInv, DestinationMac
  <2> QED BY <1>2, <2>1 DEF SentToDestination
<1> QED BY <1>1, <1>2

\* Every request is sent to the multicast address that GenerateMulticastMac
\* derives from the group, or to the gateway, for any destinations.
THEOREM RequestsReachDestination == Spec => [](phase = "sent" => SentToDestination)
<1>1. SentInv => (phase = "sent" => SentToDestination)
  BY DestinationOfFrame
<1> QED BY <1>1, SentInvariance, PTL

-----------------------------------------------------------------------------
\* A set of numbers that is not empty has a least member.
LEMMA LeastNumber ==
  ASSUME NEW T, T \subseteq Nat, T # {}
  PROVE  \E n \in T : \A m \in T : n <= m
<1> DEFINE R == OpToRel(<, Nat)
<1>1. IsWellFoundedOn(R, Nat)
  BY NatLessThanWellFounded
<1>2. \A x, y \in Nat : x < y => <<x, y>> \in R
  BY DEF OpToRel
<1> HIDE DEF R
<1>3. PICK n \in T : \A y \in T : ~ (<<y, n>> \in R)
  BY <1>1, WFMin
<1>4. ASSUME NEW m \in T PROVE n <= m
  <2>1. n \in Nat /\ m \in Nat
    OBVIOUS
  <2>2. ~ (m < n)
    BY <1>2, <1>3, <2>1
  <2> QED BY <2>1, <2>2
<1> QED BY <1>4

\* Induction up to n over a set of numbers.
LEMMA UpTo ==
  ASSUME NEW n \in Nat, NEW T, 0 \in T, \A i \in 1..n : i - 1 \in T => i \in T
  PROVE  \A i \in 0..n : i \in T
<1> DEFINE U == {i \in 0..n : i \notin T}
<1>1. SUFFICES ASSUME U # {} PROVE FALSE
  OBVIOUS
<1>2. U \subseteq Nat
  OBVIOUS
<1>3. PICK k \in U : \A m \in U : k <= m
  <2> HIDE DEF U
  <2> QED BY <1>1, <1>2, LeastNumber
<1>4. k \in 1..n /\ k \notin T
  OBVIOUS
<1>5. k - 1 \in 0..n /\ ~ (k <= k - 1)
  BY <1>4
<1>6. k - 1 \in T
  BY <1>3, <1>5
<1> QED BY <1>4, <1>6

\* A running sum over a sequence exists, whatever a step of it does.
LEMMA RunningExists ==
  ASSUME NEW op \in [Int \X Int -> Int], NEW w \in Seq(Int), NEW s \in Int
  PROVE  \E f \in [0..Len(w) -> Int] :
           f[0] = s /\ \A i \in 1..Len(w) : f[i] = op[<<f[i - 1], w[i]>>]
<1> DEFINE OK(n) == \E f \in [0..n -> Int] :
                      f[0] = s /\ \A i \in 1..n : f[i] = op[<<f[i - 1], w[i]>>]
           T == {n \in 0..Len(w) : OK(n)}
<1>1. Len(w) \in Nat
  OBVIOUS
<1>2. OK(0)
  <2> DEFINE z == [i \in 0..0 |-> s]
  <2>1. z \in [0..0 -> Int] /\ z[0] = s
    OBVIOUS
  <2>2. \A i \in 1..0 : z[i] = op[<<z[i - 1], w[i]>>]
    OBVIOUS
  <2> HIDE DEF z
  <2> QED BY <2>1, <2>2
<1>3. ASSUME NEW n \in 1..Len(w), OK(n - 1) PROVE OK(n)
  <2>1. PICK f \in [0..(n - 1) -> Int] :
          f[0] = s /\ \A i \in 1..(n - 1) : f[i] = op[<<f[i - 1], w[i]>>]
    BY <1>3
  <2> DEFINE g == [i \in 0..n |-> IF i < n THEN f[i] ELSE op[<<f[n - 1], w[n]>>]]
  <2>2. w[n] \in Int /\ f[n - 1] \in Int
    BY <2>1
  <2>3. op[<<f[n - 1], w[n]>>] \in Int
    BY <2>2
  <2>4. g \in [0..n -> Int]
    BY <2>3
  <2>5. g[0] = s
    BY <2>1
  <2>6. ASSUME NEW i \in 1..n PROVE g[i] = op[<<g[i - 1], w[i]>>]
    <3>1. i - 1 \in 0..n /\ i - 1 < n /\ g[i - 1] = f[i - 1]
      OBVIOUS
    <3>2. CASE i = n
      BY <3>1, <3>2
    <3>3. CASE i < n
      <4>1. g[i] = f[i] /\ i \in 1..(n - 1)
        BY <3>3
      <4> HIDE DEF g
      <4> QED BY <2>1, <3>1, <4>1
    <3> QED BY <3>2, <3>3
  <2> HIDE DEF g
  <2> QED BY <2>4, <2>5, <2>6
<1> HIDE DEF OK
<1>4. 0 \in T
  BY <1>1, <1>2
<1>5. \A i \in 1..Len(w) : i - 1 \in T => i \in T
  BY <1>1, <1>3
<1>6. Len(w) \in T
  <2>1. Len(w) \in 0..Len(w)
    BY <1>1
  <2> HIDE DEF T
  <2>2. \A i \in 0..Len(w) : i \in T
    BY <1>1, <1>4, <1>5, UpTo
  <2> QED BY <2>1, <2>2
<1> QED BY <1>6 DEF OK

\* Induction along a function: its values are integers.
LEMMA IntegerValues ==
  ASSUME NEW n \in Nat, NEW r, r[0] \in Int,
         \A i \in 1..n : r[i - 1] \in Int => r[i] \in Int
  PROVE  \A i \in 0..n : r[i] \in Int
<1> DEFINE T == {i \in 0..n : r[i] \in Int}
<1>1. 0 \in T
  OBVIOUS
<1>2. \A i \in 1..n : i - 1 \in T => i \in T
  OBVIOUS
<1> HIDE DEF T
<1>3. \A i \in 0..n : i \in T
  BY <1>1, <1>2, UpTo
<1> QED BY <1>3 DEF T

-----------------------------------------------------------------------------
\* The sum of the words of a sequence, without any bound.
Total(w) ==
  LET running[i \in 0..Len(w)] == IF i = 0 THEN 0 ELSE running[i - 1] + w[i]
  IN  running[Len(w)]

\* Total adds the words one after the other.
LEMMA TotalSum ==
  ASSUME NEW w \in Seq(Int)
  PROVE  \E t \in [0..Len(w) -> Int] :
           /\ t[0] = 0 /\ Total(w) = t[Len(w)]
           /\ \A i \in 1..Len(w) : t[i] = t[i - 1] + w[i]
<1> DEFINE op == [p \in Int \X Int |-> p[1] + p[2]]
           F(f) == [i \in 0..Len(w) |-> IF i = 0 THEN 0 ELSE f[i - 1] + w[i]]
           r == CHOOSE f : f = F(f)
<1>1. Len(w) \in Nat /\ 0 \in 0..Len(w)
      /\ \A i \in 1..Len(w) : i \in 0..Len(w) /\ i - 1 \in 0..Len(w) /\ i # 0 /\ w[i] \in Int
  OBVIOUS
<1>2. op \in [Int \X Int -> Int] /\ \A a, b \in Int : op[<<a, b>>] = a + b
  BY DEF Total
<1> HIDE DEF op
<1>3. PICK f \in [0..Len(w) -> Int] :
        f[0] = 0 /\ \A i \in 1..Len(w) : f[i] = op[<<f[i - 1], w[i]>>]
  <2>1. 0 \in Int
    OBVIOUS
  <2> QED BY ZenonT(30), <1>2, <2>1, RunningExists
<1>4. \A i \in 1..Len(w) : op[<<f[i - 1], w[i]>>] = f[i - 1] + w[i]
  BY <1>1, <1>2, <1>3
<1>5. f = F(f)
  <2>1. \A i \in 0..Len(w) : i # 0 => i \in 1..Len(w)
    BY <1>1
  <2>2. \A i \in 0..Len(w) : f[i] = IF i = 0 THEN 0 ELSE f[i - 1] + w[i]
    BY Zenon, <1>3, <1>4, <2>1
  <2> QED BY Zenon, <1>3, <2>2
<1>6. r = F(r)
  <2> HIDE DEF F
  <2> QED BY <1>5
<1> HIDE DEF r
<1>7. \A i \in 0..Len(w) : r[i] = IF i = 0 THEN 0 ELSE r[i - 1] + w[i]
  BY Zenon, <1>6
<1>8. r[0] = 0 /\ \A i \in 1..Len(w) : r[i] = r[i - 1] + w[i]
  BY Zenon, <1>1, <1>7
<1>9. \A i \in 0..Len(w) : r[i] \in Int
  <2>1. r[0] \in Int
    BY <1>8
  <2>2. ASSUME NEW i \in 1..Len(w), r[i - 1] \in Int PROVE r[i] \in Int
    <3>1. r[i] = op[<<r[i - 1], w[i]>>]
      BY <1>1, <1>2, <1>8, <2>2
    <3> QED BY <1>1, <1>2, <2>2, <3>1
  <2> HIDE DEF F
  <2> QED BY <1>1, <2>1, <2>2, IntegerValues
<1>10. r \in [0..Len(w) -> Int]
  BY <1>6, <1>9
<1>12. Total(w) = r[Len(w)]
  BY DEF Total, r
<1> QED BY <1>8, <1>10, <1>12

\* GenerateChecksumUnwrapped adds the words one after the other with AddWord.
LEMMA UnwrappedSum ==
  ASSUME NEW w \in Seq(Int), NEW s \in Int
  PROVE  \E t \in [0..Len(w) -> Int] :
           /\ t[0] = s /\ GenerateChecksumUnwrapped(w, s) = t[Len(w)]
           /\ \A i \in 1..Len(w) : t[i] = AddWord(t[i - 1], w[i])
<1> DEFINE op == [p \in Int \X Int |-> AddWord(p[1], p[2])]
           F(f) == [i \in 0..Len(w) |-> IF i = 0 THEN s ELSE AddWord(f[i - 1], w[i])]
           r == CHOOSE f : f = F(f)
<1>1. Len(w) \in Nat /\ 0 \in 0..Len(w)
      /\ \A i \in 1..Len(w) : i \in 0..Len(w) /\ i - 1 \in 0..Len(w) /\ i # 0 /\ w[i] \in Int
  OBVIOUS
<1>2. op \in [Int \X Int -> Int] /\ \A a, b \in Int : op[<<a, b>>] = AddWord(a, b)
  BY DEF AddWord
<1> HIDE DEF op
<1>3. PICK f \in [0..Len(w) -> Int] :
        f[0] = s /\ \A i \in 1..Len(w) : f[i] = op[<<f[i - 1], w[i]>>]
  <2>1. s \in Int
    OBVIOUS
  <2> QED BY ZenonT(30), <1>2, <2>1, RunningExists
<1>4. \A i \in 1..Len(w) : op[<<f[i - 1], w[i]>>] = AddWord(f[i - 1], w[i])
  BY <1>1, <1>2, <1>3
<1>5. f = F(f)
  <2>1. \A i \in 0..Len(w) : i # 0 => i \in 1..Len(w)
    BY <1>1
  <2>2. \A i \in 0..Len(w) : f[i] = IF i = 0 THEN s ELSE AddWord(f[i - 1], w[i])
    BY Zenon, <1>3, <1>4, <2>1
  <2> QED BY Zenon, <1>3, <2>2
<1>6. r = F(r)
  <2> HIDE DEF F
  <2> QED BY <1>5
<1> HIDE DEF r
<1>7. \A i \in 0..Len(w) : r[i] = IF i = 0 THEN s ELSE AddWord(r[i - 1], w[i])
  BY Zenon, <1>6
<1>8. r[0] = s /\ \A i \in 1..Len(w) : r[i] = AddWord(r[i - 1], w[i])
  BY Zenon, <1>1, <1>7
<1>9. \A i \in 0..Len(w) : r[i] \in Int
  <2>1. r[0] \in Int
    BY <1>8
  <2>2. ASSUME NEW i \in 1..Len(w), r[i - 1] \in Int PROVE r[i] \in Int
    <3>1. r[i] = op[<<r[i - 1], w[i]>>]
      BY <1>1, <1>2, <1>8, <2>2
    <3> QED BY <1>1, <1>2, <2>2, <3>1
  <2> HIDE DEF F
  <2> QED BY <1>1, <2>1, <2>2, IntegerValues
<1>10. r \in [0..Len(w) -> Int]
  BY <1>6, <1>9
<1>12. GenerateChecksumUnwrapped(w, s) = r[Len(w)]
  BY DEF GenerateChecksumUnwrapped, r
<1> QED BY <1>8, <1>10, <1>12

\* A word as CheckData reads it: its bytes in the other order.
Swapped(x) == Word(x % 256, x \div 256)

\* Reading a word in the other byte order multiplies it by 256 modulo 65535.
LEMMA SwappedCongruent ==
  ASSUME NEW x \in Nat, x < 65536
  PROVE  /\ x \div 256 \in Int
         /\ Swapped(x) = 256 * x - 65535 * (x \div 256)
         /\ Swapped(x) \in Nat /\ Swapped(x) < 65536
         /\ x > 0 => Swapped(x) > 0
<1> DEFINE q == x \div 256
           m == x % 256
<1>1. x = 256 * q + m /\ q \in Nat /\ m \in Nat /\ m < 256
  BY SMT
<1>2. Swapped(x) = m * 256 + q
  BY DEF Swapped, Word
<1>3. q < 256
  BY SMT
<1> HIDE DEF q, m
<1>4. /\ m * 256 + q = 256 * x - 65535 * q
      /\ m * 256 + q \in Nat /\ m * 256 + q < 65536 /\ (x > 0 => m * 256 + q > 0)
  BY SMT, <1>1, <1>3
<1> QED BY SMT, <1>1, <1>2, <1>4 DEF q

\* The two foldings of CheckData.
Folded(sum) == (sum \div 65536) + Uint16(sum)

FoldedTwice(sum) == Folded(sum) + (Folded(sum) \div 65536)

\* CheckData adds the swapped words one after the other and folds their sum once.
LEMMA CheckDataSum ==
  ASSUME NEW w \in Seq(Int)
  PROVE  \E t \in [0..Len(w) -> Int] :
           /\ t[0] = 0 /\ \A i \in 1..Len(w) : t[i] = t[i - 1] + Swapped(w[i])
           /\ CheckData(w) <=> FoldedTwice(t[Len(w)]) = 65535
<1> DEFINE op == [p \in Int \X Int |-> p[1] + Swapped(p[2])]
           F(f) == [i \in 0..Len(w) |-> IF i = 0 THEN 0 ELSE f[i - 1] + Swapped(w[i])]
           r == CHOOSE f : f = F(f)
<1>1. Len(w) \in Nat /\ 0 \in 0..Len(w)
      /\ \A i \in 1..Len(w) : i \in 0..Len(w) /\ i - 1 \in 0..Len(w) /\ i # 0 /\ w[i] \in Int
  OBVIOUS
<1>2. op \in [Int \X Int -> Int] /\ \A a, b \in Int : op[<<a, b>>] = a + Swapped(b)
  BY SMTT(30) DEF Swapped, Word
<1> HIDE DEF op
<1>3. PICK f \in [0..Len(w) -> Int] :
        f[0] = 0 /\ \A i \in 1..Len(w) : f[i] = op[<<f[i - 1], w[i]>>]
  <2>1. 0 \in Int
    OBVIOUS
  <2> QED BY ZenonT(30), <1>2, <2>1, RunningExists
<1>4. \A i \in 1..Len(w) : op[<<f[i - 1], w[i]>>] = f[i - 1] + Swapped(w[i])
  BY <1>1, <1>2, <1>3
<1>5. f = F(f)
  <2>1. \A i \in 0..Len(w) : i # 0 => i \in 1..Len(w)
    BY <1>1
  <2>2. \A i \in 0..Len(w) : f[i] = IF i = 0 THEN 0 ELSE f[i - 1] + Swapped(w[i])
    BY Zenon, <1>3, <1>4, <2>1
  <2> QED BY Zenon, <1>3, <2>2
<1>6. r = F(r)
  <2> HIDE DEF F
  <2> QED BY <1>5
<1> HIDE DEF r
<1>7. \A i \in 0..Len(w) : r[i] = IF i = 0 THEN 0 ELSE r[i - 1] + Swapped(w[i])
  BY Zenon, <1>6
<1>8. r[0] = 0 /\ \A i \in 1..Len(w) : r[i] = r[i - 1] + Swapped(w[i])
  BY Zenon, <1>1, <1>7
<1>9. \A i \in 0..Len(w) : r[i] \in Int
  <2>1. r[0] \in Int
    BY <1>8
  <2>2. ASSUME NEW i \in 1..Len(w), r[i - 1] \in Int PROVE r[i] \in Int
    <3>1. r[i] = op[<<r[i - 1], w[i]>>]
      BY <1>1, <1>2, <1>8, <2>2
    <3> QED BY <1>1, <1>2, <2>2, <3>1
  <2> HIDE DEF F
  <2> QED BY <1>1, <2>1, <2>2, IntegerValues
<1>10. r \in [0..Len(w) -> Int]
  BY <1>6, <1>9
<1>12. CheckData(w) <=> FoldedTwice(r[Len(w)]) = 65535
  BY DEF CheckData, FoldedTwice, Folded, Swapped, r
<1> HIDE DEF F
<1> QED BY SMT, <1>8, <1>10, <1>12

-----------------------------------------------------------------------------
\* Sequences of 16-bit words.
Words == {w \in Seq(Nat) : \A i \in 1..Len(w) : w[i] < 65536}

\* Their words are numbers below 65536.
LEMMA WordsFacts ==
  ASSUME NEW w \in Words
  PROVE  /\ w \in Seq(Nat) /\ w \in Seq(Int) /\ Len(w) \in Nat
         /\ \A i \in 1..Len(w) : w[i] \in Nat /\ w[i] \in Int /\ w[i] < 65536
<1>1. w \in Seq(Nat) /\ \A i \in 1..Len(w) : w[i] < 65536
  BY DEF Words
<1>2. Len(w) \in Nat /\ \A i \in 1..Len(w) : w[i] \in Nat
  BY <1>1
<1>3. w \in Seq(Int)
  BY <1>1
<1> QED BY <1>1, <1>2, <1>3

\* Induction up to n, for the last number.
LEMMA AtLast ==
  ASSUME NEW n \in Nat, NEW T, 0 \in T, \A i \in 1..n : i - 1 \in T => i \in T
  PROVE  n \in T
<1>1. \A i \in 0..n : i \in T
  BY UpTo
<1> QED BY <1>1

\* One's complement sums are equal up to a multiple of 65535.
Congruent(a, b) == (a - b) % 65535 = 0

\* Up to a multiple of 65535 GenerateChecksumUnwrapped is the sum of the words.
LEMMA UnwrappedCongruent ==
  ASSUME NEW w \in Seq(Int), NEW s \in Int
  PROVE  /\ GenerateChecksumUnwrapped(w, s) \in Int /\ Total(w) \in Int
         /\ Congruent(GenerateChecksumUnwrapped(w, s), s + Total(w))
<1>1. PICK u \in [0..Len(w) -> Int] :
        /\ u[0] = s /\ GenerateChecksumUnwrapped(w, s) = u[Len(w)]
        /\ \A i \in 1..Len(w) : u[i] = AddWord(u[i - 1], w[i])
  BY UnwrappedSum
<1>2. PICK t \in [0..Len(w) -> Int] :
        /\ t[0] = 0 /\ Total(w) = t[Len(w)]
        /\ \A i \in 1..Len(w) : t[i] = t[i - 1] + w[i]
  BY TotalSum
<1> DEFINE P(i) == (u[i] - s - t[i]) % 65535 = 0
           T == {i \in 0..Len(w) : P(i)}
<1>3. Len(w) \in Nat
  OBVIOUS
<1>4. P(0)
  BY SMT, <1>1, <1>2
<1>5. ASSUME NEW i \in 1..Len(w), P(i - 1) PROVE P(i)
  <2>1. i - 1 \in 0..Len(w) /\ w[i] \in Int
    BY SMT, <1>3
  <2>2. t[i - 1] \in Int /\ u[i - 1] \in Int
    BY Zenon, <2>1
  <2>3. t[i] = t[i - 1] + w[i] /\ u[i] = AddWord(u[i - 1], w[i])
    BY Zenon, <1>1, <1>2
  <2>4. u[i] = u[i - 1] + w[i] \/ u[i] = u[i - 1] + w[i] - 65535
    BY SMT, <2>1, <2>2, <2>3 DEF AddWord
  <2> DEFINE a == u[i - 1]
             b == t[i - 1]
             c == u[i]
             d == t[i]
             y == w[i]
  <2>5. /\ a \in Int /\ b \in Int /\ y \in Int /\ (a - s - b) % 65535 = 0
        /\ d = b + y /\ (c = a + y \/ c = a + y - 65535)
    BY SMT, <1>5, <2>1, <2>2, <2>3, <2>4
  <2> HIDE DEF a, b, c, d, y
  <2>6. (c - s - d) % 65535 = 0
    <3>1. CASE c = a + y
      <4>1. c - s - d = a - s - b /\ c \in Int /\ d \in Int
        BY SMT, <2>5, <3>1
      <4> QED BY SMT, <2>5, <4>1
    <3>2. CASE c = a + y - 65535
      <4>1. c - s - d = (a - s - b) - 65535
        BY SMT, <2>5, <3>2
      <4> QED BY SMT, <2>5, <4>1
    <3> QED BY <2>5, <3>1, <3>2
  <2> QED BY SMT, <2>6 DEF c, d
<1> HIDE DEF P
<1>6. 0 \in T
  BY SMT, <1>3, <1>4
<1>7. \A i \in 1..Len(w) : i - 1 \in T => i \in T
  BY SMT, <1>3, <1>5
<1>8. Len(w) \in T
  <2> HIDE DEF T
  <2> QED BY SMT, <1>3, <1>6, <1>7, AtLast
<1>9. u[Len(w)] \in Int /\ t[Len(w)] \in Int
  BY SMT, <1>3
<1> DEFINE x == u[Len(w)]
           y == t[Len(w)]
<1>10. x \in Int /\ y \in Int /\ (x - s - y) % 65535 = 0
  BY SMT, <1>8, <1>9 DEF P
<1>11. x = GenerateChecksumUnwrapped(w, s) /\ y = Total(w)
  BY Zenon, <1>1, <1>2
<1> HIDE DEF x, y
<1>12. Congruent(x, s + y)
  BY SMT, <1>10 DEF Congruent
<1> QED BY SMT, <1>10, <1>11, <1>12

\* It stays below 65536, and above 0 when it starts there.
LEMMA UnwrappedRange ==
  ASSUME NEW w \in Words, NEW s \in Nat, s < 65536
  PROVE  /\ GenerateChecksumUnwrapped(w, s) \in Nat
         /\ GenerateChecksumUnwrapped(w, s) < 65536
         /\ s > 0 => GenerateChecksumUnwrapped(w, s) > 0
<1>1. w \in Seq(Int) /\ s \in Int
  BY SMT, WordsFacts
<1>2. PICK u \in [0..Len(w) -> Int] :
        /\ u[0] = s /\ GenerateChecksumUnwrapped(w, s) = u[Len(w)]
        /\ \A i \in 1..Len(w) : u[i] = AddWord(u[i - 1], w[i])
  BY SMT, <1>1, UnwrappedSum
<1> DEFINE P(i) == u[i] \in Nat /\ u[i] < 65536 /\ (s > 0 => u[i] > 0)
           T == {i \in 0..Len(w) : P(i)}
<1>3. Len(w) \in Nat
  BY SMT, <1>1
<1>4. P(0)
  BY SMT, <1>2
<1>5. ASSUME NEW i \in 1..Len(w), P(i - 1) PROVE P(i)
  <2>1. w[i] \in Nat /\ w[i] < 65536
    BY SMT, WordsFacts
  <2>2. u[i] = IF u[i - 1] + w[i] > 65535 THEN u[i - 1] + w[i] - 65535 ELSE u[i - 1] + w[i]
    BY SMT, <1>2 DEF AddWord
  <2> QED BY SMT, <1>5, <2>1, <2>2
<1> HIDE DEF P
<1>6. 0 \in T
  BY SMT, <1>3, <1>4
<1>7. \A i \in 1..Len(w) : i - 1 \in T => i \in T
  BY SMT, <1>3, <1>5
<1>8. Len(w) \in T
  <2> HIDE DEF T
  <2> QED BY SMT, <1>3, <1>6, <1>7, AtLast
<1> QED BY SMT, <1>2, <1>8 DEF P

\* Two sequences that differ in word k at most.
SameBut(v, w, k) == Len(v) = Len(w) /\ \A i \in 1..Len(w) : i # k => v[i] = w[i]

\* A sum changes by as much as the one word that changes.
LEMMA TotalChanged ==
  ASSUME NEW v \in Seq(Int), NEW w \in Seq(Int), NEW k \in 1..Len(w), SameBut(v, w, k)
  PROVE  Total(v) \in Int /\ Total(w) \in Int /\ Total(v) = Total(w) + (v[k] - w[k])
<1>1. PICK u \in [0..Len(v) -> Int] :
        /\ u[0] = 0 /\ Total(v) = u[Len(v)]
        /\ \A i \in 1..Len(v) : u[i] = u[i - 1] + v[i]
  BY SMTT(30), TotalSum
<1>2. PICK t \in [0..Len(w) -> Int] :
        /\ t[0] = 0 /\ Total(w) = t[Len(w)]
        /\ \A i \in 1..Len(w) : t[i] = t[i - 1] + w[i]
  BY SMTT(30), TotalSum
<1> DEFINE P(i) == IF i < k THEN u[i] = t[i] ELSE u[i] = t[i] + (v[k] - w[k])
           T == {i \in 0..Len(w) : P(i)}
<1>3. Len(w) \in Nat /\ Len(v) = Len(w) /\ v[k] \in Int /\ w[k] \in Int
  BY SMT DEF SameBut
<1>4. P(0)
  BY SMT, <1>1, <1>2
<1>5. ASSUME NEW i \in 1..Len(w), P(i - 1) PROVE P(i)
  <2>0. i - 1 \in 0..Len(w) /\ i \in 1..Len(v) /\ i - 1 \in 0..Len(v)
    BY SMT, <1>3
  <2>1. w[i] \in Int /\ v[i] \in Int
    BY SMT, <2>0
  <2>2. /\ t[i - 1] \in Int /\ t[i] = t[i - 1] + w[i]
        /\ u[i - 1] \in Int /\ u[i] = u[i - 1] + v[i]
    BY Zenon, <1>1, <1>2, <2>0
  <2>3. CASE i = k
    BY SMTT(30), <1>5, <2>1, <2>2, <2>3
  <2>4. CASE i # k
    <3>1. v[i] = w[i] /\ (i - 1 < k <=> i < k)
      BY SMT, <2>4 DEF SameBut
    <3>2. CASE i < k
      BY SMT, <1>5, <2>1, <2>2, <3>1, <3>2
    <3>3. CASE ~ (i < k)
      <4>1. u[i - 1] = t[i - 1] + (v[k] - w[k])
        BY SMT, <1>5, <3>1, <3>3
      <4>2. u[i] = t[i] + (v[k] - w[k])
        <5> DEFINE delta == v[k] - w[k]
        <5>1. delta \in Int /\ u[i - 1] = t[i - 1] + delta
          BY SMT, <1>3, <4>1
        <5> HIDE DEF delta
        <5>2. u[i] = t[i] + delta
          BY SMTT(30), <2>1, <2>2, <3>1, <5>1
        <5> QED BY <5>2 DEF delta
      <4> QED BY SMT, <3>3, <4>2
    <3> QED BY <3>2, <3>3
  <2> QED BY <2>3, <2>4
<1> HIDE DEF P
<1>6. 0 \in T
  BY SMT, <1>3, <1>4
<1>7. \A i \in 1..Len(w) : i - 1 \in T => i \in T
  BY SMT, <1>3, <1>5
<1>8. Len(w) \in T
  <2> HIDE DEF T
  <2> QED BY SMT, <1>3, <1>6, <1>7, AtLast
<1>9. Len(w) \in 0..Len(w) /\ ~ (Len(w) < k)
  BY SMT, <1>3
<1>10. u[Len(w)] = t[Len(w)] + (v[k] - w[k])
  BY SMT, <1>8, <1>9 DEF P
<1>11. t[Len(w)] \in Int /\ u[Len(w)] \in Int
  BY SMT, <1>3, <1>9
<1> QED BY SMT, <1>1, <1>2, <1>3, <1>10, <1>11

\* The sum that CheckData forms is 256 times the sum of the words, up to a
\* multiple of 65535.
HeaderSum(w, sum) ==
  /\ CheckData(w) <=> FoldedTwice(sum) = 65535
  /\ Total(w) \in Int /\ (sum - 256 * Total(w)) % 65535 = 0
  /\ sum <= 65535 * Len(w)
  /\ \A j \in 1..Len(w) : w[j] > 0 => sum > 0

\* There is such a sum.
LEMMA SwappedTotal ==
  ASSUME NEW w \in Words
  PROVE  \E sum \in Nat : HeaderSum(w, sum)
<1>0. w \in Seq(Int)
  BY SMT, WordsFacts
<1>1. PICK u \in [0..Len(w) -> Int] :
        /\ u[0] = 0 /\ \A i \in 1..Len(w) : u[i] = u[i - 1] + Swapped(w[i])
        /\ CheckData(w) <=> FoldedTwice(u[Len(w)]) = 65535
  BY SMT, <1>0, CheckDataSum
<1>2. PICK t \in [0..Len(w) -> Int] :
        /\ t[0] = 0 /\ Total(w) = t[Len(w)]
        /\ \A i \in 1..Len(w) : t[i] = t[i - 1] + w[i]
  BY SMT, <1>0, TotalSum
<1> DEFINE P(i) == /\ (u[i] - 256 * t[i]) % 65535 = 0 /\ u[i] \in Nat /\ u[i] <= 65535 * i
                   /\ \A j \in 1..i : w[j] > 0 => u[i] > 0
           T == {i \in 0..Len(w) : P(i)}
<1>3. Len(w) \in Nat
  BY SMT, WordsFacts
<1>4. P(0)
  BY SMT, <1>1, <1>2
<1>5. ASSUME NEW i \in 1..Len(w), P(i - 1) PROVE P(i)
  <2>0. i - 1 \in 0..Len(w)
    BY SMT, <1>3
  <2>1. u[i - 1] \in Nat /\ (u[i - 1] - 256 * t[i - 1]) % 65535 = 0 /\ u[i - 1] <= 65535 * (i - 1)
    BY SMT, <1>5
  <2>2. /\ t[i - 1] \in Int /\ w[i] \in Nat /\ w[i] < 65536
        /\ t[i] = t[i - 1] + w[i] /\ u[i] = u[i - 1] + Swapped(w[i])
    BY SMTT(30), <1>1, <1>2, <2>0, WordsFacts
  <2> DEFINE q == w[i] \div 256
             x == Swapped(w[i])
  <2>3. q \in Int /\ x = 256 * w[i] - 65535 * q /\ x \in Nat /\ x < 65536 /\ (w[i] > 0 => x > 0)
    <3> DEFINE y == w[i]
    <3>1. y \in Nat /\ y < 65536
      BY <2>2
    <3> HIDE DEF y
    <3>2. /\ y \div 256 \in Int /\ Swapped(y) = 256 * y - 65535 * (y \div 256)
          /\ Swapped(y) \in Nat /\ Swapped(y) < 65536 /\ (y > 0 => Swapped(y) > 0)
      BY SMT, <3>1, SwappedCongruent
    <3> QED BY <3>2 DEF y
  <2> HIDE DEF q
  <2>4. u[i] = u[i - 1] + x
    BY <2>2
  <2> HIDE DEF x
  <2>5. (u[i] - 256 * t[i]) % 65535 = 0
    <3> DEFINE a == u[i - 1]
               b == t[i - 1]
               c == u[i]
               d == t[i]
               y == w[i]
    <3>1. a \in Int /\ b \in Int /\ y \in Int /\ (a - 256 * b) % 65535 = 0
      BY SMT, <2>1, <2>2
    <3>2. c = a + x /\ d = b + y /\ q \in Int /\ x = 256 * y - 65535 * q /\ x \in Int
      BY SMT, <2>2, <2>3, <2>4
    <3> HIDE DEF a, b, c, d, y
    <3>3. (c - 256 * d) % 65535 = 0
      BY SMT, <3>1, <3>2
    <3> QED BY SMT, <3>3 DEF c, d
  <2>7. u[i] \in Nat /\ u[i] <= 65535 * i
    BY SMT, <2>1, <2>3, <2>4
  <2>8. ASSUME NEW j \in 1..i, w[j] > 0 PROVE u[i] > 0
    <3>1. CASE j = i
      BY SMT, <2>1, <2>3, <2>4, <2>8, <3>1
    <3>2. CASE j # i
      <4>1. j \in 1..(i - 1)
        BY SMT, <3>2
      <4>2. u[i - 1] > 0
        BY SMT, <1>5, <2>8, <4>1
      <4> QED BY SMT, <2>1, <2>3, <2>4, <4>2
    <3> QED BY <3>1, <3>2
  <2> QED BY SMT, <2>5, <2>7, <2>8
<1> HIDE DEF P
<1>6. 0 \in T
  BY SMT, <1>3, <1>4
<1>7. \A i \in 1..Len(w) : i - 1 \in T => i \in T
  BY SMT, <1>3, <1>5
<1>8. Len(w) \in T
  <2> HIDE DEF T
  <2> QED BY SMT, <1>3, <1>6, <1>7, AtLast
<1> DEFINE sum == u[Len(w)]
<1>9. /\ (sum - 256 * t[Len(w)]) % 65535 = 0 /\ sum \in Nat /\ sum <= 65535 * Len(w)
      /\ \A j \in 1..Len(w) : w[j] > 0 => sum > 0
  BY SMT, <1>8 DEF P
<1>10. Total(w) \in Int /\ Total(w) = t[Len(w)]
  BY SMT, <1>2, <1>3
<1> HIDE DEF T
<1>11. HeaderSum(w, sum)
  BY SMT, <1>1, <1>9, <1>10 DEF HeaderSum
<1> QED BY <1>9, <1>11

-----------------------------------------------------------------------------
\* The two foldings of CheckData give 65535 for multiples of 65535 only, and
\* for all of them up to ten words' sum.
LEMMA FoldedMultiple ==
  ASSUME NEW sum \in Nat
  PROVE  /\ FoldedTwice(sum) = 65535 => sum % 65535 = 0
         /\ sum % 65535 = 0 /\ sum > 0 /\ sum <= 655350 => FoldedTwice(sum) = 65535
<1> DEFINE a == sum \div 65536
           b == sum % 65536
           c == (a + b) \div 65536
<1>1. sum = 65536 * a + b /\ a \in Nat /\ b \in Nat /\ b < 65536
  BY SMT
<1>2. FoldedTwice(sum) = (a + b) + c
  BY DEF FoldedTwice, Folded, Uint16
<1> HIDE DEF a, b
<1>3. c \in Nat /\ (a + b < 65536 => c = 0) /\ (a + b >= 65536 => a + b + c > 65535)
  BY SMT, <1>1
<1> HIDE DEF c
<1>4. a + b + c = 65535 => a + b = 65535
  BY SMT, <1>1, <1>3
<1>5. a + b = 65535 => sum % 65535 = 0
  <2>1. a + b = 65535 => sum = 65535 * (a + 1)
    BY SMT, <1>1
  <2> QED BY SMT, <1>1, <2>1
<1>6. ASSUME sum % 65535 = 0, sum > 0, sum <= 655350 PROVE a + b = 65535
  <2>1. a < 10 /\ a + b > 0 /\ a + b < 131070
    BY SMT, <1>1, <1>6
  <2>2. (a + b) % 65535 = 0
    <3>1. a + b = sum - 65535 * a
      BY SMT, <1>1
    <3> QED BY SMT, <1>1, <1>6, <3>1
  <2> QED BY SMT, <1>1, <2>1, <2>2
<1>7. a + b = 65535 => a + b + c = 65535
  BY SMT, <1>1, <1>3
<1> QED BY SMT, <1>2, <1>4, <1>5, <1>6, <1>7

\* CheckData accepts words only if their sum is a multiple of 65535.
LEMMA HeaderRefused ==
  ASSUME NEW w \in Words, CheckData(w)
  PROVE  Total(w) \in Int /\ Total(w) % 65535 = 0
<1>1. PICK sum \in Nat : HeaderSum(w, sum)
  BY SwappedTotal
<1>2. sum % 65535 = 0
  BY SMT, <1>1, FoldedMultiple DEF HeaderSum
<1> DEFINE t == Total(w)
<1>3. t \in Int /\ (sum - 256 * t) % 65535 = 0
  BY <1>1 DEF HeaderSum
<1> HIDE DEF t
<1>4. (256 * t) % 65535 = 0
  BY SMT, <1>2, <1>3
<1>5. t % 65535 = 0
  BY SMT, <1>3, <1>4
<1> QED BY SMT, <1>3, <1>5 DEF t

\* It accepts a header of ten words whose sum is such a multiple.
LEMMA HeaderAccepted ==
  ASSUME NEW w \in Words, Len(w) = 10, w[1] > 0, Total(w) % 65535 = 0
  PROVE  CheckData(w)
<1>1. PICK sum \in Nat : HeaderSum(w, sum)
  BY SwappedTotal
<1> DEFINE t == Total(w)
<1>2. t \in Int /\ t % 65535 = 0 /\ (sum - 256 * t) % 65535 = 0
  BY <1>1 DEF HeaderSum
<1> HIDE DEF t
<1>3. sum % 65535 = 0
  BY SMT, <1>2
<1>4. sum > 0 /\ sum <= 655350
  BY SMT, <1>1 DEF HeaderSum
<1>5. FoldedTwice(sum) = 65535
  BY SMT, <1>3, <1>4, FoldedMultiple
<1> QED BY <1>1, <1>5 DEF HeaderSum

\* Parts of a sequence of words are such sequences.
LEMMA WordsPart ==
  ASSUME NEW w \in Words, NEW k \in Nat, k > 0, NEW n \in Nat, n <= Len(w)
  PROVE  SubSeq(w, k, n) \in Words
<1>1. w \in Seq(Nat) /\ \A i \in 1..Len(w) : w[i] < 65536
  BY DEF Words
<1> DEFINE part == SubSeq(w, k, n)
<1>2. part \in Seq(Nat)
  BY SMT, <1>1
<1>3. \A i \in 1..Len(part) : part[i] = w[k + i - 1] /\ k + i - 1 \in 1..Len(w)
  BY SMT, <1>1
<1> HIDE DEF part
<1>4. ASSUME NEW i \in 1..Len(part) PROVE part[i] < 65536
  <2> DEFINE j == k + i - 1
  <2>1. part[i] = w[j] /\ j \in 1..Len(w)
    BY SMT, <1>3
  <2> HIDE DEF j
  <2> QED BY SMT, <1>1, <2>1
<1>5. part \in Words
  BY SMT, <1>2, <1>4 DEF Words
<1> QED BY SMT, <1>5 DEF part

\* So are two of them behind each other.
LEMMA WordsConcat ==
  ASSUME NEW v \in Words, NEW w \in Words
  PROVE  /\ v \o w \in Words /\ Len(v \o w) = Len(v) + Len(w)
         /\ \A i \in 1..Len(v) : (v \o w)[i] = v[i]
         /\ \A i \in 1..Len(w) : (v \o w)[Len(v) + i] = w[i]
<1>1. /\ v \in Seq(Nat) /\ \A i \in 1..Len(v) : v[i] < 65536
      /\ w \in Seq(Nat) /\ \A i \in 1..Len(w) : w[i] < 65536
  BY DEF Words
<1>2. /\ v \o w \in Seq(Nat) /\ Len(v \o w) = Len(v) + Len(w)
      /\ \A i \in 1..Len(v) + Len(w) :
           (v \o w)[i] = IF i <= Len(v) THEN v[i] ELSE w[i - Len(v)]
  BY <1>1, ConcatProperties
<1> DEFINE c == v \o w
<1> HIDE DEF c
<1>3. Len(v) \in Nat /\ Len(w) \in Nat
  BY <1>1
<1>4. /\ c \in Seq(Nat) /\ Len(c) = Len(v) + Len(w)
      /\ \A i \in 1..Len(v) + Len(w) : c[i] = IF i <= Len(v) THEN v[i] ELSE w[i - Len(v)]
  BY <1>2 DEF c
<1>5. \A i \in 1..Len(v) : c[i] = v[i]
  BY SMT, <1>3, <1>4
<1>6. \A i \in 1..Len(w) : c[Len(v) + i] = w[i]
  <2> TAKE i \in 1..Len(w)
  <2>1. Len(v) + i \in 1..Len(v) + Len(w) /\ ~ (Len(v) + i <= Len(v)) /\ (Len(v) + i) - Len(v) = i
    BY SMT, <1>3
  <2> QED BY SMT, <1>4, <2>1
<1>7. ASSUME NEW i \in 1..Len(c) PROVE c[i] < 65536
  <2>1. CASE i <= Len(v)
    BY SMTT(30), <1>1, <1>3, <1>4, <2>1
  <2>2. CASE i > Len(v)
    <3>1. i - Len(v) \in 1..Len(w) /\ c[i] = w[i - Len(v)]
      BY SMT, <1>3, <1>4, <2>2
    <3> QED BY SMT, <1>1, <3>1
  <2> QED BY SMT, <1>3, <1>4, <2>1, <2>2
<1>8. c \in Words
  BY SMT, <1>4, <1>7 DEF Words
<1> QED BY <1>4, <1>5, <1>6, <1>8 DEF c

\* So is one in which a word is replaced by another.
LEMMA WordsExcept ==
  ASSUME NEW w \in Words, NEW k \in 1..Len(w), NEW x \in Nat, x < 65536
  PROVE  LET v == [w EXCEPT ![k] = x]
         IN  v \in Words /\ Len(v) = Len(w) /\ v[k] = x /\ SameBut(v, w, k)
<1> DEFINE v == [w EXCEPT ![k] = x]
<1>1. w \in Seq(Nat) /\ \A i \in 1..Len(w) : w[i] < 65536
  BY DEF Words
<1>2. v \in Seq(Nat) /\ Len(v) = Len(w)
  BY SMT, <1>1
<1>3. \A i \in 1..Len(w) : v[i] = IF i = k THEN x ELSE w[i]
  BY SMT, <1>1
<1> HIDE DEF v
<1>4. \A i \in 1..Len(v) : v[i] < 65536
  BY SMT, <1>1, <1>2, <1>3
<1>5. v \in Words
  BY SMT, <1>2, <1>4 DEF Words
<1>6. v[k] = x /\ SameBut(v, w, k)
  BY <1>2, <1>3 DEF SameBut
<1> QED BY <1>2, <1>5, <1>6 DEF v

-----------------------------------------------------------------------------
\* The headers and the payload of a frame are words.
FrameWords(f) ==
  /\ f.ip \in Words /\ Len(f.ip) = 10
  /\ f.udp \in Words /\ Len(f.udp) = 4
  /\ f.payload \in Words

\* What the UDP checksum is about: the pseudo header, the payload and the header.
UDPTotal(f) ==
  (IPPROTO_UDP + f.udp[3]) + Total(SubSeq(f.ip, 7, 10)) + Total(f.payload) + Total(f.udp)

\* UDPSum is that sum up to a multiple of 65535, between 1 and 65535 unless the
\* length is close to 65536.
LEMMA UDPSumCongruent ==
  ASSUME NEW f, FrameWords(f)
  PROVE  /\ UDPSum(f, f.payload) \in Int /\ UDPTotal(f) \in Int
         /\ (UDPSum(f, f.payload) - UDPTotal(f)) % 65535 = 0
         /\ f.udp[3] < 65519 => /\ UDPSum(f, f.payload) \in Nat
                                /\ UDPSum(f, f.payload) > 0 /\ UDPSum(f, f.payload) < 65536
<1> DEFINE addresses == SubSeq(f.ip, 7, 10)
           p == f.payload
           h == f.udp
           s0 == IPPROTO_UDP + f.udp[3]
           s1 == GenerateChecksumUnwrapped(addresses, s0)
           s2 == GenerateChecksumUnwrapped(p, s1)
           s3 == GenerateChecksumUnwrapped(h, s2)
<1>1. addresses \in Words
  <2>1. f.ip \in Words /\ 7 \in Nat /\ 7 > 0 /\ 10 \in Nat /\ 10 <= Len(f.ip)
    BY SMT DEF FrameWords
  <2> QED BY SMT, <2>1, WordsPart
<1>2. p \in Words /\ h \in Words
  BY DEF FrameWords
<1>3. s0 \in Nat /\ (f.udp[3] < 65519 => s0 < 65536) /\ s0 > 0
  <2>1. 3 \in 1..Len(h)
    BY SMT DEF FrameWords
  <2>2. h[3] \in Nat
    BY SMT, <1>2, <2>1, WordsFacts
  <2> QED BY SMT, <2>2 DEF IPPROTO_UDP
<1>4. UDPSum(f, f.payload) = s3
  BY Zenon DEF UDPSum, PseudoHeader
<1>5. UDPTotal(f) = s0 + Total(addresses) + Total(p) + Total(h)
  BY Zenon DEF UDPTotal
<1> HIDE DEF addresses, p, h, s0
<1>6. addresses \in Seq(Int) /\ p \in Seq(Int) /\ h \in Seq(Int)
  BY <1>1, <1>2, WordsFacts
<1>7. s1 \in Int /\ Total(addresses) \in Int /\ Congruent(s1, s0 + Total(addresses))
  <2>1. s0 \in Int
    BY SMT, <1>3
  <2> QED BY Zenon, <1>6, <2>1, UnwrappedCongruent
<1>8. s0 < 65536 => s1 \in Nat /\ s1 < 65536 /\ s1 > 0
  BY SMT, <1>1, <1>3, UnwrappedRange
<1> HIDE DEF s1
<1>9. s2 \in Int /\ Total(p) \in Int /\ Congruent(s2, s1 + Total(p))
  BY Zenon, <1>6, <1>7, UnwrappedCongruent
<1>10. s0 < 65536 => s2 \in Nat /\ s2 < 65536 /\ s2 > 0
  BY SMT, <1>2, <1>8, UnwrappedRange
<1> HIDE DEF s2
<1>11. s3 \in Int /\ Total(h) \in Int /\ Congruent(s3, s2 + Total(h))
  BY Zenon, <1>6, <1>9, UnwrappedCongruent
<1>12. s0 < 65536 => s3 \in Nat /\ s3 < 65536 /\ s3 > 0
  BY SMT, <1>2, <1>10, UnwrappedRange
<1> HIDE DEF s3
<1> DEFINE a == Total(addresses)
           b == Total(p)
           c == Total(h)
           t == s0 + a + b + c
<1>13. /\ s0 \in Int /\ s1 \in Int /\ s2 \in Int /\ s3 \in Int
       /\ a \in Int /\ b \in Int /\ c \in Int
       /\ Congruent(s1, s0 + a) /\ Congruent(s2, s1 + b) /\ Congruent(s3, s2 + c)
  BY SMT, <1>3, <1>7, <1>9, <1>11
<1> HIDE DEF a, b, c
<1>14. t \in Int /\ (s3 - t) % 65535 = 0
  <2> DEFINE x == s1 - (s0 + a)
             y == s2 - (s1 + b)
             z == s3 - (s2 + c)
  <2>1. x \in Int /\ y \in Int /\ z \in Int /\ x % 65535 = 0 /\ y % 65535 = 0 /\ z % 65535 = 0
    BY SMT, <1>13 DEF Congruent
  <2>2. s3 - t = x + y + z
    BY SMT, <1>13
  <2> HIDE DEF x, y, z
  <2>4. (x + y + z) % 65535 = 0
    BY SMT, <2>1
  <2>3. t \in Int
    BY SMT, <1>13
  <2> QED BY SMT, <1>13, <2>2, <2>3, <2>4
<1>15. UDPTotal(f) = t
  BY <1>5 DEF a, b, c
<1> HIDE DEF t
<1> QED BY SMT, <1>3, <1>4, <1>12, <1>13, <1>14, <1>15

\* CheckUDP accepts only frames whose sum is a multiple of 65535 ...
LEMMA UDPRefused ==
  ASSUME NEW f, FrameWords(f), CheckUDP(f)
  PROVE  UDPTotal(f) \in Int /\ UDPTotal(f) % 65535 = 0
<1> DEFINE s == UDPSum(f, f.payload)
           t == UDPTotal(f)
<1>1. s \in Int /\ t \in Int /\ (s - t) % 65535 = 0
  BY SMT, UDPSumCongruent
<1>2. s = 65535
  BY SMT DEF CheckUDP
<1> HIDE DEF s, t
<1>3. t % 65535 = 0
  BY SMT, <1>1, <1>2
<1> QED BY SMT, <1>1, <1>3 DEF t

\* ... and all of these unless the length is close to 65536.
LEMMA UDPAccepted ==
  ASSUME NEW f, FrameWords(f), f.udp[3] < 65519, UDPTotal(f) % 65535 = 0
  PROVE  CheckUDP(f)
<1> DEFINE s == UDPSum(f, f.payload)
           t == UDPTotal(f)
<1>1. s \in Int /\ t \in Int /\ (s - t) % 65535 = 0 /\ s > 0 /\ s < 65536 /\ t % 65535 = 0
  BY SMT, UDPSumCongruent
<1> HIDE DEF s, t
<1>2. s % 65535 = 0
  BY SMT, <1>1
<1>3. s = 65535
  BY SMT, <1>1, <1>2
<1> QED BY SMT, <1>3 DEF s, CheckUDP

-----------------------------------------------------------------------------
\* Two words are a sequence of words.
LEMMA TwoWords ==
  ASSUME NEW x \in Nat, x < 65536, NEW y \in Nat, y < 65536
  PROVE  <<x, y>> \in Words /\ Len(<<x, y>>) = 2 /\ <<x, y>>[1] = x /\ <<x, y>>[2] = y
<1> DEFINE s == <<x, y>>
<1>1. s \in Seq(Nat) /\ Len(s) = 2 /\ s[1] = x /\ s[2] = y
  BY SMT
<1> HIDE DEF s
<1>2. \A i \in 1..Len(s) : s[i] < 65536
  BY SMT, <1>1
<1>3. s \in Words
  <2>1. s \in Seq(Nat)
    BY <1>1
  <2> QED BY SMT, <1>2, <2>1 DEF Words
<1> QED BY SMT, <1>1, <1>3 DEF s

\* Two bytes are a word.
LEMMA WordRange ==
  ASSUME NEW a \in Nat, a < 256, NEW b \in Nat, b < 256
  PROVE  Word(a, b) \in Nat /\ Word(a, b) < 65536
BY SMT DEF Word

\* An IP address is two words.
LEMMA AddressWordsFacts ==
  ASSUME NEW a \in Address
  PROVE  AddressWords(a) \in Words /\ Len(AddressWords(a)) = 2
<1> DEFINE x == Word(a[1], a[2])
           y == Word(a[3], a[4])
<1>2. x \in Nat /\ x < 65536 /\ y \in Nat /\ y < 65536
  <2>1. /\ a[1] \in Nat /\ a[2] \in Nat /\ a[3] \in Nat /\ a[4] \in Nat
        /\ a[1] < 256 /\ a[2] < 256 /\ a[3] < 256 /\ a[4] < 256
    BY AddressBytes
  <2> QED BY SMT, <2>1, WordRange
<1>3. AddressWords(a) = <<x, y>>
  BY DEF AddressWords
<1> HIDE DEF x, y
<1> QED BY SMT, <1>2, <1>3, TwoWords

\* The fields of an event.
LEMMA EventFacts ==
  ASSUME NEW e \in Events
  PROVE  /\ \E high, low \in Nat : e.timestamp = <<high, low>> /\ high < 65536 /\ low < 65536
         /\ e.fineTime \in Nat /\ e.fineTime < 256
         /\ e.zSuppressed \in Nat /\ e.zSuppressed < 256
         /\ e.triggerTypeWord \in Nat /\ e.triggerTypeWord < 65536
         /\ e.eventNumber \in Nat
<1>1. /\ e.timestamp \in UINT16 \X UINT16
      /\ e.fineTime \in UINT8 /\ e.zSuppressed \in {0, 1}
      /\ e.triggerTypeWord \in UINT16 /\ e.eventNumber \in Nat
  BY FormatsAssumption
<1>2. PICK high \in UINT16, low \in UINT16 : e.timestamp = <<high, low>>
  BY SMT, <1>1
<1>3. high \in Nat /\ high < 65536 /\ low \in Nat /\ low < 65536
  BY SMT, Uint16Member
<1>4. e.fineTime \in Nat /\ e.fineTime < 256 /\ e.zSuppressed \in Nat /\ e.zSuppressed < 256
  BY SMT, <1>1, Uint8Member
<1>5. e.triggerTypeWord \in Nat /\ e.triggerTypeWord < 65536
  BY SMT, <1>1, Uint16Member
<1>6. \E x, y \in Nat : e.timestamp = <<x, y>> /\ x < 65536 /\ y < 65536
  BY SMT, <1>2, <1>3
<1> QED BY SMT, <1>1, <1>4, <1>5, <1>6

\* A trigger is six words.
LEMMA TriggerIsWords ==
  ASSUME NEW e \in Events
  PROVE  /\ generateTriggerHDR(e) \in Words /\ Len(generateTriggerHDR(e)) = 6
         /\ ExpectedTrigger(e, generateTriggerHDR(e))
<1>1. PICK high \in Nat, low \in Nat : e.timestamp = <<high, low>> /\ high < 65536 /\ low < 65536
  BY SMT, EventFacts
<1>2. /\ e.fineTime \in Nat /\ e.fineTime < 256
      /\ e.zSuppressed \in Nat /\ e.zSuppressed < 256
      /\ e.triggerTypeWord \in Nat /\ e.triggerTypeWord < 65536
      /\ e.eventNumber \in Nat
  BY SMT, EventFacts
<1> DEFINE first == e.timestamp
           second == <<Word(e.fineTime, e.zSuppressed), e.triggerTypeWord>>
           third == EventNumberWords(e.eventNumber)
<1>3. first \in Words
  BY SMT, <1>1, TwoWords
<1>4. second \in Words
  BY SMT, <1>2, WordRange, TwoWords
<1>5. third \in Words
  <2> DEFINE n == e.eventNumber
  <2>1. n \div 256^0 \in Nat /\ n \div 256^1 \in Nat /\ n \div 256^2 \in Nat
    <3>1. 256^0 = 1 /\ 256^1 = 256 /\ 256^2 = 65536
      BY SMT
    <3> QED BY SMT, <1>2, <3>1
  <2>2. /\ Byte(n, 0) \in Nat /\ Byte(n, 0) < 256 /\ Byte(n, 1) \in Nat /\ Byte(n, 1) < 256
        /\ Byte(n, 2) \in Nat /\ Byte(n, 2) < 256
    BY SMT, <2>1 DEF Byte
  <2> DEFINE x == Word(0, Byte(n, 2))
             y == Word(Byte(n, 1), Byte(n, 0))
  <2>3. x \in Nat /\ x < 65536 /\ y \in Nat /\ y < 65536
    BY SMT, <2>2, WordRange
  <2>4. third = <<x, y>>
    BY Zenon DEF EventNumberWords
  <2> HIDE DEF x, y, third
  <2> QED BY SMT, <2>3, <2>4, TwoWords
<1>6. generateTriggerHDR(e) = (first \o second) \o third
  BY Zenon DEF generateTriggerHDR
<1>7. /\ Len(generateTriggerHDR(e)) = 6
      /\ ExpectedTrigger(e, generateTriggerHDR(e))
  BY SMT, <1>1, <1>2, TriggersDecoded
<1> HIDE DEF first, second, third
<1>8. first \o second \in Words
  BY SMT, <1>3, <1>4, WordsConcat
<1>9. (first \o second) \o third \in Words
  BY SMT, <1>5, <1>8, WordsConcat
<1> QED BY SMT, <1>6, <1>7, <1>9

\* The words of the triggers are behind word number first of a sequence.
Carries(words, first, events) ==
  \A i \in 1..Len(events), r \in 1..6, j \in Int :
    j = first + 6 * (i - 1) + r => words[j] = generateTriggerHDR(events[i])[r]

\* The words of a trigger are found where the offset of Async_SendMRP puts it.
LEMMA TriggerWordsFacts ==
  ASSUME NEW events \in Seq(Events)
  PROVE  /\ TriggerWords(events) \in Words
         /\ Len(TriggerWords(events)) = 6 * Len(events)
         /\ Carries(TriggerWords(events), 0, events)
<1> DEFINE n == Len(events)
           all == TriggerWords(events)
           at(j) == ((j - 1) \div 6) + 1
           of(j) == ((j - 1) % 6) + 1
<1>1. n \in Nat /\ 6 * n \in Nat
  BY SMT
<1>2. all = [j \in 1..6 * n |-> generateTriggerHDR(events[at(j)])[of(j)]]
  BY DEF TriggerWords
<1>3. ASSUME NEW j \in 1..6 * n PROVE at(j) \in 1..n /\ of(j) \in 1..6
  BY SMT, <1>1
<1>4. ASSUME NEW j \in 1..6 * n
      PROVE  /\ generateTriggerHDR(events[at(j)])[of(j)] \in Nat
             /\ generateTriggerHDR(events[at(j)])[of(j)] < 65536
  <2> DEFINE e == events[at(j)]
             k == of(j)
             w == generateTriggerHDR(e)
  <2>1. e \in Events /\ k \in 1..6
    BY SMT, <1>3
  <2> HIDE DEF e, k
  <2>2. w \in Words /\ Len(w) = 6
    BY SMT, <2>1, TriggerIsWords
  <2> HIDE DEF w
  <2>4. k \in 1..Len(w)
    BY <2>1, <2>2
  <2>3. w[k] \in Nat /\ w[k] < 65536
    <3>1. \A i \in 1..Len(w) : w[i] \in Nat /\ w[i] < 65536
      <4>1. w \in Words
        BY <2>2
      <4> QED BY SMT, <4>1, WordsFacts
    <3> QED BY SMT, <2>4, <3>1
  <2> QED BY SMT, <2>3 DEF w, e, k
<1> HIDE DEF at, of, all, n
<1>6. \A j \in 1..6 * n : all[j] = generateTriggerHDR(events[at(j)])[of(j)]
  BY SMT, <1>2
<1>7. all \in [1..6 * n -> Nat]
  BY SMT, <1>2, <1>4
<1>8. all \in Seq(Nat) /\ Len(all) = 6 * n
  BY SMT, <1>1, <1>7
<1>9. \A j \in 1..Len(all) : all[j] < 65536
  BY SMT, <1>4, <1>6, <1>8
<1>10. all \in Words
  BY SMT, <1>8, <1>9 DEF Words
<1>11. ASSUME NEW i \in 1..n, NEW r \in 1..6, NEW j \in Int, j = 0 + 6 * (i - 1) + r
       PROVE  all[j] = generateTriggerHDR(events[i])[r]
  <2>1. j \in 1..6 * n /\ at(j) = i /\ of(j) = r
    BY SMT, <1>1, <1>11 DEF at, of
  <2> QED BY SMT, <1>6, <2>1
<1>12. Carries(all, 0, events)
  BY <1>11 DEF Carries, n
<1> QED BY <1>8, <1>10, <1>12 DEF all, n

-----------------------------------------------------------------------------
\* The headers with their lengths and without checksums, and the payload.
IPStart(g, n) == [HeaderTemplate(g).ip EXCEPT ![2] = LengthFields(n).totLen]

UDPStart(g, n) == [HeaderTemplate(g).udp EXCEPT ![3] = LengthFields(n).udpLen]

PayloadOf(g, events) ==
  [HeaderTemplate(g).payload EXCEPT
     ![1] = LengthFields(Len(events)).numberOfTriggers,
     ![2] = LengthFields(Len(events)).MRPLength] \o TriggerWords(events)

Start(g, events) ==
  [mac |-> DestinationMac(g), ip |-> IPStart(g, Len(events)),
   udp |-> UDPStart(g, Len(events)), payload |-> PayloadOf(g, events)]

\* What the assignments to the lengths in a frame do.
LEMMA FieldsFilled ==
  ASSUME NEW m, NEW i, NEW u, NEW p, NEW a, NEW b, NEW c, NEW d, NEW r
  PROVE  LET f == [[mac |-> m, ip |-> i, udp |-> u, payload |-> p] EXCEPT
                     !.ip[2] = a, !.udp[3] = b,
                     !.payload = [@ EXCEPT ![1] = c, ![2] = d] \o r]
         IN  /\ DOMAIN f = {"mac", "ip", "udp", "payload"}
             /\ f.ip = [i EXCEPT ![2] = a] /\ f.udp = [u EXCEPT ![3] = b]
             /\ f.payload = [p EXCEPT ![1] = c, ![2] = d] \o r
BY SMT

\* What the assignments to the checksums do.
LEMMA ChecksumsFilled ==
  ASSUME NEW f, DOMAIN f = {"mac", "ip", "udp", "payload"}, NEW a, NEW b
  PROVE  LET h == [f EXCEPT !.ip[6] = a, !.udp[4] = b]
         IN  /\ DOMAIN h = {"mac", "ip", "udp", "payload"}
             /\ h.ip = [f.ip EXCEPT ![6] = a] /\ h.udp = [f.udp EXCEPT ![4] = b]
             /\ h.payload = f.payload
BY SMT

\* Async_SendMRP fills the lengths into the template and then the checksums.
LEMMA MRPFrameIs ==
  ASSUME NEW g, NEW events
  PROVE  LET f == MRPFrame(g, events)
             n == Len(events)
         IN  /\ DOMAIN f = {"mac", "ip", "udp", "payload"}
             /\ f.ip = [IPStart(g, n) EXCEPT ![6] = GenerateChecksum(IPStart(g, n))]
             /\ f.udp = [UDPStart(g, n) EXCEPT
                           ![4] = GenerateUDPChecksum(Start(g, events),
                                                      LengthFields(n).MRPLength)]
             /\ f.payload = PayloadOf(g, events)
<1> DEFINE n == Len(events)
           t == HeaderTemplate(g)
           hdr == [t EXCEPT
                     !.ip[2] = LengthFields(n).totLen,
                     !.udp[3] = LengthFields(n).udpLen,
                     !.payload = [@ EXCEPT ![1] = LengthFields(n).numberOfTriggers,
                                           ![2] = LengthFields(n).MRPLength]
                                   \o TriggerWords(events)]
           x == GenerateChecksum(hdr.ip)
           y == GenerateUDPChecksum(hdr, LengthFields(n).MRPLength)
<1>1. /\ DOMAIN hdr = {"mac", "ip", "udp", "payload"}
      /\ hdr.ip = IPStart(g, n) /\ hdr.udp = UDPStart(g, n)
      /\ hdr.payload = PayloadOf(g, events)
  <2> DEFINE m == t.mac
             i == t.ip
             u == t.udp
             p == t.payload
             a == LengthFields(n).totLen
             b == LengthFields(n).udpLen
             c == LengthFields(n).numberOfTriggers
             d == LengthFields(n).MRPLength
             r == TriggerWords(events)
  <2>1. t = [mac |-> m, ip |-> i, udp |-> u, payload |-> p]
    BY DEF HeaderTemplate
  <2>2. /\ IPStart(g, n) = [i EXCEPT ![2] = a] /\ UDPStart(g, n) = [u EXCEPT ![3] = b]
        /\ PayloadOf(g, events) = [p EXCEPT ![1] = c, ![2] = d] \o r
    BY DEF IPStart, UDPStart, PayloadOf
  <2>3. hdr = [t EXCEPT !.ip[2] = a, !.udp[3] = b,
                        !.payload = [@ EXCEPT ![1] = c, ![2] = d] \o r]
    OBVIOUS
  <2> HIDE DEF hdr, m, i, u, p, a, b, c, d, r, t
  <2>4. hdr = [[mac |-> m, ip |-> i, udp |-> u, payload |-> p] EXCEPT
                 !.ip[2] = a, !.udp[3] = b,
                 !.payload = [@ EXCEPT ![1] = c, ![2] = d] \o r]
    BY Zenon, <2>1, <2>3
  <2> QED BY SMT, <2>2, <2>4, FieldsFilled
<1>2. MRPFrame(g, events) = [hdr EXCEPT !.ip[6] = x, !.udp[4] = y]
  BY DEF MRPFrame
<1>3. x = GenerateChecksum(IPStart(g, n))
  BY <1>1
<1>4. y = GenerateUDPChecksum(Start(g, events), LengthFields(n).MRPLength)
  <2>1. /\ Start(g, events).ip = IPStart(g, n) /\ Start(g, events).udp = UDPStart(g, n)
        /\ Start(g, events).payload = PayloadOf(g, events)
    BY DEF Start
  <2> HIDE DEF hdr
  <2> QED BY Zenon, <1>1, <2>1 DEF GenerateUDPChecksum, UDPSum, PseudoHeader
<1> HIDE DEF hdr, x, y
<1>5. /\ DOMAIN MRPFrame(g, events) = {"mac", "ip", "udp", "payload"}
      /\ MRPFrame(g, events).ip = [hdr.ip EXCEPT ![6] = x]
      /\ MRPFrame(g, events).udp = [hdr.udp EXCEPT ![4] = y]
      /\ MRPFrame(g, events).payload = hdr.payload
  BY SMT, <1>1, <1>2, ChecksumsFilled
<1> QED BY <1>1, <1>3, <1>4, <1>5

\* The IP header of the template is ten words.
LEMMA TemplateIP ==
  ASSUME NEW g \in Destinations
  PROVE  LET ip == HeaderTemplate(g).ip
         IN  ip \in Words /\ Len(ip) = 10 /\ ip[1] = 17664 /\ ip[4] = 16384 /\ ip[6] = 0
<1> DEFINE six == <<Word(69, 0), 0, 0, 16384, Word(128, IPPROTO_UDP), 0>>
           mine == AddressWords(MyIP)
           theirs == AddressWords(g)
<1>1. HeaderTemplate(g).ip = (six \o mine) \o theirs
  BY SMT DEF HeaderTemplate
<1>2. six \in Words /\ Len(six) = 6 /\ six[1] = 17664 /\ six[4] = 16384 /\ six[6] = 0
  <2>1. Word(69, 0) = 17664 /\ Word(128, IPPROTO_UDP) = 32785
    BY SMT DEF Word, IPPROTO_UDP
  <2> DEFINE a == Word(69, 0)
             b == Word(128, IPPROTO_UDP)
             z == 0
             f == 16384
             n == 65536
  <2>2. a = 17664
    BY <2>1
  <2>3. six = <<a, z, z, f, b, z>>
    OBVIOUS
  <2>4. z = 0 /\ f = 16384 /\ n = 65536
    OBVIOUS
  <2>5. z \in Nat /\ z < n /\ f \in Nat /\ f < n /\ a \in Nat /\ a < n /\ b \in Nat /\ b < n
    BY SMT, <2>1
  <2>6. Words = {w \in Seq(Nat) : \A i \in 1..Len(w) : w[i] < n}
    BY SMT DEF Words
  <2> HIDE DEF a, b, z, f, n, six
  <2>7. /\ six \in Seq(Nat) /\ Len(six) = 6
        /\ six[1] = a /\ six[2] = z /\ six[3] = z /\ six[4] = f /\ six[5] = b /\ six[6] = z
    BY SMT, <2>3, <2>5
  <2>8. \A i \in 1..Len(six) : six[i] < n
    BY SMT, <2>5, <2>7
  <2>9. six \in Words
    BY Zenon, <2>6, <2>7, <2>8
  <2> QED BY SMT, <2>2, <2>4, <2>7, <2>9
<1>3. mine \in Words /\ Len(mine) = 2 /\ theirs \in Words /\ Len(theirs) = 2
  <2>1. g \in Address /\ MyIP \in Address
    BY FormatsAssumption DEF Destinations
  <2> QED BY SMT, <2>1, AddressWordsFacts
<1> HIDE DEF six, mine, theirs
<1> DEFINE eight == six \o mine
<1>4. eight \in Words /\ Len(eight) = 8 /\ \A i \in 1..6 : eight[i] = six[i]
  <2>0. six \in Words /\ mine \in Words
    BY <1>2, <1>3
  <2>1. eight \in Words /\ Len(eight) = Len(six) + Len(mine)
        /\ \A i \in 1..Len(six) : eight[i] = six[i]
    BY Zenon, <2>0, WordsConcat
  <2> QED BY SMT, <1>2, <1>3, <2>1
<1> HIDE DEF eight
<1> DEFINE ten == eight \o theirs
<1>5. ten \in Words /\ Len(ten) = 10 /\ \A i \in 1..8 : ten[i] = eight[i]
  <2>1. ten \in Words /\ Len(ten) = Len(eight) + Len(theirs)
        /\ \A i \in 1..Len(eight) : ten[i] = eight[i]
    BY Zenon, <1>3, <1>4, WordsConcat
  <2> QED BY SMT, <1>3, <1>4, <2>1
<1> HIDE DEF ten
<1>6. ten[1] = 17664 /\ ten[4] = 16384 /\ ten[6] = 0
  BY SMT, <1>2, <1>4, <1>5
<1>7. HeaderTemplate(g).ip = ten
  BY <1>1 DEF ten, eight
<1> QED BY SMT, <1>5, <1>6, <1>7

\* The MRP header of the template is six words, the UDP header four.
LEMMA TemplateRest ==
  ASSUME NEW g \in Destinations
  PROVE  LET t == HeaderTemplate(g)
         IN  /\ t.payload \in Words /\ Len(t.payload) = 6
             /\ t.udp \in Words /\ Len(t.udp) = 4 /\ t.udp[4] = 0
<1> DEFINE zero == <<0, 0>>
           mine == AddressWords(MyIP)
           ports == <<Port, Port, 0, 0>>
<1>1. HeaderTemplate(g).payload = (zero \o mine) \o zero /\ HeaderTemplate(g).udp = ports
  BY SMT DEF HeaderTemplate
<1>2. zero \in Words /\ Len(zero) = 2
  BY SMT, TwoWords
<1>3. mine \in Words /\ Len(mine) = 2
  BY SMT, AddressWordsFacts, FormatsAssumption
<1>4. ports \in Words /\ Len(ports) = 4 /\ ports[4] = 0
  <2>1. Port \in Nat /\ Port < 65536
    BY SMT, FormatsAssumption, Uint16Member
  <2>2. /\ ports \in Seq(Nat) /\ Len(ports) = 4
        /\ ports[1] = Port /\ ports[2] = Port /\ ports[3] = 0 /\ ports[4] = 0
    BY SMT, <2>1
  <2> HIDE DEF ports
  <2>3. \A i \in 1..Len(ports) : ports[i] < 65536
    BY SMT, <2>1, <2>2
  <2>4. ports \in Words
    <3>1. ports \in Seq(Nat)
      BY <2>2
    <3> QED BY SMT, <2>3, <3>1 DEF Words
  <2> QED BY SMT, <2>2, <2>4
<1> HIDE DEF zero, mine, ports
<1> DEFINE four == zero \o mine
<1>5. four \in Words /\ Len(four) = 4
  <2>1. four \in Words /\ Len(four) = Len(zero) + Len(mine)
    BY Zenon, <1>2, <1>3, WordsConcat
  <2> QED BY SMT, <1>2, <1>3, <2>1
<1> HIDE DEF four
<1>6. four \o zero \in Words /\ Len(four \o zero) = 6
  <2>1. four \o zero \in Words /\ Len(four \o zero) = Len(four) + Len(zero)
    BY Zenon, <1>2, <1>5, WordsConcat
  <2> QED BY SMT, <1>2, <1>5, <2>1
<1> QED BY SMT, <1>1, <1>4, <1>6 DEF four

-----------------------------------------------------------------------------
\* The checksum in place of a 0 makes the whole sum a multiple of 65535.
LEMMA ChecksumCompletes ==
  ASSUME NEW w \in Words, NEW k \in 1..Len(w), w[k] = 0, NEW s \in Int,
         NEW sum \in Nat, sum < 65536, Congruent(sum, s + Total(w))
  PROVE  LET v == [w EXCEPT ![k] = Wrapsum(sum)]
         IN  /\ v \in Words /\ Len(v) = Len(w) /\ SameBut(v, w, k)
             /\ Total(v) \in Int /\ (s + Total(v)) % 65535 = 0
<1> DEFINE c == Wrapsum(sum)
           v == [w EXCEPT ![k] = c]
<1>1. c = 65535 - sum /\ c \in Nat /\ c < 65536
  <2>1. Uint16(sum) = sum
    BY SMT DEF Uint16
  <2> QED BY SMT, <2>1 DEF Wrapsum
<1> HIDE DEF c
<1>2. v \in Words /\ Len(v) = Len(w) /\ v[k] = c /\ SameBut(v, w, k)
  BY SMT, <1>1, WordsExcept
<1> HIDE DEF v
<1>3. Total(v) \in Int /\ Total(w) \in Int /\ Total(v) = Total(w) + (v[k] - w[k])
  <2>1. v \in Seq(Int) /\ w \in Seq(Int)
    BY <1>2, WordsFacts
  <2>2. SameBut(v, w, k)
    BY <1>2
  <2> QED BY SMT, <2>1, <2>2, TotalChanged
<1> DEFINE a == Total(v)
           b == Total(w)
<1>4. a \in Int /\ b \in Int /\ a = b + (65535 - sum) /\ (sum - (s + b)) % 65535 = 0
  BY SMT, <1>1, <1>2, <1>3 DEF Congruent
<1> HIDE DEF a, b
<1>5. (s + a) % 65535 = 0
  BY SMT, <1>4
<1> QED BY SMT, <1>2, <1>3, <1>5 DEF a, v, c

\* The length fields up to 5457 triggers.
LEMMA LengthsFit ==
  ASSUME NEW n \in Nat, n <= 5457
  PROVE  LET fields == LengthFields(n)
         IN  /\ fields.numberOfTriggers \in Nat /\ fields.numberOfTriggers < 65536
             /\ fields.MRPLength = 12 + 12 * n
             /\ fields.MRPLength \in Nat /\ fields.MRPLength < 65536
             /\ fields.udpLen \in Nat /\ fields.udpLen < 65519
             /\ fields.totLen \in Nat /\ fields.totLen < 65536
<1>1. Exact(n)
  BY LengthFieldsExact
<1>2. FrameLength(n) = 54 + 12 * n /\ SizeofUDPHdr = 42 /\ SizeofUDP = 8
  BY DEF FrameLength, SizeofUDPHdr, SizeofMRPHdr, SizeofTrigger, SizeofIP, SizeofUDP
<1>3. /\ LengthFields(n).numberOfTriggers = n
      /\ LengthFields(n).MRPLength = 12 + 12 * n
      /\ LengthFields(n).udpLen = 20 + 12 * n
      /\ LengthFields(n).totLen = 40 + 12 * n
  BY SMT, <1>1, <1>2 DEF Exact
<1> QED BY SMT, <1>3

\* Triggers that fit into a frame as far as its length fields are concerned.
Fits(events) == events \in Seq(Events) /\ Len(events) <= 5457

\* A word of a trigger.
LEMMA CarriesAt ==
  ASSUME NEW words, NEW first, NEW events, Carries(words, first, events),
         NEW i \in 1..Len(events), NEW r \in 1..6, NEW j \in Int, j = first + 6 * (i - 1) + r
  PROVE  words[j] = generateTriggerHDR(events[i])[r]
BY Zenon DEF Carries

\* The triggers are the same behind a header of six words.
LEMMA CarriesShift ==
  ASSUME NEW header \in Words, Len(header) = 6, NEW rest \in Words, NEW events \in Seq(Events),
         Len(rest) = 6 * Len(events), Carries(rest, 0, events)
  PROVE  Carries(header \o rest, 6, events)
<1> DEFINE all == header \o rest
           n == Len(events)
<1>1. \A i \in 1..Len(rest) : all[6 + i] = rest[i]
  <2>1. \A i \in 1..Len(rest) : all[Len(header) + i] = rest[i]
    BY WordsConcat
  <2> HIDE DEF all
  <2> QED BY Zenon, <2>1
<1>2. n \in Nat /\ Len(rest) = 6 * n
  BY SMT
<1> HIDE DEF all, n
<1>4. ASSUME NEW i \in 1..n, NEW r \in 1..6, NEW k \in Int, k = 6 + 6 * (i - 1) + r
      PROVE  all[k] = generateTriggerHDR(events[i])[r]
  <2> DEFINE j == k - 6
  <2>1. j \in Int /\ j = 0 + 6 * (i - 1) + r /\ k = 6 + j
    BY SMT, <1>2, <1>4
  <2>2. j \in 1..Len(rest)
    BY SMT, <1>2, <1>4
  <2> HIDE DEF j
  <2>3. rest[j] = generateTriggerHDR(events[i])[r]
    <3>1. j \in Int /\ j = 0 + 6 * (i - 1) + r /\ i \in 1..Len(events)
      BY <2>1 DEF n
    <3>2. Carries(rest, 0, events)
      OBVIOUS
    <3> QED BY Zenon, <3>1, <3>2 DEF Carries
  <2>4. all[6 + j] = rest[j]
    BY SMT, <1>1, <2>2
  <2> QED BY SMT, <2>1, <2>3, <2>4
<1> QED BY <1>4 DEF Carries, all, n

\* The headers and the payload of a frame before its checksums are put in.
StartOK(ip, udp, payload, events) ==
  /\ ip \in Words /\ Len(ip) = 10 /\ ip[1] = 17664 /\ ip[4] = 16384 /\ ip[6] = 0
  /\ udp \in Words /\ Len(udp) = 4 /\ udp[3] < 65519 /\ udp[4] = 0
  /\ payload \in Words /\ Len(payload) = 6 * Len(events) + 6 /\ Carries(payload, 6, events)

\* They are as the receiver expects them.
LEMMA StartFacts ==
  ASSUME NEW g \in Destinations, NEW events, Fits(events)
  PROVE  StartOK(IPStart(g, Len(events)), UDPStart(g, Len(events)), PayloadOf(g, events), events)
<1> DEFINE n == Len(events)
           t == HeaderTemplate(g)
           a == LengthFields(n).totLen
           b == LengthFields(n).udpLen
           c == LengthFields(n).numberOfTriggers
           d == LengthFields(n).MRPLength
<1>1. n \in Nat /\ n <= 5457 /\ events \in Seq(Events)
  BY SMT DEF Fits
<1>2. /\ a \in Nat /\ a < 65536 /\ b \in Nat /\ b < 65519
      /\ c \in Nat /\ c < 65536 /\ d \in Nat /\ d < 65536
  <2> HIDE DEF n
  <2> QED BY SMT, <1>1, LengthsFit
<1>3. t.ip \in Words /\ Len(t.ip) = 10 /\ t.ip[1] = 17664 /\ t.ip[4] = 16384 /\ t.ip[6] = 0
  BY SMT, TemplateIP
<1>4. /\ t.payload \in Words /\ Len(t.payload) = 6
      /\ t.udp \in Words /\ Len(t.udp) = 4 /\ t.udp[4] = 0
  BY SMT, TemplateRest
<1> DEFINE ip == [t.ip EXCEPT ![2] = a]
           udp == [t.udp EXCEPT ![3] = b]
           first == [t.payload EXCEPT ![1] = c]
           header == [first EXCEPT ![2] = d]
           rest == TriggerWords(events)
           payload == header \o rest
<1>5. ip = IPStart(g, n) /\ udp = UDPStart(g, n)
  BY DEF IPStart, UDPStart
<1>6. payload = PayloadOf(g, events)
  BY DEF PayloadOf
<1> HIDE DEF a, b, c, d, t, n
<1>7. ip \in Words /\ Len(ip) = 10 /\ ip[1] = 17664 /\ ip[4] = 16384 /\ ip[6] = 0
  <2>1. 2 \in 1..Len(t.ip) /\ t.ip \in Words
    BY SMT, <1>3
  <2>2. a \in Nat /\ a < 65536
    BY <1>2
  <2>3. ip \in Words /\ Len(ip) = Len(t.ip) /\ SameBut(ip, t.ip, 2)
    BY SMT, <2>1, <2>2, WordsExcept
  <2> HIDE DEF ip
  <2> QED BY SMT, <1>3, <2>3 DEF SameBut
<1>8. udp \in Words /\ Len(udp) = 4 /\ udp[3] < 65519 /\ udp[4] = 0
  <2>1. 3 \in 1..Len(t.udp) /\ t.udp \in Words
    BY SMT, <1>4
  <2>2. b \in Nat /\ b < 65536 /\ b < 65519
    BY SMT, <1>2
  <2>3. udp \in Words /\ Len(udp) = Len(t.udp) /\ udp[3] = b /\ SameBut(udp, t.udp, 3)
    BY SMT, <2>1, <2>2, WordsExcept
  <2> HIDE DEF udp
  <2> QED BY SMT, <1>4, <2>2, <2>3 DEF SameBut
<1>9. first \in Words /\ Len(first) = 6
  <2>1. 1 \in 1..Len(t.payload) /\ t.payload \in Words
    BY SMT, <1>4
  <2>2. c \in Nat /\ c < 65536
    BY <1>2
  <2>3. first \in Words /\ Len(first) = Len(t.payload)
    BY SMT, <2>1, <2>2, WordsExcept
  <2> QED BY SMT, <1>4, <2>3
<1> HIDE DEF ip, udp, first
<1>10. header \in Words /\ Len(header) = 6
  <2>1. 2 \in 1..Len(first) /\ first \in Words
    BY SMT, <1>9
  <2>2. d \in Nat /\ d < 65536
    BY <1>2
  <2>3. header \in Words /\ Len(header) = Len(first)
    BY SMT, <2>1, <2>2, WordsExcept
  <2> QED BY SMT, <1>9, <2>3
<1>11. rest \in Words /\ Len(rest) = 6 * n /\ Carries(rest, 0, events)
  BY <1>1, TriggerWordsFacts DEF n
<1> HIDE DEF header, rest
<1>12. payload \in Words /\ Len(payload) = 6 * n + 6
  <2>1. header \in Words /\ rest \in Words
    BY <1>10, <1>11
  <2>2. payload \in Words /\ Len(payload) = Len(header) + Len(rest)
    BY SMT, <2>1, WordsConcat
  <2> QED BY SMT, <1>1, <1>10, <1>11, <2>2
<1>13. Carries(payload, 6, events)
  BY <1>1, <1>10, <1>11, CarriesShift DEF n
<1> HIDE DEF payload
<1>14. StartOK(ip, udp, payload, events)
  BY SMT, <1>7, <1>8, <1>12, <1>13 DEF StartOK, n
<1> QED BY <1>5, <1>6, <1>14 DEF n

-----------------------------------------------------------------------------
\* The sum of words is a number.
LEMMA WordsTotal ==
  ASSUME NEW w \in Words
  PROVE  w \in Seq(Int) /\ Total(w) \in Int
<1>1. w \in Seq(Int)
  BY SMT, WordsFacts
<1>2. 0 \in Int
  OBVIOUS
<1>3. Total(w) \in Int
  BY Zenon, <1>1, <1>2, UnwrappedCongruent
<1> QED BY <1>1, <1>3

\* A sequence of words from its first to its last.
LEMMA AllWords ==
  ASSUME NEW w \in Words
  PROVE  SubSeq(w, 1, Len(w)) = w
<1>1. w \in Seq(Nat)
  BY WordsFacts
<1> QED BY <1>1, SubSeqFull

\* The addresses in an IP header.
LEMMA AddressesOf ==
  ASSUME NEW v \in Words, Len(v) = 10
  PROVE  LET a == SubSeq(v, 7, 10)
         IN  /\ a \in Words /\ Len(a) = 4
             /\ a[1] = v[7] /\ a[2] = v[8] /\ a[3] = v[9] /\ a[4] = v[10]
<1> DEFINE a == SubSeq(v, 7, 10)
<1>1. v \in Seq(Nat)
  BY WordsFacts
<1>2. 7 \in 1..Len(v) + 1 /\ 10 \in 0..Len(v)
  BY SMT, <1>1
<1>3. a \in Words
  <2>1. 7 \in Nat /\ 7 > 0 /\ 10 \in Nat /\ 10 <= Len(v)
    BY SMT
  <2> QED BY Zenon, <2>1, WordsPart
<1>4. /\ Len(a) = (IF 7 <= 10 THEN 10 - 7 + 1 ELSE 0)
      /\ \A i \in 1..10 - 7 + 1 : a[i] = v[7 + i - 1]
  BY <1>1, <1>2, SubSeqProperties
<1> HIDE DEF a
<1>5. Len(a) = 4 /\ a[1] = v[7] /\ a[2] = v[8] /\ a[3] = v[9] /\ a[4] = v[10]
  BY SMT, <1>4
<1> QED BY <1>3, <1>5 DEF a

\* A word before the addresses does not change them.
LEMMA SameAddresses ==
  ASSUME NEW v \in Words, NEW w \in Words, Len(v) = 10, Len(w) = 10, NEW k \in Nat, k < 7,
         SameBut(v, w, k)
  PROVE  SubSeq(v, 7, 10) = SubSeq(w, 7, 10)
<1> DEFINE a == SubSeq(v, 7, 10)
           b == SubSeq(w, 7, 10)
<1>1. /\ a \in Words /\ Len(a) = 4
      /\ a[1] = v[7] /\ a[2] = v[8] /\ a[3] = v[9] /\ a[4] = v[10]
  BY AddressesOf
<1>2. /\ b \in Words /\ Len(b) = 4
      /\ b[1] = w[7] /\ b[2] = w[8] /\ b[3] = w[9] /\ b[4] = w[10]
  BY AddressesOf
<1>3. v[7] = w[7] /\ v[8] = w[8] /\ v[9] = w[9] /\ v[10] = w[10]
  BY SMT DEF SameBut
<1> HIDE DEF a, b
<1>4. \A i \in 1..Len(a) : a[i] = b[i]
  BY SMT, <1>1, <1>2, <1>3
<1>5. a \in Seq(Nat) /\ b \in Seq(Nat)
  BY <1>1, <1>2, WordsFacts
<1>6. a = b
  BY <1>1, <1>2, <1>4, <1>5, SeqEqual
<1> QED BY <1>6 DEF a, b

\* A frame as it is sent.
SentOK(f, events) ==
  /\ DOMAIN f = {"mac", "ip", "udp", "payload"}
  /\ FrameWords(f)
  /\ f.ip[1] = 17664 /\ f.ip[4] = 16384 /\ f.udp[3] < 65519
  /\ Len(f.payload) = 6 * Len(events) + 6 /\ Carries(f.payload, 6, events)
  /\ Total(f.ip) \in Int /\ Total(f.ip) % 65535 = 0
  /\ UDPTotal(f) \in Int /\ UDPTotal(f) % 65535 = 0

\* Every frame of Async_SendMRP is one.
LEMMA SentFrame ==
  ASSUME NEW g \in Destinations, NEW events, Fits(events)
  PROVE  SentOK(MRPFrame(g, events), events)
<1> DEFINE n == Len(events)
           f == MRPFrame(g, events)
           start == Start(g, events)
           ip0 == IPStart(g, n)
           udp0 == UDPStart(g, n)
           payload == PayloadOf(g, events)
           length == LengthFields(n).MRPLength
<1>1. /\ DOMAIN f = {"mac", "ip", "udp", "payload"}
      /\ f.ip = [ip0 EXCEPT ![6] = GenerateChecksum(ip0)]
      /\ f.udp = [udp0 EXCEPT ![4] = GenerateUDPChecksum(start, length)]
      /\ f.payload = payload
  BY MRPFrameIs
<1>2. StartOK(ip0, udp0, payload, events)
  BY StartFacts
<1>3. start.ip = ip0 /\ start.udp = udp0 /\ start.payload = payload
  BY DEF Start
<1>4. n \in Nat /\ length = 12 + 12 * n
  <2>1. n \in Nat /\ n <= 5457
    BY SMT DEF Fits
  <2> HIDE DEF n
  <2> QED BY SMT, <2>1, LengthsFit
<1> HIDE DEF f, start, ip0, udp0, payload, length, n
<1>5. /\ ip0 \in Words /\ Len(ip0) = 10 /\ ip0[1] = 17664 /\ ip0[4] = 16384 /\ ip0[6] = 0
      /\ udp0 \in Words /\ Len(udp0) = 4 /\ udp0[3] < 65519 /\ udp0[4] = 0
      /\ payload \in Words /\ Len(payload) = 6 * n + 6 /\ Carries(payload, 6, events)
  BY SMT, <1>2 DEF StartOK, n
<1> DEFINE sum == GenerateChecksumUnwrapped(ip0, 0)
<1>6. sum \in Nat /\ sum < 65536
  <2>1. ip0 \in Words
    BY <1>5
  <2> QED BY SMT, <2>1, UnwrappedRange
<1> DEFINE zero == 0
<1>7. zero \in Int /\ Congruent(sum, zero + Total(ip0))
  <2>1. ip0 \in Seq(Int) /\ zero \in Int
    BY SMT, <1>5, WordsFacts
  <2> QED BY Zenon, <2>1, UnwrappedCongruent
<1>8. f.ip = [ip0 EXCEPT ![6] = Wrapsum(sum)]
  BY <1>1 DEF GenerateChecksum
<1> HIDE DEF sum
<1>9. /\ f.ip \in Words /\ Len(f.ip) = 10 /\ SameBut(f.ip, ip0, 6)
      /\ Total(f.ip) \in Int /\ Total(f.ip) % 65535 = 0
  <2> DEFINE v == [ip0 EXCEPT ![6] = Wrapsum(sum)]
  <2>1. ip0 \in Words /\ 6 \in 1..Len(ip0) /\ ip0[6] = 0
    BY SMT, <1>5
  <2>2. /\ v \in Words /\ Len(v) = Len(ip0) /\ SameBut(v, ip0, 6)
        /\ Total(v) \in Int /\ (zero + Total(v)) % 65535 = 0
    <3> HIDE DEF zero
    <3> QED BY SMT, <1>6, <1>7, <2>1, ChecksumCompletes
  <2>3. v = f.ip
    BY <1>8
  <2> HIDE DEF v
  <2>4. Total(v) % 65535 = 0
    <3> DEFINE x == Total(v)
    <3>1. x \in Int /\ (0 + x) % 65535 = 0
      BY <2>2
    <3> HIDE DEF x
    <3>2. x % 65535 = 0
      BY SMT, <3>1
    <3> QED BY <3>2 DEF x
  <2>5. Len(v) = 10
    BY SMT, <1>5, <2>2
  <2> QED BY SMT, <2>2, <2>3, <2>4, <2>5
<1>10. FrameWords(start)
  BY SMT, <1>3, <1>5 DEF FrameWords
<1> DEFINE whole == UDPSum(start, start.payload)
           addresses == Total(SubSeq(ip0, 7, 10))
           rest == (IPPROTO_UDP + udp0[3]) + addresses + Total(payload)
<1>11. /\ whole \in Nat /\ whole < 65536
       /\ UDPTotal(start) \in Int /\ Congruent(whole, UDPTotal(start))
  <2>1. start.udp[3] < 65519
    BY SMT, <1>3, <1>5
  <2> QED BY SMT, <1>10, <2>1, UDPSumCongruent DEF Congruent
<1>12. UDPTotal(start) = rest + Total(udp0)
  BY Zenon, <1>3 DEF UDPTotal
<1>13. rest \in Int /\ Total(udp0) \in Int
  <2>0. ip0 \in Words /\ Len(ip0) = 10 /\ payload \in Words /\ udp0 \in Words
    BY <1>5
  <2>1. SubSeq(ip0, 7, 10) \in Words
    BY <2>0, AddressesOf
  <2>3. addresses \in Int /\ Total(payload) \in Int /\ Total(udp0) \in Int
    BY Zenon, <2>0, <2>1, WordsTotal
  <2>4. udp0[3] \in Int
    <3>1. 3 \in 1..Len(udp0)
      BY SMT, <1>5
    <3> QED BY SMT, <2>0, <3>1, WordsFacts
  <2> QED BY SMT, <2>3, <2>4 DEF IPPROTO_UDP
<1>14. f.udp = [udp0 EXCEPT ![4] = Wrapsum(whole)]
  <2>1. length \div 2 = Len(payload)
    BY SMT, <1>4, <1>5
  <2>2. SubSeq(start.payload, 1, length \div 2) = start.payload
    BY <1>3, <1>5, <2>1, AllWords
  <2>3. GenerateUDPChecksum(start, length) = Wrapsum(whole)
    BY <2>2 DEF GenerateUDPChecksum
  <2> QED BY <1>1, <2>3
<1> HIDE DEF whole, addresses, rest
<1>15. /\ f.udp \in Words /\ Len(f.udp) = 4 /\ SameBut(f.udp, udp0, 4)
       /\ Total(f.udp) \in Int /\ (rest + Total(f.udp)) % 65535 = 0
  <2> DEFINE v == [udp0 EXCEPT ![4] = Wrapsum(whole)]
  <2>1. udp0 \in Words /\ 4 \in 1..Len(udp0) /\ udp0[4] = 0 /\ rest \in Int
    BY SMT, <1>5, <1>13
  <2>2. whole \in Nat /\ whole < 65536 /\ Congruent(whole, rest + Total(udp0))
    BY SMT, <1>11, <1>12
  <2>3. /\ v \in Words /\ Len(v) = Len(udp0) /\ SameBut(v, udp0, 4)
        /\ Total(v) \in Int /\ (rest + Total(v)) % 65535 = 0
    BY SMT, <2>1, <2>2, ChecksumCompletes
  <2>4. v = f.udp
    BY <1>14
  <2> HIDE DEF v
  <2>5. Len(v) = 4
    BY SMT, <1>5, <2>3
  <2> QED BY SMT, <2>3, <2>4, <2>5
<1>16. UDPTotal(f) = rest + Total(f.udp)
  <2>1. f.udp[3] = udp0[3]
    BY SMT, <1>5, <1>15 DEF SameBut
  <2>2. SubSeq(f.ip, 7, 10) = SubSeq(ip0, 7, 10)
    <3>1. 6 \in Nat /\ 6 < 7 /\ ip0 \in Words /\ Len(ip0) = 10
      BY SMT, <1>5
    <3> QED BY SMT, <1>9, <3>1, SameAddresses
  <2> QED BY <1>1, <2>1, <2>2 DEF UDPTotal, rest, addresses
<1>17. UDPTotal(f) \in Int /\ UDPTotal(f) % 65535 = 0
  <2>1. rest + Total(f.udp) \in Int
    BY SMT, <1>13, <1>15
  <2> QED BY SMT, <1>15, <1>16, <2>1
<1>18. FrameWords(f)
  BY SMT, <1>1, <1>5, <1>9, <1>15 DEF FrameWords
<1>19. f.ip[1] = 17664 /\ f.ip[4] = 16384 /\ f.udp[3] < 65519
  BY SMT, <1>5, <1>9, <1>15 DEF SameBut
<1>20. Len(f.payload) = 6 * n + 6 /\ Carries(f.payload, 6, events)
  BY <1>1, <1>5
<1>21. SentOK(f, events)
  BY SMT, <1>1, <1>9, <1>17, <1>18, <1>19, <1>20 DEF SentOK, n
<1> QED BY <1>21 DEF f

-----------------------------------------------------------------------------
\* What a receiver decodes is what generateTriggerHDR made of the event.
LEMMA DecodedIs ==
  ASSUME NEW f, NEW events \in Seq(Events), SentOK(f, events), NEW i \in 1..Len(events)
  PROVE  ExpectedTrigger(events[i], DecodedTrigger(f, i))
<1> DEFINE e == events[i]
           p == f.payload
           a == SubSeq(p, 6 * i + 1, 6 * i + 6)
           b == generateTriggerHDR(e)
           n == Len(events)
           from == 6 * i + 1
           to == 6 * i + 6
<1>1. e \in Events
  BY SMT
<1>2. b \in Words /\ Len(b) = 6 /\ ExpectedTrigger(e, b)
  BY <1>1, TriggerIsWords
<1>3. p \in Words /\ Len(p) = 6 * n + 6 /\ Carries(p, 6, events)
  BY DEF SentOK, FrameWords
<1>4. a = SubSeq(p, from, to)
  OBVIOUS
<1>5. /\ n \in Nat /\ from \in Int /\ to \in Int /\ from = 6 * i + 1 /\ to = from + 5
      /\ from > 0 /\ from \in Nat /\ to \in Nat /\ to <= 6 * n + 6
  BY SMT
<1> HIDE DEF from, to, a, n, p
<1>6. a \in Words
  BY SMT, <1>3, <1>4, <1>5, WordsPart
<1>7. Len(a) = 6 /\ \A k \in 1..6 : a[k] = p[from + k - 1]
  <2>1. p \in Seq(Nat)
    BY <1>3, WordsFacts
  <2>2. \A j \in from..to : p[j] \in Nat
    BY SMT, <1>3, <1>5, <2>1
  <2>3. /\ Len(a) = (IF from <= to THEN to - from + 1 ELSE 0)
        /\ \A k \in 1..to - from + 1 : a[k] = p[from + k - 1]
    BY <1>4, <1>5, <2>2, SubSeqProperties
  <2> QED BY SMT, <1>5, <2>3
<1>8. ASSUME NEW k \in 1..6 PROVE a[k] = b[k]
  <2> DEFINE j == from + k - 1
  <2>1. j \in Int /\ j = 6 + 6 * (i - 1) + k
    BY SMT, <1>5
  <2>2. a[k] = p[j]
    BY <1>7
  <2> HIDE DEF j
  <2>3. p[j] = b[k]
    <3>1. j \in Int /\ j = 6 + 6 * (i - 1) + k /\ i \in 1..Len(events)
      BY <2>1
    <3>2. Carries(p, 6, events)
      BY <1>3
    <3> QED BY Zenon, <3>1, <3>2 DEF Carries, b, e
  <2> QED BY <2>2, <2>3
<1>9. a = b
  <2>1. a \in Seq(Nat) /\ b \in Seq(Nat)
    BY <1>2, <1>6, WordsFacts
  <2>2. \A k \in 1..Len(a) : a[k] = b[k]
    BY <1>7, <1>8
  <2>3. Len(a) = Len(b)
    BY <1>2, <1>7
  <2> HIDE DEF b
  <2> QED BY <2>1, <2>2, <2>3, SeqEqual
<1>10. DecodedTrigger(f, i) = a
  BY DEF DecodedTrigger, a, p
<1> QED BY <1>2, <1>9, <1>10

\* A damaged word changes the sum by no multiple of 65535.
LEMMA WordDamaged ==
  ASSUME NEW v \in Words, NEW k \in 1..Len(v), NEW x \in Nat, x < 65536,
         x % 65535 # v[k] % 65535
  PROVE  LET u == [v EXCEPT ![k] = x]
         IN  /\ u \in Words /\ Len(u) = Len(v) /\ SameBut(u, v, k) /\ u[k] = x
             /\ Total(u) \in Int /\ Total(v) \in Int /\ Total(u) = Total(v) + (x - v[k])
             /\ v[k] \in Nat /\ (x - v[k]) % 65535 # 0 /\ (2 * (x - v[k])) % 65535 # 0
<1> DEFINE u == [v EXCEPT ![k] = x]
           y == v[k]
<1>1. u \in Words /\ Len(u) = Len(v) /\ SameBut(u, v, k) /\ u[k] = x
  BY SMT, WordsExcept
<1>2. y \in Nat /\ x % 65535 # y % 65535
  BY SMT, WordsFacts
<1> HIDE DEF u
<1>3. Total(u) \in Int /\ Total(v) \in Int /\ Total(u) = Total(v) + (u[k] - v[k])
  <2>1. u \in Seq(Int) /\ v \in Seq(Int)
    BY <1>1, WordsTotal
  <2>2. SameBut(u, v, k)
    BY <1>1
  <2> QED BY SMT, <2>1, <2>2, TotalChanged
<1> HIDE DEF y
<1>4. (x - y) % 65535 # 0 /\ (2 * (x - y)) % 65535 # 0
  BY SMT, <1>2
<1> QED BY SMT, <1>1, <1>2, <1>3, <1>4 DEF u, y

\* Sums that differ by no multiple of 65535 are not both such multiples.
LEMMA NotBoth ==
  ASSUME NEW a \in Int, NEW b \in Int, NEW d \in Int, a = b + d, d % 65535 # 0,
         b % 65535 = 0
  PROVE  a % 65535 # 0
BY SMT

\* How two UDP sums differ, whose words and whose lengths differ.
LEMMA SumsDiffer ==
  ASSUME NEW a, NEW b, NEW y \in Int, NEW z \in Int, NEW r \in Int, NEW p \in Int,
         NEW s \in Int, NEW t \in Int, NEW e \in Int,
         a = (17 + y) + r + p + s, b = (17 + z) + r + p + t, s = t + e
  PROVE  /\ y = z + e => a = b + 2 * e
         /\ y = z => a = b + e
BY SMT

\* One word of a part of a frame takes another value.
Damaged(f, part, i, w, d) == d = [f EXCEPT ![part][i] = w]

\* What the damage of one word of a part changes in the frame.
LEMMA DamagedPart ==
  ASSUME NEW f, DOMAIN f = {"mac", "ip", "udp", "payload"}, NEW part, NEW i, NEW w,
         NEW d, Damaged(f, part, i, w, d)
  PROVE  /\ part = "ip" => /\ d.ip = [f.ip EXCEPT ![i] = w]
                           /\ d.udp = f.udp /\ d.payload = f.payload
         /\ part = "udp" => /\ d.udp = [f.udp EXCEPT ![i] = w]
                            /\ d.ip = f.ip /\ d.payload = f.payload
         /\ part = "payload" => /\ d.payload = [f.payload EXCEPT ![i] = w]
                                /\ d.ip = f.ip /\ d.udp = f.udp
BY SMT DEF Damaged

\* CheckData or CheckUDP notices it, wherever it is.
LEMMA DamageCaught ==
  ASSUME NEW f, NEW events, SentOK(f, events), NEW part \in {"ip", "udp", "payload"},
         NEW i \in DOMAIN f[part], NEW w \in Nat, w < 65536, w % 65535 # f[part][i] % 65535,
         NEW d, Damaged(f, part, i, w, d), CheckUDP(d), CheckData(d.ip)
  PROVE  FALSE
<1> DEFINE rest(h) == Total(SubSeq(h.ip, 7, 10))
<1>1. /\ DOMAIN f = {"mac", "ip", "udp", "payload"}
      /\ f.ip \in Words /\ Len(f.ip) = 10
      /\ f.udp \in Words /\ Len(f.udp) = 4 /\ f.payload \in Words
      /\ Total(f.ip) \in Int /\ Total(f.ip) % 65535 = 0
      /\ UDPTotal(f) \in Int /\ UDPTotal(f) % 65535 = 0
  BY SMT DEF SentOK, FrameWords
<1>2. /\ part = "ip" => /\ d.ip = [f.ip EXCEPT ![i] = w]
                        /\ d.udp = f.udp /\ d.payload = f.payload
      /\ part = "udp" => /\ d.udp = [f.udp EXCEPT ![i] = w]
                         /\ d.ip = f.ip /\ d.payload = f.payload
      /\ part = "payload" => /\ d.payload = [f.payload EXCEPT ![i] = w]
                             /\ d.ip = f.ip /\ d.udp = f.udp
  BY SMT, <1>1, DamagedPart
<1>3. CheckUDP(d) /\ CheckData(d.ip)
  OBVIOUS
<1>4. Total(f.payload) \in Int /\ Total(f.udp) \in Int /\ rest(f) \in Int
      /\ f.udp[3] \in Int
  <2>1. SubSeq(f.ip, 7, 10) \in Words
    BY <1>1, AddressesOf
  <2>2. Total(f.payload) \in Int /\ Total(f.udp) \in Int /\ rest(f) \in Int
    BY <1>1, <2>1, WordsTotal
  <2>3. f.udp[3] \in Int
    <3>1. 3 \in 1..Len(f.udp) /\ f.udp \in Words
      BY SMT, <1>1
    <3> QED BY SMT, <3>1, WordsFacts
  <2> QED BY <2>2, <2>3
<1>5. ASSUME NEW v \in Words, v = f[part]
      PROVE  LET u == [v EXCEPT ![i] = w]
             IN  /\ i \in 1..Len(v)
                 /\ u \in Words /\ Len(u) = Len(v) /\ SameBut(u, v, i) /\ u[i] = w
                 /\ Total(u) \in Int /\ Total(v) \in Int /\ Total(u) = Total(v) + (w - v[i])
                 /\ v[i] \in Nat /\ (w - v[i]) % 65535 # 0 /\ (2 * (w - v[i])) % 65535 # 0
  <2>1. i \in DOMAIN v /\ w % 65535 # v[i] % 65535
    BY SMT, <1>5
  <2>2. i \in 1..Len(v)
    <3>1. v \in Seq(Nat)
      BY WordsFacts
    <3> QED BY SMT, <2>1, <3>1
  <2> QED BY SMT, <2>1, <2>2, WordDamaged
<1>6. CASE part = "ip"
  <2> DEFINE v == f.ip
             x == v[i]
  <2>1. /\ d.ip \in Words /\ Total(d.ip) \in Int /\ Total(v) \in Int
        /\ Total(d.ip) = Total(v) + (w - x) /\ x \in Nat /\ (w - x) % 65535 # 0
    <3>1. v \in Words /\ v = f[part]
      BY <1>1, <1>6
    <3>2. d.ip = [v EXCEPT ![i] = w]
      BY <1>2, <1>6
    <3> HIDE DEF v
    <3> QED BY SMT, <1>5, <3>1, <3>2
  <2> DEFINE a == Total(d.ip)
             b == Total(v)
             c == w - x
  <2>2. a \in Int /\ a % 65535 = 0
    BY SMT, <1>3, <2>1, HeaderRefused
  <2>3. b \in Int /\ b % 65535 = 0
    BY <1>1
  <2>4. c \in Int /\ a = b + c /\ c % 65535 # 0
    BY SMT, <2>1
  <2> HIDE DEF a, b, c
  <2> QED BY SMT, <2>2, <2>3, <2>4, NotBoth
<1>7. CASE part = "payload"
  <2> DEFINE v == f.payload
             x == v[i]
  <2>1. /\ d.payload \in Words /\ Total(d.payload) \in Int /\ Total(v) \in Int
        /\ Total(d.payload) = Total(v) + (w - x) /\ x \in Nat /\ (w - x) % 65535 # 0
    <3>1. v \in Words /\ v = f[part]
      BY <1>1, <1>7
    <3>2. d.payload = [v EXCEPT ![i] = w]
      BY <1>2, <1>7
    <3> HIDE DEF v
    <3> QED BY SMTT(30), <1>5, <3>1, <3>2
  <2>2. d.ip = f.ip /\ d.udp = f.udp
    BY <1>2, <1>7
  <2>3. FrameWords(d)
    BY SMT, <1>1, <2>1, <2>2 DEF FrameWords
  <2> DEFINE a == UDPTotal(d)
             b == UDPTotal(f)
             c == w - x
  <2>4. a \in Int /\ a % 65535 = 0
    BY SMT, <1>3, <2>3, UDPRefused
  <2>5. b \in Int /\ b % 65535 = 0
    BY <1>1
  <2>6. /\ a = (IPPROTO_UDP + f.udp[3]) + rest(f) + Total(d.payload) + Total(f.udp)
        /\ b = (IPPROTO_UDP + f.udp[3]) + rest(f) + Total(v) + Total(f.udp)
    BY <2>2 DEF UDPTotal
  <2>7. c \in Int /\ a = b + c /\ c % 65535 # 0
    <3> HIDE DEF a, b, rest, x
    <3> QED BY SMT, <1>4, <2>1, <2>6 DEF IPPROTO_UDP
  <2> HIDE DEF a, b, c
  <2> QED BY SMT, <2>4, <2>5, <2>7, NotBoth
<1>8. CASE part = "udp"
  <2> DEFINE v == f.udp
             x == v[i]
  <2>1. /\ d.udp \in Words /\ Len(d.udp) = 4 /\ SameBut(d.udp, v, i) /\ d.udp[i] = w
        /\ i \in 1..Len(v)
        /\ Total(d.udp) \in Int /\ Total(v) \in Int
        /\ Total(d.udp) = Total(v) + (w - x) /\ x \in Nat
        /\ (w - x) % 65535 # 0 /\ (2 * (w - x)) % 65535 # 0
    <3>1. v \in Words /\ v = f[part] /\ Len(v) = 4
      BY <1>1, <1>8
    <3>2. d.udp = [v EXCEPT ![i] = w]
      BY <1>2, <1>8
    <3> HIDE DEF v
    <3> QED BY SMTT(30), <1>5, <3>1, <3>2
  <2>2. d.ip = f.ip /\ d.payload = f.payload
    BY <1>2, <1>8
  <2>3. FrameWords(d)
    BY SMT, <1>1, <2>1, <2>2 DEF FrameWords
  <2> DEFINE a == UDPTotal(d)
             b == UDPTotal(f)
             y == d.udp[3]
             z == f.udp[3]
  <2>4. a \in Int /\ a % 65535 = 0
    BY SMT, <1>3, <2>3, UDPRefused
  <2>5. b \in Int /\ b % 65535 = 0
    BY <1>1
  <2>6. /\ a = (IPPROTO_UDP + y) + rest(f) + Total(f.payload) + Total(d.udp)
        /\ b = (IPPROTO_UDP + z) + rest(f) + Total(f.payload) + Total(v)
    BY <2>2 DEF UDPTotal
  <2>7. (i = 3 => y = w /\ z = x) /\ (i # 3 => y = z)
    BY SMT, <1>1, <2>1 DEF SameBut
  <2>8. z \in Int
    BY <1>4
  <2> HIDE DEF a, b, y, z, x
  <2>9. CASE i = 3
    <3> DEFINE c == 2 * (w - x)
    <3>1. c \in Int /\ a = b + c /\ c % 65535 # 0
      <4> DEFINE r == rest(f)
                 p == Total(f.payload)
                 s == Total(d.udp)
                 t == Total(v)
                 q == w - x
      <4>1. /\ y \in Int /\ z \in Int /\ r \in Int /\ p \in Int /\ s \in Int /\ t \in Int
            /\ q \in Int
        <5>1. r \in Int /\ p \in Int /\ s \in Int /\ t \in Int
          BY <1>4, <2>1
        <5>2. w \in Int /\ x \in Int /\ q \in Int
          BY SMT, <2>1
        <5>3. y \in Int
          BY <2>7, <2>8, <5>2, <2>9
        <5> QED BY <2>8, <5>1, <5>2, <5>3
      <4>2. a = (17 + y) + r + p + s /\ b = (17 + z) + r + p + t
        BY <2>6 DEF IPPROTO_UDP
      <4>3. s = t + q
        BY <2>1
      <4>4. y = z + q
        BY SMT, <2>1, <2>7, <2>9
      <4>5. (2 * q) % 65535 # 0
        BY <2>1
      <4> HIDE DEF r, p, s, t
      <4>6. a = b + 2 * q
        BY SMT, <4>1, <4>2, <4>3, <4>4, SumsDiffer
      <4> QED BY SMT, <2>1, <4>1, <4>5, <4>6
    <3> HIDE DEF c
    <3> QED BY SMT, <2>4, <2>5, <3>1, NotBoth
  <2>10. CASE i # 3
    <3> DEFINE c == w - x
    <3>1. c \in Int /\ a = b + c /\ c % 65535 # 0
      <4> DEFINE r == rest(f)
                 p == Total(f.payload)
                 s == Total(d.udp)
                 t == Total(v)
                 q == w - x
      <4>1. /\ y \in Int /\ z \in Int /\ r \in Int /\ p \in Int /\ s \in Int /\ t \in Int
            /\ q \in Int
        <5>1. r \in Int /\ p \in Int /\ s \in Int /\ t \in Int
          BY <1>4, <2>1
        <5>2. w \in Int /\ x \in Int /\ q \in Int
          BY SMT, <2>1
        <5>3. y \in Int
          BY <2>7, <2>8, <5>2, <2>10
        <5> QED BY <2>8, <5>1, <5>2, <5>3
      <4>2. a = (17 + y) + r + p + s /\ b = (17 + z) + r + p + t
        BY <2>6 DEF IPPROTO_UDP
      <4>3. s = t + q
        BY <2>1
      <4>4. y = z
        BY SMT, <2>1, <2>7, <2>10
      <4>5. q % 65535 # 0
        BY <2>1
      <4> HIDE DEF r, p, s, t
      <4>6. a = b + q
        BY SMT, <4>1, <4>2, <4>3, <4>4, SumsDiffer
      <4> QED BY SMT, <2>1, <4>1, <4>5, <4>6
    <3> HIDE DEF c
    <3> QED BY SMT, <2>4, <2>5, <3>1, NotBoth
  <2> QED BY <2>9, <2>10
<1> QED BY <1>6, <1>7, <1>8

-----------------------------------------------------------------------------
\* A frame as it is sent passes the checks of EthernetUtils, and the receiver
\* reads the events out of it.
LEMMA SentAccepted ==
  ASSUME NEW f, NEW events \in Seq(Events), SentOK(f, events)
  PROVE  /\ CheckUDP(f) /\ CheckData(f.ip) /\ ~ isFragment(f)
         /\ Len(f.payload) = 6 * (Len(events) + 1)
         /\ \A i \in DOMAIN events : ExpectedTrigger(events[i], DecodedTrigger(f, i))
<1>1. CheckUDP(f)
  <2>1. FrameWords(f) /\ f.udp[3] < 65519 /\ UDPTotal(f) % 65535 = 0
    BY DEF SentOK
  <2> QED BY SMT, <2>1, UDPAccepted
<1>2. CheckData(f.ip)
  <2>1. f.ip \in Words /\ Len(f.ip) = 10 /\ f.ip[1] = 17664 /\ Total(f.ip) % 65535 = 0
    BY DEF SentOK, FrameWords
  <2>2. f.ip[1] > 0
    BY SMT, <2>1
  <2> QED BY SMT, <2>1, <2>2, HeaderAccepted
<1>3. ~ isFragment(f)
  <2>1. f.ip[4] = 16384
    BY DEF SentOK
  <2> QED BY SMT, <2>1 DEF isFragment
<1>4. Len(f.payload) = 6 * (Len(events) + 1)
  <2>1. Len(f.payload) = 6 * Len(events) + 6 /\ Len(events) \in Nat
    BY DEF SentOK
  <2> QED BY SMT, <2>1
<1>5. ASSUME NEW i \in DOMAIN events
      PROVE  ExpectedTrigger(events[i], DecodedTrigger(f, i))
  <2>1. i \in 1..Len(events)
    OBVIOUS
  <2> QED BY <2>1, DecodedIs
<1> QED BY <1>1, <1>2, <1>3, <1>4, <1>5

\* A frame is what Async_SendMRP made of its destination and its triggers, which
\* its length fields can count, until it is damaged; then it is not accepted.
FrameInv ==
  /\ SentInv
  /\ Fits(triggers) /\ Len(triggers) <= MaxTriggers
  /\ DamageDetected

\* A frame that is not damaged is one that is sent.
LEMMA FrameIsSent ==
  ASSUME FrameInv, phase = "sent"
  PROVE  SentOK(frame, triggers)
<1>1. destination \in Destinations /\ frame = MRPFrame(destination, triggers) /\ Fits(triggers)
  BY DEF FrameInv, SentInv
<1>2. SentOK(MRPFrame(destination, triggers), triggers)
  BY <1>1, SentFrame
<1> QED BY <1>1, <1>2

\* The damage of a word is the step that has to be looked at.
LEMMA FrameInvariance ==
  ASSUME MaxTriggers <= 5457
  PROVE  Spec => []FrameInv
<1>1. Init => FrameInv
  <2> SUFFICES ASSUME Init PROVE FrameInv
    OBVIOUS
  <2>1. SentInv /\ triggers = <<>> /\ DamageDetected
    BY DEF Init, SentInv, DamageDetected
  <2>2. triggers \in Seq(Events) /\ Len(triggers) = 0 /\ MaxTriggers \in Nat
    BY <2>1, FormatsAssumption
  <2>3. Fits(triggers) /\ Len(triggers) <= MaxTriggers
    BY SMT, <2>2 DEF Fits
  <2> QED BY <2>1, <2>3 DEF FrameInv
<1>2. FrameInv /\ [Next]_vars => FrameInv'
  <2> SUFFICES ASSUME FrameInv, [Next]_vars PROVE FrameInv'
    OBVIOUS
  <2>1. ASSUME NEW e \in Events, AddTrigger(e) PROVE FrameInv'
    <3>1. SentInv' /\ DamageDetected'
      BY <2>1 DEF AddTrigger, FrameInv, SentInv, DamageDetected
    <3>2. /\ triggers \in Seq(Events) /\ triggers' = Append(triggers, e)
          /\ Len(triggers) < MaxTriggers
      BY <2>1 DEF AddTrigger, FrameInv, Fits
    <3>3. triggers' \in Seq(Events) /\ Len(triggers') = Len(triggers) + 1
      BY <3>2
    <3>4. MaxTriggers \in Nat
      BY FormatsAssumption
    <3>5. Fits(triggers)' /\ (Len(triggers) <= MaxTriggers)'
      BY SMT, <3>2, <3>3, <3>4 DEF Fits
    <3> QED BY <3>1, <3>5 DEF FrameInv
  <2>2. CASE SendMRP
    BY <2>2 DEF SendMRP, FrameInv, SentInv, Fits, DamageDetected
  <2>3. ASSUME phase = "sent", NEW part \in {"ip", "udp", "payload"},
               NEW i \in DOMAIN frame[part], NEW w \in BadWords, Damage(part, i, w)
        PROVE  FrameInv'
    <3>1. SentInv' /\ Fits(triggers)' /\ (Len(triggers) <= MaxTriggers)'
      BY <2>3 DEF Damage, FrameInv, SentInv, Fits
    <3>2. SentOK(frame, triggers)
      BY <2>3, FrameIsSent
    <3>3. w % 65535 # frame[part][i] % 65535 /\ frame' = [frame EXCEPT ![part][i] = w]
      BY <2>3 DEF Damage
    <3>4. w \in UINT16
      BY FormatsAssumption
    <3>5. w \in Nat /\ w < 65536
      BY <3>4, Uint16Member
    <3> DEFINE d == [frame EXCEPT ![part][i] = w]
    <3>6. ~ (CheckUDP(d) /\ CheckData(d.ip))
      <4>1. w % 65535 # frame[part][i] % 65535
        BY <3>3
      <4> SUFFICES ASSUME CheckUDP(d), CheckData(d.ip) PROVE FALSE
        OBVIOUS
      <4>2. Damaged(frame, part, i, w, d)
        BY DEF Damaged
      <4> HIDE DEF d
      <4> QED BY SMT, <3>2, <3>5, <4>1, <4>2, DamageCaught
    <3>8. frame' = d
      BY <3>3
    <3> HIDE DEF d
    <3>7. DamageDetected'
      BY <3>6, <3>8 DEF DamageDetected
    <3> QED BY <3>1, <3>7 DEF FrameInv
  <2>4. ASSUME NEW n \in 0..MaxHeader, PrepareHeader(n) PROVE FrameInv'
    BY <2>4 DEF PrepareHeader, FrameInv, SentInv, Fits, DamageDetected
  <2>5. CASE UNCHANGED vars
    BY <2>5 DEF vars, FrameInv, SentInv, Fits, DamageDetected
  <2> QED BY <2>1, <2>2, <2>3, <2>4, <2>5 DEF Next
<1> QED BY <1>1, <1>2, PTL DEF Spec

\* Every frame that Async_SendMRP sends is accepted by CheckUDP and CheckData,
\* whatever the events, the destination, the addresses and the port are, as long as
\* the 16-bit length fields can count its triggers; and it requests the events
\* that the thread collected.
THEOREM SentFramesAccepted ==
  ASSUME MaxTriggers <= 5457
  PROVE  Spec => []FrameAccepted
<1>1. FrameInv => FrameAccepted
  <2> SUFFICES ASSUME FrameInv, phase = "sent" PROVE FrameAccepted
    BY DEF FrameAccepted
  <2>1. SentOK(frame, triggers) /\ triggers \in Seq(Events)
    BY FrameIsSent DEF FrameInv, Fits
  <2>2. /\ CheckUDP(frame) /\ CheckData(frame.ip) /\ ~ isFragment(frame)
        /\ Len(frame.payload) = 6 * (Len(triggers) + 1)
        /\ \A i \in DOMAIN triggers : ExpectedTrigger(triggers[i], DecodedTrigger(frame, i))
    BY <2>1, SentAccepted
  <2>3. SentToDestination
    BY DestinationOfFrame DEF FrameInv
  <2> QED BY SMT, <2>2, <2>3 DEF FrameAccepted
<1> QED BY <1>1, FrameInvariance, PTL

\* Of such a frame no single damaged word, wherever it is and whatever it has
\* become, passes both CheckUDP and CheckData.
THEOREM DamageIsDetected ==
  ASSUME MaxTriggers <= 5457
  PROVE  Spec => []DamageDetected
<1>1. FrameInv => DamageDetected
  BY DEF FrameInv
<1> QED BY <1>1, FrameInvariance, PTL
=============================================================================
