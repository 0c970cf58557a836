----------------------- MODULE CtrCloudTransferProofs ------------------------
(***************************************************************************)
(* Theorems about CtrCloudTransfer, for every set of messages, number of   *)
(* fragments, size of the buffer, number of calls and of faults.           *)
(***************************************************************************)
EXTENDS CtrCloudTransfer, SequenceTheorems, TLAPS

-----------------------------------------------------------------------------
(* Type correctness, on every link *)

\* TypeOK is not inductive: an upload is always at a fragment of its message.
Typed ==
  /\ TypeOK
  /\ pc = "uplink" => msg \in Messages /\ part < Parts[msg]

Numbers == 0..SeqMod-1

LEMMA Sizes ==
  ASSUME TypeOK
  PROVE  /\ SeqMod \in Nat /\ SeqMod > 4 /\ BufParts \in Nat
         /\ setting.calls \in Nat /\ setting.maxfaults \in Nat
         /\ setting.downlinks \in Seq(Downs)
         /\ \A s \in Numbers : sequence_inc(s) \in Numbers \ {0}
<1>1. setting \in Setting
  BY ConstantsAssumption DEF TypeOK
<1>2. /\ SeqMod \in Nat /\ SeqMod > 4 /\ BufParts \in Nat
      /\ setting.calls \in Nat /\ setting.maxfaults \in Nat
      /\ setting.downlinks \in Seq(Downs)
  BY <1>1 DEF Setting, SeqMod, BufParts
<1> QED
  BY <1>2 DEF sequence_inc, Numbers

\* The packets of both ends.
LEMMA FragmentsTyped ==
  ASSUME NEW m \in Messages \cup Downs, NEW i \in 1..Parts[m]
  PROVE  <<m, i>> \in Fragment /\ Fragments(m)[i] = <<m, i>>
BY DEF Fragment, Fragments

LEMMA PacketsTyped ==
  ASSUME TypeOK, NEW s \in Numbers
  PROVE  /\ PollPacket(s) \in Packet /\ AckPacket(s) \in Packet
         /\ ResetRequest \in Packet
         /\ \A m \in Messages, i \in Nat : i < Parts[m] => UplinkPacket(m, i, s) \in Packet
         /\ \A i \in Nat : queue = <<>> \/ i \in 1..Parts[Head(queue)] => DataAnswer(s, i) \in Packet
<1>1. SeqMod \in Nat /\ SeqMod > 4 /\ sequence_inc(s) \in Numbers /\ 0 \in Numbers
  BY Sizes DEF Numbers
<1>2. \A t \in Numbers, flags \in SUBSET Flags :
        /\ [seq |-> t, flags |-> flags, data |-> <<>>] \in Packet
        /\ \A f \in Fragment : [seq |-> t, flags |-> flags, data |-> <<f>>] \in Packet
  BY DEF Packet, Numbers
<1>3. {"POLL"} \in SUBSET Flags /\ {"ACK"} \in SUBSET Flags /\ {"FIRST", "LAST"} \in SUBSET Flags
  BY DEF Flags
<1>4. PollPacket(s) \in Packet /\ AckPacket(s) \in Packet /\ ResetRequest \in Packet
  BY <1>1, <1>2, <1>3 DEF PollPacket, AckPacket, ResetRequest
<1>5. ASSUME NEW m \in Messages, NEW i \in Nat, i < Parts[m]
      PROVE  UplinkPacket(m, i, s) \in Packet
  <2>1. <<m, i + 1>> \in Fragment
    BY <1>5, FragmentsTyped, ConstantsAssumption
  <2>2. Ends(i + 1, Parts[m]) \in SUBSET Flags
    BY DEF Ends, Flags
  <2> QED
    BY <1>2, <2>1, <2>2 DEF UplinkPacket
<1>6. ASSUME NEW i \in Nat, queue = <<>> \/ i \in 1..Parts[Head(queue)]
      PROVE  DataAnswer(s, i) \in Packet
  <2>1. CASE queue = <<>>
    BY <1>1, <1>2, <1>3, <2>1 DEF DataAnswer
  <2>2. CASE queue # <<>>
    <3>1. Head(queue) \in Downs
      BY <2>2, HeadTailProperties DEF TypeOK
    <3>2. Fragments(Head(queue))[i] \in Fragment
      BY <1>6, <2>2, <3>1, FragmentsTyped
    <3>3. Ends(i, Parts[Head(queue)]) \cup (IF Len(queue) > 1 THEN {"POLL"} ELSE {}) \in SUBSET Flags
      BY DEF Ends, Flags
    <3> QED
      BY <1>1, <1>2, <2>2, <3>2, <3>3 DEF DataAnswer
  <2> QED
    BY <2>1, <2>2
<1> QED
  BY <1>4, <1>5, <1>6

\* Handing a packet over, and taking the first datagram from either end.
LEMMA HandTyped ==
  ASSUME TypeOK, NEW p \in Packet, Hand(p)
  PROVE  m_pck_send' \in Packet /\ m_sequence' \in Numbers /\ up' \in Seq(Packet)
<1>1. p.seq \in Numbers
  BY DEF Packet, Numbers
<1>2. up \in Seq(Packet)
  BY DEF TypeOK
<1> QED
  BY <1>1, <1>2, Sizes, AppendProperties DEF Hand

LEMMA HeadTyped ==
  ASSUME NEW q \in Seq(Packet), q # <<>>
  PROVE  /\ Head(q) \in Packet /\ Tail(q) \in Seq(Packet)
         /\ Head(q).seq \in Numbers /\ Head(q).flags \subseteq Flags
         /\ Head(q).data \in Seq(Fragment)
<1>1. Head(q) \in Packet /\ Tail(q) \in Seq(Packet)
  BY HeadTailProperties
<1>2. \A f \in Fragment : <<f>> \in Seq(Fragment)
  OBVIOUS
<1> QED
  BY <1>1, <1>2, EmptySeq DEF Packet, Numbers

LEMMA TypedInit == Init => Typed
<1> SUFFICES ASSUME Init PROVE Typed
  OBVIOUS
<1>1. /\ setting \in Settings /\ setting \in Setting
      /\ calls = setting.calls /\ faults = setting.maxfaults /\ queue = setting.downlinks
  BY ConstantsAssumption DEF Init
<1>2. /\ SeqMod \in Nat /\ SeqMod > 4 /\ calls \in 0..setting.calls
      /\ faults \in 0..setting.maxfaults /\ queue \in Seq(Downs)
  BY <1>1 DEF Setting, SeqMod
<1>3. 0 \in 0..SeqMod-1
  BY <1>2
<1>4. PollPacket(0) \in Packet
  BY <1>3 DEF PollPacket, Packet, Flags
<1>5. /\ <<>> \in Seq(Packet) /\ <<>> \in Seq(Fragment) /\ {} \subseteq Seq(Fragment)
      /\ NoAnswer \in Seq(Packet)
  BY EmptySeq DEF NoAnswer
<1>6. /\ server.expect = 0 /\ server.last = 0 /\ server.answer = NoAnswer
      /\ server.partial = <<>> /\ server.sent = 0
  BY DEF Init, Forgotten
<1>7. /\ m_sequence = 0 /\ m_last_recv_sequence = 0 /\ m_pck_send = PollPacket(0)
      /\ pc = "idle" /\ msg = NoMessage /\ part = 0 /\ buf = <<>>
      /\ result = "none" /\ up = <<>> /\ down = <<>> /\ inbox = {}
  BY DEF Init
<1>8. has_downlink \in BOOLEAN
  BY Zenon DEF Init
<1> HIDE DEF Init
<1> QED
  BY <1>1, <1>2, <1>3, <1>4, <1>5, <1>6, <1>7, <1>8 DEF Typed, TypeOK, Results

\* The device.
LEMMA DeviceTyped ==
  ASSUME Typed, (\E m \in Messages : Uplink(m)) \/ Downlink \/ Device
  PROVE  Typed'
<1> USE DEF Typed
<1>1. /\ SeqMod \in Nat /\ 0 \in Numbers /\ m_sequence \in Numbers /\ part \in Nat
      /\ \A s \in Numbers : sequence_inc(s) \in Numbers \ {0}
      /\ buf \in Seq(Fragment)
  <2>1. SeqMod \in Nat /\ SeqMod > 4 /\ \A s \in Numbers : sequence_inc(s) \in Numbers \ {0}
    BY Sizes
  <2>2. 0 \in Numbers
    BY <2>1 DEF Numbers
  <2> QED
    BY <2>1, <2>2 DEF TypeOK, Numbers
<1>2. ASSUME m_sequence' \in Numbers, m_last_recv_sequence' \in Numbers,
             m_pck_send' \in Packet, up' \in Seq(Packet), down' \in Seq(Packet),
             pc' \in {"idle", "uplink", "downlink", "final"},
             msg' \in Messages \cup {NoMessage}, part' \in Nat, buf' \in Seq(Fragment),
             has_downlink' \in BOOLEAN, result' \in Results,
             calls' \in 0..setting.calls, UNCHANGED <<faults, setting, cloud>>,
             pc' = "uplink" => msg' \in Messages /\ part' < Parts[msg']
      PROVE  Typed'
  BY <1>2 DEF TypeOK, Numbers, SeqMod, Packet, cloud
<1>3. ASSUME NEW m \in Messages, Uplink(m) PROVE Typed'
  <2>1. 0 < Parts[m] /\ UplinkPacket(m, 0, m_sequence) \in Packet
    BY <1>1, PacketsTyped, ConstantsAssumption
  <2>2. m_pck_send' \in Packet /\ m_sequence' \in Numbers /\ up' \in Seq(Packet)
    BY <1>3, <2>1, HandTyped DEF Uplink
  <2>3. calls' \in 0..setting.calls
    <3>1. calls \in 0..setting.calls /\ setting.calls \in Nat
      BY Sizes DEF TypeOK
    <3> QED
      BY <1>3, <3>1 DEF Uplink, Call
  <2> QED
    BY <1>2, <1>3, <2>1, <2>2, <2>3 DEF Uplink, TypeOK, Results, Numbers
<1>4. CASE Downlink
  <2>1. m_pck_send' \in Packet /\ m_sequence' \in Numbers /\ up' \in Seq(Packet)
    BY <1>1, <1>4, PacketsTyped, HandTyped DEF Downlink
  <2>2. calls' \in 0..setting.calls
    <3>1. calls \in 0..setting.calls /\ setting.calls \in Nat
      BY Sizes DEF TypeOK
    <3> QED
      BY <1>4, <3>1 DEF Downlink, Call
  <2> QED
    BY <1>2, <1>4, <2>1, <2>2, EmptySeq DEF Downlink, TypeOK, Results, Numbers
<1>5. ASSUME UplinkAnswer \/ DownlinkAnswer
      PROVE  /\ Answer \in Packet /\ Answer.seq \in Numbers /\ Answer.flags \subseteq Flags
             /\ Answer.data \in Seq(Fragment) /\ down' \in Seq(Packet)
             /\ UNCHANGED <<calls, faults, setting, cloud>>
  BY <1>5, HeadTyped DEF UplinkAnswer, DownlinkAnswer, Answer, TypeOK
<1>6. CASE UplinkBadFlags
  <2>1. has_downlink' \in BOOLEAN
    BY <1>6 DEF UplinkBadFlags, UplinkAnswer
  <2> QED
    BY <1>1, <1>2, <1>5, <1>6, <2>1 DEF UplinkBadFlags, Fail, TypeOK, Results
<1>7. CASE UplinkRestart
  <2>1. msg \in Messages /\ 0 < Parts[msg] /\ UplinkPacket(msg, 0, 0) \in Packet
    BY <1>1, <1>7, PacketsTyped, ConstantsAssumption DEF UplinkRestart, UplinkAnswer
  <2>2. m_pck_send' \in Packet /\ m_sequence' \in Numbers /\ up' \in Seq(Packet)
    BY <1>7, <2>1, HandTyped DEF UplinkRestart
  <2>3. has_downlink' \in BOOLEAN
    BY <1>7 DEF UplinkRestart, UplinkAnswer
  <2> QED
    BY <1>2, <1>5, <1>7, <2>1, <2>2, <2>3 DEF UplinkRestart, TypeOK, Numbers
<1>8. CASE UplinkRepeat
  <2>1. msg \in Messages /\ part < Parts[msg] /\ UplinkPacket(msg, part, m_sequence) \in Packet
    BY <1>1, <1>8, PacketsTyped DEF UplinkRepeat, UplinkAnswer
  <2>2. m_pck_send' \in Packet /\ m_sequence' \in Numbers /\ up' \in Seq(Packet)
    BY <1>8, <2>1, HandTyped DEF UplinkRepeat
  <2>3. has_downlink' \in BOOLEAN
    BY <1>8 DEF UplinkRepeat, UplinkAnswer
  <2> QED
    BY <1>2, <1>5, <1>8, <2>1, <2>2, <2>3 DEF UplinkRepeat, TypeOK, Numbers
<1>9. CASE UplinkAccept
  <2>1. /\ msg \in Messages /\ Parts[msg] \in Nat /\ part' = part + 1
        /\ has_downlink' \in BOOLEAN /\ m_last_recv_sequence' \in Numbers
        /\ UNCHANGED <<msg, buf, downloads>>
        /\ sequence_inc(Answer.seq) \in Numbers
    BY <1>1, <1>5, <1>9, ConstantsAssumption DEF UplinkAccept, UplinkAnswer
  <2>2. CASE ~LastFragment
    <3>1. part + 1 < Parts[msg] /\ UplinkPacket(msg, part + 1, sequence_inc(Answer.seq)) \in Packet
      BY <1>1, <2>1, <2>2, PacketsTyped DEF LastFragment
    <3>2. m_pck_send' \in Packet /\ m_sequence' \in Numbers /\ up' \in Seq(Packet)
      BY <1>9, <2>2, <3>1, HandTyped DEF UplinkAccept, NextPacket
    <3>3. UplinkAnswer /\ UNCHANGED <<pc, result>>
      BY <1>9, <2>2 DEF UplinkAccept
    <3> QED
      BY <1>1, <1>2, <1>5, <2>1, <3>1, <3>2, <3>3 DEF TypeOK
  <2>3. CASE LastFragment
    BY <1>1, <1>2, <1>5, <1>9, <2>1, <2>3 DEF UplinkAccept, TypeOK, Results
  <2> QED
    BY <2>2, <2>3
<1>10. CASE DownlinkRestart
  <2>1. m_pck_send' \in Packet /\ m_sequence' \in Numbers /\ up' \in Seq(Packet)
    BY <1>1, <1>10, PacketsTyped, HandTyped DEF DownlinkRestart
  <2> QED
    BY <1>2, <1>5, <1>10, <2>1 DEF DownlinkRestart, TypeOK, Numbers, DownlinkAnswer
<1>11. CASE DownlinkRepeat
  <2>1. m_pck_send' \in Packet /\ m_sequence' \in Numbers /\ up' \in Seq(Packet)
    BY <1>11, HandTyped DEF DownlinkRepeat, TypeOK
  <2> QED
    BY <1>2, <1>5, <1>11, <2>1 DEF DownlinkRepeat, TypeOK, Numbers, DownlinkAnswer
<1>12. CASE DownlinkRefuse
  <2>1. buf' \in Seq(Fragment)
    BY <1>1, <1>12, EmptySeq DEF DownlinkRefuse
  <2> QED
    BY <1>1, <1>2, <1>5, <1>12, <2>1 DEF DownlinkRefuse, DownlinkExpected, TypeOK, Results
<1>13. CASE DownlinkAccept
  <2>1. /\ DownlinkAnswer /\ sequence_inc(Answer.seq) \in Numbers
        /\ m_last_recv_sequence' \in Numbers /\ has_downlink' \in BOOLEAN
        /\ msg' = msg /\ pc = "downlink"
    BY <1>1, <1>5, <1>13 DEF DownlinkAccept, DownlinkExpected, DownlinkAnswer
  <2>2. buf' \in Seq(Fragment)
    BY <1>1, <1>5, <1>13, <2>1, ConcatProperties, EmptySeq DEF DownlinkAccept, Filled
  <2>3. CASE "LAST" \in Answer.flags /\ Answer.data = <<>> /\ part = 0
    BY <1>1, <1>2, <1>5, <1>13, <2>1, <2>2, <2>3 DEF DownlinkAccept, TypeOK, Results
  <2>4. CASE ~("LAST" \in Answer.flags /\ Answer.data = <<>> /\ part = 0)
    <3>1. Hand(AckPacket(sequence_inc(Answer.seq))) /\ part' = part + 1 /\ result' = result
          /\ pc' \in {"downlink", "final"}
      BY <1>13, <2>1, <2>4 DEF DownlinkAccept
    <3>2. m_pck_send' \in Packet /\ m_sequence' \in Numbers /\ up' \in Seq(Packet)
      BY <2>1, <3>1, PacketsTyped, HandTyped
    <3>3. /\ down' \in Seq(Packet) /\ calls' \in 0..setting.calls
          /\ UNCHANGED <<faults, setting, cloud>>
          /\ msg' \in Messages \cup {NoMessage} /\ result' \in Results /\ part' \in Nat
      BY <1>1, <1>5, <2>1, <3>1 DEF TypeOK
    <3> QED
      BY <1>2, <2>1, <2>2, <3>1, <3>2, <3>3
  <2> QED
    BY <2>3, <2>4
<1>14. CASE DownlinkDone
  BY <1>1, <1>2, <1>14 DEF DownlinkDone, TypeOK, Results, Numbers
<1>15. CASE Retransmit
  <2>1. <<m_pck_send>> \in Seq(Packet)
    BY DEF TypeOK
  <2> QED
    BY <1>1, <1>2, <1>15, <2>1 DEF Retransmit, TypeOK, Numbers, device
<1> QED
  BY <1>3, <1>4, <1>6, <1>7, <1>8, <1>9, <1>10, <1>11, <1>12, <1>13, <1>14, <1>15 DEF Device

LEMMA FaultTyped ==
  ASSUME TypeOK, NEW kind, Fault(kind)
  PROVE  faults' \in 0..setting.maxfaults /\ UNCHANGED <<calls, setting>>
<1>1. faults \in 0..setting.maxfaults /\ setting.maxfaults \in Nat
  BY Sizes DEF TypeOK
<1> QED
  BY <1>1 DEF Fault

\* The cloud.
LEMMA ServerTyped ==
  ASSUME Typed, Server \/ ServerForget
  PROVE  Typed'
<1> USE DEF Typed
<1>1. /\ SeqMod \in Nat /\ 0 \in Numbers
      /\ \A s \in Numbers : sequence_inc(s) \in Numbers \ {0}
      /\ up \in Seq(Packet) /\ down \in Seq(Packet)
  <2>1. SeqMod \in Nat /\ SeqMod > 4 /\ \A s \in Numbers : sequence_inc(s) \in Numbers \ {0}
    BY Sizes
  <2>2. 0 \in Numbers
    BY <2>1 DEF Numbers
  <2> QED
    BY <2>1, <2>2 DEF TypeOK
<1>2. ASSUME UNCHANGED <<device, setting>>,
             up' \in Seq(Packet), down' \in Seq(Packet),
             calls' = calls, faults' \in 0..setting.maxfaults,
             server'.expect \in Numbers, server'.last \in Numbers,
             server'.answer \in Seq(Packet), server'.partial \in Seq(Fragment),
             server'.sent \in Nat, inbox' \subseteq Seq(Fragment), queue' \in Seq(Downs)
      PROVE  Typed'
  BY <1>2 DEF TypeOK, Numbers, SeqMod, Packet, device
<1>3. ASSUME server' = Forgotten
      PROVE  /\ server'.expect \in Numbers /\ server'.last \in Numbers
             /\ server'.answer \in Seq(Packet) /\ server'.partial \in Seq(Fragment)
             /\ server'.sent \in Nat
  BY <1>1, <1>3, EmptySeq DEF Forgotten, NoAnswer
<1>4. ASSUME NEW p \in Packet, NEW answer \in Seq(Packet), NEW partial \in Seq(Fragment),
             NEW sent \in Nat, Answered(p, answer, partial, sent)
      PROVE  /\ server'.expect \in Numbers /\ server'.last \in Numbers
             /\ server'.answer \in Seq(Packet) /\ server'.partial \in Seq(Fragment)
             /\ server'.sent \in Nat /\ down' \in Seq(Packet)
  <2>1. p.seq \in Numbers
    BY DEF Packet, Numbers
  <2>2. down' \in Seq(Packet)
    BY <1>1, <1>4, ConcatProperties DEF Answered
  <2>3. server' = [expect |-> IF answer = NoAnswer THEN sequence_inc(p.seq)
                              ELSE sequence_inc(sequence_inc(p.seq)),
                   last |-> p.seq, answer |-> answer, partial |-> partial, sent |-> sent]
    BY <1>4 DEF Answered
  <2> QED
    BY <1>1, <2>1, <2>2, <2>3
<1>5. CASE ServerAccept
  <2> DEFINE p == Head(up)
  <2>1. /\ p \in Packet /\ up' \in Seq(Packet) /\ p.seq \in Numbers
        /\ p.flags \subseteq Flags /\ p.data \in Seq(Fragment)
        /\ UNCHANGED <<device, calls, faults, setting>>
    BY <1>1, <1>5, HeadTyped DEF ServerAccept
  <2>2. \A a \in Packet : <<a>> \in Seq(Packet)
    OBVIOUS
  <2>3. /\ server.sent \in Nat /\ server.partial \in Seq(Fragment)
        /\ faults \in 0..setting.maxfaults /\ inbox \subseteq Seq(Fragment)
        /\ queue \in Seq(Downs) /\ <<>> \in Seq(Fragment) /\ NoAnswer \in Seq(Packet)
    BY EmptySeq DEF TypeOK, NoAnswer
  <2>4. CASE ServerUplink(p)
    <3> DEFINE whole == (IF "FIRST" \in p.flags THEN <<>> ELSE server.partial) \o p.data
               a == [seq |-> sequence_inc(p.seq),
                     flags |-> {"ACK"} \cup (IF queue # <<>> THEN {"POLL"} ELSE {}),
                     data |-> <<>>]
    <3>1. whole \in Seq(Fragment)
      BY <2>1, <2>3, ConcatProperties
    <3>2. a \in Packet
      BY <1>1, <2>1 DEF Packet, Numbers, Flags
    <3>3. /\ Answered(p, <<a>>, IF "LAST" \in p.flags THEN <<>> ELSE whole, 0)
          /\ inbox' = IF "LAST" \in p.flags THEN inbox \cup {whole} ELSE inbox
          /\ queue' = queue
      BY <2>4 DEF ServerUplink
    <3>4. (IF "LAST" \in p.flags THEN <<>> ELSE whole) \in Seq(Fragment) /\ <<a>> \in Seq(Packet)
      BY <2>2, <2>3, <3>1, <3>2
    <3>5. inbox' \subseteq Seq(Fragment)
      BY <2>3, <3>1, <3>3
    <3> HIDE DEF whole, a, p
    <3> QED
      BY <1>2, <1>4, <2>1, <2>3, <3>3, <3>4, <3>5
  <2>5. CASE ServerPoll(p)
    <3>1. queue = <<>> \/ 1 \in 1..Parts[Head(queue)]
      <4>1. queue # <<>> => Head(queue) \in Downs
        BY <2>3, HeadTailProperties
      <4> QED
        BY <4>1, ConstantsAssumption
    <3>2. DataAnswer(p.seq, 1) \in Packet
      BY <2>1, <3>1, PacketsTyped
    <3>3. Answered(p, <<DataAnswer(p.seq, 1)>>, <<>>, 1) /\ UNCHANGED <<inbox, queue>>
      BY <2>5 DEF ServerPoll
    <3> HIDE DEF p
    <3> QED
      BY <1>2, <1>4, <2>1, <2>2, <2>3, <3>2, <3>3
  <2>6. CASE ServerAck(p)
    <3>1. inbox' = inbox /\ queue # <<>> /\ server.sent > 0
      BY <2>6 DEF ServerAck
    <3>2. CASE server.sent < Parts[Head(queue)]
      <4>1. Parts[Head(queue)] \in Nat
        BY <2>3, <3>1, HeadTailProperties, ConstantsAssumption
      <4>2. server.sent + 1 \in 1..Parts[Head(queue)] /\ server.sent + 1 \in Nat
        BY <2>3, <3>2, <4>1
      <4>3. DataAnswer(p.seq, server.sent + 1) \in Packet
        BY <2>1, <4>2, PacketsTyped
      <4>4. Answered(p, <<DataAnswer(p.seq, server.sent + 1)>>, <<>>, server.sent + 1) /\ queue' = queue
        BY <2>6, <3>2 DEF ServerAck
      <4> HIDE DEF p
      <4> QED
        BY <1>2, <1>4, <2>1, <2>2, <2>3, <3>1, <4>2, <4>3, <4>4
    <3>3. CASE ~(server.sent < Parts[Head(queue)])
      <4>1. Answered(p, NoAnswer, <<>>, 0) /\ queue' = Tail(queue)
        BY <2>6, <3>3 DEF ServerAck
      <4>2. queue' \in Seq(Downs)
        BY <2>3, <3>1, <4>1, HeadTailProperties
      <4> HIDE DEF p
      <4> QED
        BY <1>2, <1>4, <2>1, <2>3, <3>1, <4>1, <4>2
    <3> QED
      BY <3>2, <3>3
  <2> QED
    BY <1>5, <2>4, <2>5, <2>6 DEF ServerAccept
<1>6. CASE ServerRepeat
  <2>1. up' \in Seq(Packet) /\ down' \in Seq(Packet)
    BY <1>1, <1>6, HeadTyped, ConcatProperties DEF ServerRepeat, TypeOK
  <2> QED
    BY <1>2, <1>6, <2>1 DEF ServerRepeat, TypeOK, cloud, Numbers
<1>7. CASE ServerReset
  <2>1. ResetRequest \in Packet
    BY <1>1, PacketsTyped
  <2>2. up' \in Seq(Packet) /\ down' \in Seq(Packet)
    BY <1>1, <1>7, <2>1, HeadTyped, AppendProperties DEF ServerReset
  <2> QED
    BY <1>2, <1>3, <1>7, <2>2 DEF ServerReset, TypeOK
<1>8. CASE ServerForget
  <2>1. faults' \in 0..setting.maxfaults /\ UNCHANGED <<calls, setting>>
    BY <1>8, FaultTyped DEF ServerForget
  <2> QED
    BY <1>1, <1>2, <1>3, <1>8, <2>1 DEF ServerForget, TypeOK
<1> QED
  BY <1>5, <1>6, <1>7, <1>8 DEF Server

\* What the environment does to the device and the link.
LEMMA EnvironmentTyped ==
  ASSUME Typed, Environment
  PROVE  Typed'
<1> USE DEF Typed
<1>1. /\ SeqMod \in Nat /\ 0 \in 0..SeqMod-1 /\ PollPacket(0) \in Packet
      /\ up \in Seq(Packet) /\ down \in Seq(Packet) /\ <<>> \in Seq(Packet) /\ <<>> \in Seq(Fragment)
  <2>1. SeqMod \in Nat /\ SeqMod > 4
    BY Sizes
  <2>2. 0 \in 0..SeqMod-1
    BY <2>1
  <2> QED
    BY <2>1, <2>2, EmptySeq, PacketsTyped DEF TypeOK, Numbers
<1>2. ASSUME NEW kind, Fault(kind)
      PROVE  faults' \in 0..setting.maxfaults /\ UNCHANGED <<calls, setting>>
  BY <1>2, FaultTyped
<1>3. ASSUME NEW kind, Fault(kind), UNCHANGED <<device, cloud>>,
             up' \in Seq(Packet), down' \in Seq(Packet)
      PROVE  Typed'
  BY <1>2, <1>3 DEF TypeOK, SeqMod, Packet, device, cloud
<1>4. ASSUME NEW kind, Fault(kind), NEW event \in Results, Fail(event),
             UNCHANGED <<has_downlink, cloud>>, down' \in Seq(Packet)
      PROVE  Typed'
  BY <1>1, <1>2, <1>4 DEF TypeOK, SeqMod, Packet, Fail, cloud
<1>5. CASE Timeout
  BY <1>1, <1>4, <1>5 DEF Timeout, Results
<1>6. CASE BadAnswer
  BY <1>1, <1>4, <1>6, HeadTyped DEF BadAnswer, Results
<1>7. CASE Reboot
  <2>1. /\ Fault("reboot") /\ m_sequence' = 0 /\ m_last_recv_sequence' = 0 /\ pc' = "idle"
        /\ result' = "none" /\ msg' = NoMessage /\ part' = 0 /\ buf' = <<>>
        /\ m_pck_send' = PollPacket(0) /\ up' = <<>> /\ down' = <<>>
        /\ UNCHANGED <<downloads, cloud>>
    BY <1>7 DEF Reboot
  <2>2. has_downlink' \in BOOLEAN
    BY <1>7, Zenon DEF Reboot
  <2> QED
    BY <1>1, <1>2, <2>1, <2>2 DEF TypeOK, SeqMod, Packet, Results, cloud
<1>8. CASE LoseUp
  BY <1>1, <1>3, <1>8, HeadTyped DEF LoseUp
<1>9. CASE LoseDown
  BY <1>1, <1>3, <1>9, HeadTyped DEF LoseDown
<1>10. CASE Duplicate
  <2>1. up # <<>> /\ up' = <<Head(up)>> \o up
    BY <1>10 DEF Duplicate
  <2>2. <<Head(up)>> \in Seq(Packet)
    BY <1>1, <2>1, HeadTyped
  <2>3. up' \in Seq(Packet)
    BY <1>1, <2>1, <2>2, ConcatProperties
  <2> QED
    BY <1>1, <1>3, <1>10, <2>3 DEF Duplicate
<1> QED
  BY <1>5, <1>6, <1>7, <1>8, <1>9, <1>10, ServerTyped DEF Environment

LEMMA TypedStep == Typed /\ [Next]_vars => Typed'
<1> SUFFICES ASSUME Typed, [Next]_vars PROVE Typed'
  OBVIOUS
<1>1. CASE UNCHANGED vars
  BY <1>1 DEF vars, device, cloud, Typed, TypeOK, SeqMod, Packet
<1>2. CASE Next
  BY <1>2, DeviceTyped, ServerTyped, EnvironmentTyped DEF Next
<1> QED
  BY <1>1, <1>2

\* On every link the numbers stay in their range across the wrap, and no packet carries a fragment
\* that the message does not have: an upload never reads past its end, however often
\* it repeats and restarts.
THEOREM TypeCorrect == Spec => []TypeOK
<1>1. Typed => TypeOK
  BY DEF Typed
<1> QED
  BY <1>1, TypedInit, TypedStep, PTL DEF Spec

-----------------------------------------------------------------------------
(* Links that lose datagrams, wherever the device reboots: no datagram comes twice or *)
(* after its call.                                                                    *)

\* The first k fragments of a message.
Prefix(m, k) == [i \in 1..k |-> <<m, i>>]

\* The acknowledgement a of a last fragment is on its way, and the cloud waits for it:
\* it will release a message that the device has.
LastAck(a) ==
  /\ a.flags = {"ACK"} /\ a.seq \in Numbers
  /\ server.expect = a.seq
  /\ a.seq = sequence_inc(sequence_inc(server.last))
  /\ queue # <<>> /\ server.sent = Parts[Head(queue)]
  /\ Fragments(Head(queue)) \in downloads

\* The cloud has no packet numbered s: the number starts over, is the one it expects,
\* or is one that it refuses.
Unseen(s) == s = 0 \/ server.expect = s \/ s \notin {server.expect, server.last}

\* The cloud knows how far the message is.
Known ==
  /\ pc = "uplink" /\ part > 0 => server.partial = Prefix(msg, part)
  /\ pc = "downlink" /\ part > 0 => server.sent = part

\* The cloud has taken the packet that is being exchanged, and this is its answer.
Took ==
  /\ server.last = m_pck_send.seq
  /\ server.expect = sequence_inc(sequence_inc(m_pck_send.seq))
  /\ pc = "uplink" =>
       /\ \E flags \in SUBSET {"ACK", "POLL"} :
            server.answer = <<[seq |-> m_sequence, flags |-> flags, data |-> <<>>]>>
       /\ IF LastFragment THEN Fragments(msg) \in inbox
          ELSE server.partial = Prefix(msg, part + 1)
  /\ pc = "downlink" =>
       /\ server.answer = <<DataAnswer(m_pck_send.seq, part + 1)>>
       /\ server.sent = part + 1

\* What the device sends, and what it has received, is one message up to a fragment.
OneMessage ==
  /\ m_pck_send.seq \in Numbers
  /\ m_pck_send.seq = 0 => part = 0
  /\ m_sequence = sequence_inc(m_pck_send.seq)
  /\ pc = "uplink" => m_pck_send = UplinkPacket(msg, part, m_pck_send.seq)
  /\ pc = "downlink" /\ part = 0 => m_pck_send = PollPacket(m_pck_send.seq)
  /\ pc = "downlink" /\ part > 0 =>
       /\ m_pck_send = AckPacket(m_pck_send.seq)
       /\ queue # <<>> /\ part < Parts[Head(queue)]
       /\ buf = Prefix(Head(queue), part)

\* Between calls nothing is under way but the last acknowledgement of a download.
Resting ==
  /\ down = <<>>
  /\ \/ up = <<>> /\ Unseen(m_sequence)
     \/ /\ up = <<m_pck_send>> /\ LastAck(m_pck_send)
        /\ m_sequence = sequence_inc(m_pck_send.seq)

\* In a call that acknowledgement may still be in front; behind it one packet or one answer.
Behind ==
  /\ down = <<>> /\ part = 0
  /\ Len(up) = 2 /\ up = <<Head(up), m_pck_send>>
  /\ LastAck(Head(up)) /\ m_pck_send.seq = sequence_inc(Head(up).seq)
Sending ==
  /\ down = <<>> /\ up \in {<<>>, <<m_pck_send>>}
  /\ \/ Unseen(m_pck_send.seq) /\ (server.expect = m_pck_send.seq => Known)
     \/ Took
Refused ==
  up = <<>> /\ down = <<ResetRequest>> /\ server = Forgotten /\ m_pck_send.seq # 0
Accepted == up = <<>> /\ Took /\ down = server.answer

Exchange ==
  /\ Waiting => OneMessage /\ (Behind \/ Sending \/ Refused \/ Accepted)
  /\ ~Waiting => Resting

\* What the properties say of calls that are over.
UploadedWhole == inbox \subseteq {Fragments(m) : m \in Messages}
Histories ==
  /\ result = "uplink_ok" => Fragments(msg) \in inbox
  /\ UploadedWhole /\ DownloadWhole
  /\ \A i \in DOMAIN setting.downlinks :
       \/ \E j \in DOMAIN queue : queue[j] = setting.downlinks[i]
       \/ Fragments(setting.downlinks[i]) \in downloads

Reliable == Exchange /\ Histories

\* What a step adds to the histories, or takes from the queue of the cloud.
Arrives ==
  pc = "uplink" /\ inbox' = inbox \cup {Fragments(msg)} /\ queue' = queue
Releases ==
  /\ queue # <<>> /\ Fragments(Head(queue)) \in downloads
  /\ queue' = Tail(queue) /\ inbox' = inbox
Obtains ==
  \/ queue = <<>> /\ pc' = "idle" /\ result' = "poll" /\ downloads' = downloads
  \/ /\ queue # <<>> /\ Head(queue) \in Downs
     /\ pc' = "final" /\ result' = result
     /\ downloads' = downloads \cup {Fragments(Head(queue))}
  \/ UNCHANGED <<pc, result, downloads>>

\* Three numbers in a row are different, and none but the first is 0.
LEMMA Counting ==
  ASSUME TypeOK, NEW s \in Numbers
  PROVE  /\ sequence_inc(s) \in Numbers /\ sequence_inc(s) # 0 /\ sequence_inc(s) # s
         /\ sequence_inc(sequence_inc(s)) \in Numbers
         /\ sequence_inc(sequence_inc(s)) # 0 /\ sequence_inc(sequence_inc(s)) # s
         /\ sequence_inc(sequence_inc(sequence_inc(s))) # s
         /\ sequence_inc(sequence_inc(sequence_inc(s))) # sequence_inc(sequence_inc(s))
<1>1. SeqMod \in Nat /\ SeqMod > 4
  BY Sizes
<1> QED
  BY <1>1 DEF sequence_inc, Numbers

\* The next fragment makes the known part of a message one longer.
LEMMA NextFragment ==
  ASSUME NEW m, NEW k \in Nat
  PROVE  /\ Prefix(m, k) \o <<<<m, k + 1>>>> = Prefix(m, k + 1)
         /\ k = 0 => <<>> \o <<<<m, k + 1>>>> = Prefix(m, k + 1)
         /\ k > 0 => Prefix(m, k) # <<>>
<1> DEFINE S == {<<m, i>> : i \in Nat}
           t == <<<<m, k + 1>>>>
<1>1. \A n \in Nat : Prefix(m, n) \in Seq(S) /\ Len(Prefix(m, n)) = n
  <2> TAKE n \in Nat
  <2>1. Prefix(m, n) \in [1..n -> S]
    BY DEF Prefix
  <2> HIDE DEF S
  <2>2. Prefix(m, n) \in Seq(S) /\ DOMAIN Prefix(m, n) = 1..n
    BY <2>1
  <2> QED
    BY <2>1, <2>2, LenProperties DEF Prefix
<1>2. t \in Seq(S) /\ Len(t) = 1 /\ t[1] = <<m, k + 1>>
  OBVIOUS
<1>3. ASSUME NEW q \in Seq(S), q = Prefix(m, k)
      PROVE  q \o t = Prefix(m, k + 1)
  <2> HIDE DEF S, t
  <2>1. /\ q \o t \in Seq(S) /\ Len(q \o t) = k + 1
        /\ \A i \in 1..(k + 1) : (q \o t)[i] = IF i <= k THEN q[i] ELSE t[i - k]
    BY <1>1, <1>2, <1>3, ConcatProperties
  <2>2. \A i \in 1..(k + 1) : (q \o t)[i] = <<m, i>>
    <3> TAKE i \in 1..(k + 1)
    <3>1. CASE i <= k
      BY <1>3, <2>1, <3>1 DEF Prefix
    <3>2. CASE i = k + 1
      BY <1>2, <2>1, <3>2
    <3>3. i <= k \/ i = k + 1
      OBVIOUS
    <3> QED
      BY <3>1, <3>2, <3>3
  <2>3. DOMAIN (q \o t) = 1..(k + 1) /\ q \o t = [i \in 1..(k + 1) |-> (q \o t)[i]]
    BY <2>1, LenProperties
  <2> QED
    BY <2>2, <2>3 DEF Prefix
<1>4. k = 0 => Prefix(m, k) = <<>>
  BY <1>1, EmptySeq
<1>5. k > 0 => Prefix(m, k) # <<>>
  <2>1. Len(Prefix(m, k)) = k /\ Len(<<>>) = 0
    BY <1>1
  <2> HIDE DEF S
  <2> QED
    BY <2>1
<1> HIDE DEF t
<1>6. Prefix(m, k) \o t = Prefix(m, k + 1)
  BY <1>1, <1>3
<1> QED
  BY <1>4, <1>5, <1>6 DEF t

\* How the queues of datagrams grow and shrink.
LEMMA Datagrams ==
  ASSUME NEW a, NEW b
  PROVE  /\ Append(<<>>, a) = <<a>> /\ Append(<<a>>, b) = <<a, b>>
         /\ Head(<<a>>) = a /\ Tail(<<a>>) = <<>> /\ <<a>> # <<>>
         /\ Head(<<a, b>>) = a /\ Tail(<<a, b>>) = <<b>> /\ Len(<<a, b>>) = 2 /\ <<a, b>> # <<>>
         /\ <<>> \o <<a>> = <<a>> /\ <<>> \o <<>> = <<>>
<1>1. <<a>> \in Seq({a}) /\ <<>> \in Seq({a})
  OBVIOUS
<1>2. <<>> \o <<a>> = <<a>> /\ <<>> \o <<>> = <<>>
  BY <1>1, ConcatEmptySeq
<1>3. Append(<<>>, a) = <<a>> /\ Append(<<a>>, b) = <<a, b>>
  <2>1. <<>> \in Seq({a, b}) /\ <<a>> \in Seq({a, b}) /\ Len(<<>>) = 0 /\ Len(<<a>>) = 1
    OBVIOUS
  <2>2. Append(<<>>, a) \in Seq({a, b}) /\ Append(<<a>>, b) \in Seq({a, b})
    BY <2>1, AppendProperties
  <2>3. /\ Len(Append(<<>>, a)) = 1 /\ Append(<<>>, a)[1] = a
        /\ Len(Append(<<a>>, b)) = 2 /\ Append(<<a>>, b)[1] = a /\ Append(<<a>>, b)[2] = b
    BY <2>1, AppendProperties
  <2>4. \A q \in Seq({a, b}) : /\ Len(q) = 1 => q = <<q[1]>>
                              /\ Len(q) = 2 => q = <<q[1], q[2]>>
    OBVIOUS
  <2>5. ASSUME NEW q \in Seq({a, b}), Len(q) = 1, q[1] = a
        PROVE  q = <<a>>
    BY <2>4, <2>5
  <2>6. ASSUME NEW q \in Seq({a, b}), Len(q) = 2, q[1] = a, q[2] = b
        PROVE  q = <<a, b>>
    BY <2>4, <2>6
  <2> QED
    BY <2>2, <2>3, <2>5, <2>6, Zenon
<1>4. Head(<<a>>) = a /\ Tail(<<a>>) = <<>> /\ <<a>> # <<>>
  OBVIOUS
<1>5. Head(<<a, b>>) = a /\ Tail(<<a, b>>) = <<b>>
  OBVIOUS
<1>6. Len(<<a, b>>) = 2 /\ <<a, b>> # <<>>
  OBVIOUS
<1> QED
  BY <1>2, <1>3, <1>4, <1>5, <1>6

\* What the later lemmas need of the types.
LEMMA Facts ==
  ASSUME OnlyLosses, Typed
  PROVE  /\ SeqMod \in Nat /\ 0 \in Numbers /\ m_sequence \in Numbers
         /\ server.last \in Numbers /\ part \in Nat
         /\ \A m \in Messages \cup Downs : Parts[m] \in Nat /\ Parts[m] > 0
         /\ queue # <<>> => Head(queue) \in Downs
         /\ \A kind : Fault(kind) => kind \in {"bad", "reboot", "lose_up", "lose_down"}
<1>1. SeqMod \in Nat /\ SeqMod > 4
  BY Sizes DEF Typed
<1>2. 0 \in Numbers
  BY <1>1 DEF Numbers
<1>3. queue # <<>> => Head(queue) \in Downs
  BY HeadTailProperties DEF Typed, TypeOK
<1>4. \A kind : Fault(kind) => kind \in {"bad", "reboot", "lose_up", "lose_down"}
  BY DEF Fault, Faults, OnlyLosses, Typed, TypeOK
<1>5. \A m \in Messages \cup Downs : Parts[m] \in Nat /\ Parts[m] > 0
  BY ConstantsAssumption
<1> QED
  BY <1>1, <1>2, <1>3, <1>4, <1>5 DEF Typed, TypeOK, Numbers

\* How the device and the link are built never changes.
LEMMA SettingKept == [Next]_vars => setting' = setting
BY DEF vars, Next, Uplink, Downlink, Device, UplinkBadFlags, UplinkRestart, UplinkRepeat, UplinkAccept,
   UplinkAnswer, DownlinkAnswer, DownlinkRestart, DownlinkRepeat, DownlinkRefuse, DownlinkAccept,
   DownlinkExpected, DownlinkDone, Retransmit, Server, ServerAccept, ServerRepeat, ServerReset,
   Environment, Fault, Timeout, BadAnswer, Reboot, LoseUp, LoseDown, Duplicate, ServerForget

LEMMA HistoriesKept ==
  ASSUME Histories, UNCHANGED <<inbox, queue, setting, downloads>>,
         result' = "uplink_ok" => Fragments(msg') \in inbox
  PROVE  Histories'
BY DEF Histories, UploadedWhole, DownloadWhole

\* A call starts: its packet is alone or behind the last acknowledgement.
LEMMA Started ==
  ASSUME Resting, OneMessage', part' = 0, NEW p, p.seq = m_sequence, Hand(p),
         UNCHANGED <<down, server, queue, downloads, setting>>
  PROVE  (Behind \/ Sending)'
<1>1. m_pck_send' = p /\ up' = Append(up, p)
  BY DEF Hand
<1>2. Known'
  BY DEF Known
<1>3. CASE up = <<>> /\ Unseen(m_sequence)
  <2>1. up' = <<m_pck_send'>>
    BY <1>1, <1>3, Datagrams
  <2>2. Unseen(m_pck_send.seq)'
    BY <1>1, <1>3 DEF Unseen
  <2> QED
    BY <1>2, <2>1, <2>2 DEF Sending, Resting
<1>4. CASE up = <<m_pck_send>> /\ LastAck(m_pck_send) /\ m_sequence = sequence_inc(m_pck_send.seq)
  <2> PICK a : a = m_pck_send
    OBVIOUS
  <2>1. up' = <<a, p>> /\ Head(up') = a /\ Len(up') = 2
    <3>1. Append(<<a>>, p) = <<a, p>> /\ Head(<<a, p>>) = a /\ Len(<<a, p>>) = 2
      BY Datagrams
    <3> QED
      BY <1>1, <1>4, <3>1, Zenon
  <2>2. LastAck(a)'
    BY <1>4 DEF LastAck, Numbers, SeqMod, sequence_inc
  <2>3. p.seq = sequence_inc(a.seq)'
    BY <1>4 DEF sequence_inc, SeqMod
  <2>4. LastAck(Head(up))' /\ m_pck_send'.seq = sequence_inc(Head(up).seq)'
    BY <1>1, <2>1, <2>2, <2>3 DEF LastAck, sequence_inc, SeqMod, Numbers
  <2> QED
    BY <1>1, <2>1, <2>4 DEF Behind, Resting
<1> QED
  BY <1>3, <1>4 DEF Resting

\* It starts over: the cloud takes number 0 whatever it has had.
LEMMA Restarted ==
  ASSUME up = <<>>, NEW p, p.seq = 0, Hand(p), part' = 0, down' = <<>>
  PROVE  Sending'
<1>1. m_pck_send' = p /\ up' = <<p>>
  BY Datagrams DEF Hand
<1>2. Unseen(m_pck_send.seq)' /\ Known'
  BY <1>1 DEF Unseen, Known
<1> QED
  BY <1>1, <1>2 DEF Sending

\* The datagram in the socket is a demand to start over or the answer that is due.
LEMMA AnswerTaken ==
  ASSUME OnlyLosses, Typed, Exchange, Waiting, down # <<>>
  PROVE  /\ up = <<>> /\ OneMessage /\ Tail(down) = <<>>
         /\ \/ Refused /\ Answer = ResetRequest
            \/ /\ Accepted /\ Answer.seq = m_sequence /\ Answer.seq # 0
               /\ pc = "uplink" => Answer.data = <<>> /\ Answer.flags \subseteq {"ACK", "POLL"}
               /\ pc = "downlink" => Answer = DataAnswer(m_pck_send.seq, part + 1)
<1>1. OneMessage /\ (Refused \/ Accepted)
  BY DEF Exchange, Behind, Sending
<1>2. up = <<>>
  BY <1>1 DEF Refused, Accepted
<1>3. CASE Refused
  BY <1>1, <1>2, <1>3, Datagrams DEF Refused, Answer
<1>4. CASE Accepted
  <2>1. m_sequence = sequence_inc(m_pck_send.seq) /\ m_pck_send.seq \in Numbers
    BY <1>1 DEF OneMessage
  <2>2. m_sequence # 0
    BY <2>1, Counting DEF Typed
  <2>3. CASE pc = "uplink"
    <3>1. PICK flags \in SUBSET {"ACK", "POLL"} :
            down = <<[seq |-> m_sequence, flags |-> flags, data |-> <<>>]>>
      BY <1>4, <2>3 DEF Accepted, Took
    <3>2. Answer = [seq |-> m_sequence, flags |-> flags, data |-> <<>>] /\ Tail(down) = <<>>
      BY <3>1, Datagrams DEF Answer
    <3> QED
      BY <1>1, <1>2, <1>4, <2>2, <2>3, <3>2
  <2>4. CASE pc = "downlink"
    <3>1. down = <<DataAnswer(m_pck_send.seq, part + 1)>>
      BY <1>4, <2>4 DEF Accepted, Took
    <3>2. Answer = DataAnswer(m_pck_send.seq, part + 1) /\ Tail(down) = <<>>
      BY <3>1, Datagrams DEF Answer
    <3>3. Answer.seq = m_sequence
      BY <2>1, <3>2 DEF DataAnswer
    <3> QED
      BY <1>1, <1>2, <1>4, <2>2, <2>4, <3>2, <3>3
  <2> QED
    BY <2>3, <2>4 DEF Waiting
<1> QED
  BY <1>1, <1>3, <1>4

\* The two calls.
LEMMA CallReliable ==
  ASSUME OnlyLosses, Typed, Reliable, (\E m \in Messages : Uplink(m)) \/ Downlink
  PROVE  Reliable'
<1>1. /\ SeqMod \in Nat /\ 0 \in Numbers /\ m_sequence \in Numbers
      /\ Exchange /\ Histories
  BY Facts DEF Reliable
<1>2. ASSUME NEW m \in Messages, Uplink(m) PROVE Reliable'
  <2> DEFINE p == UplinkPacket(m, 0, m_sequence)
  <2>1. /\ pc = "idle" /\ pc' = "uplink" /\ msg' = m /\ part' = 0 /\ result' = "busy"
        /\ Hand(p) /\ UNCHANGED <<down, setting, server, inbox, queue, downloads>>
    BY <1>2 DEF Uplink, Call, cloud
  <2>2. p.seq = m_sequence /\ m_pck_send' = p /\ m_sequence' = sequence_inc(p.seq)
    BY <2>1 DEF Hand, UplinkPacket
  <2>3. OneMessage'
    BY <1>1, <2>1, <2>2 DEF OneMessage, Numbers, SeqMod, sequence_inc, UplinkPacket
  <2>4. Resting
    BY <1>1, <2>1 DEF Exchange, Waiting
  <2>5. (Behind \/ Sending)'
    BY <2>1, <2>2, <2>3, <2>4, Started
  <2>6. Histories'
    BY <1>1, <2>1, HistoriesKept
  <2> QED
    BY <2>1, <2>3, <2>5, <2>6 DEF Reliable, Exchange, Waiting
<1>3. CASE Downlink
  <2> DEFINE p == PollPacket(m_sequence)
  <2>1. /\ pc = "idle" /\ pc' = "downlink" /\ part' = 0 /\ result' = "busy"
        /\ Hand(p) /\ UNCHANGED <<down, setting, server, inbox, queue, downloads>>
    BY <1>3 DEF Downlink, Call, cloud
  <2>2. p.seq = m_sequence /\ m_pck_send' = p /\ m_sequence' = sequence_inc(p.seq)
    BY <2>1 DEF Hand, PollPacket
  <2>3. OneMessage'
    BY <1>1, <2>1, <2>2 DEF OneMessage, Numbers, SeqMod, sequence_inc, PollPacket
  <2>4. Resting
    BY <1>1, <2>1 DEF Exchange, Waiting
  <2>5. (Behind \/ Sending)'
    BY <2>1, <2>2, <2>3, <2>4, Started
  <2>6. Histories'
    BY <1>1, <2>1, HistoriesKept
  <2> QED
    BY <2>1, <2>3, <2>5, <2>6 DEF Reliable, Exchange, Waiting
<1> QED
  BY <1>2, <1>3

\* The upload: what the device does with the datagram it takes.
LEMMA UplinkReliable ==
  ASSUME OnlyLosses, Typed, Reliable,
         UplinkBadFlags \/ UplinkRestart \/ UplinkRepeat \/ UplinkAccept
  PROVE  Reliable'
<1>1. /\ 0 \in Numbers /\ part \in Nat /\ Exchange /\ Histories
  BY Facts DEF Reliable
<1>2. /\ pc = "uplink" /\ down # <<>> /\ down' = Tail(down) /\ Waiting
      /\ UNCHANGED <<setting, server, inbox, queue>>
  BY DEF UplinkBadFlags, UplinkRestart, UplinkRepeat, UplinkAccept, UplinkAnswer, cloud, Waiting
<1>3. /\ up = <<>> /\ OneMessage /\ down' = <<>>
      /\ \/ Refused /\ Answer = ResetRequest
         \/ /\ Accepted /\ Answer.seq = m_sequence /\ Answer.seq # 0
            /\ Answer.data = <<>> /\ Answer.flags \subseteq {"ACK", "POLL"}
  BY <1>1, <1>2, AnswerTaken
<1>4. msg \in Messages /\ part < Parts[msg] /\ Parts[msg] \in Nat /\ Parts[msg] > 0
  BY <1>2, Facts DEF Typed
<1>5. ~UplinkUnexpected /\ ~UplinkRepeat
  BY <1>3 DEF UplinkUnexpected, UplinkRepeat, ResetRequest
<1>6. CASE UplinkRestart
  <2> DEFINE p == UplinkPacket(msg, 0, 0)
  <2>1. /\ part' = 0 /\ Hand(p) /\ UNCHANGED <<pc, msg, result, downloads>>
    BY <1>6 DEF UplinkRestart
  <2>2. p.seq = 0 /\ m_pck_send' = p /\ m_sequence' = sequence_inc(p.seq)
    BY <2>1 DEF Hand, UplinkPacket
  <2>3. OneMessage'
    BY <1>1, <1>2, <2>1, <2>2 DEF OneMessage, Numbers, SeqMod, sequence_inc, UplinkPacket
  <2>4. Sending'
    <3> HIDE DEF p
    <3> QED
      BY <1>3, <2>1, <2>2, Restarted
  <2>5. Histories'
    BY <1>1, <1>2, <2>1, HistoriesKept DEF Histories
  <2> QED
    BY <1>2, <2>1, <2>3, <2>4, <2>5 DEF Reliable, Exchange, Waiting
<1>7. CASE UplinkAccept
  <2>1. /\ Accepted /\ Answer.seq = m_sequence /\ part' = part + 1
        /\ UNCHANGED <<msg, downloads>>
    BY <1>3, <1>7 DEF UplinkAccept, ResetRequest
  <2>2. /\ server.expect = sequence_inc(m_sequence)
        /\ IF LastFragment THEN Fragments(msg) \in inbox
           ELSE server.partial = Prefix(msg, part + 1)
    BY <1>2, <1>3, <2>1 DEF Accepted, Took, OneMessage
  <2>3. sequence_inc(m_sequence) \in Numbers /\ sequence_inc(m_sequence) # 0
    BY Counting, Facts DEF Typed
  <2>4. CASE ~LastFragment
    <3> DEFINE p == UplinkPacket(msg, part + 1, sequence_inc(m_sequence))
    <3>1. Hand(p) /\ UNCHANGED <<pc, result>>
      BY <1>7, <2>1, <2>4 DEF UplinkAccept, NextPacket
    <3>2. /\ p.seq = sequence_inc(m_sequence) /\ m_pck_send' = p
          /\ m_sequence' = sequence_inc(p.seq) /\ up' = <<p>>
      BY <1>3, <3>1, Datagrams DEF Hand, UplinkPacket
    <3>3. p = UplinkPacket(msg', part', p.seq)
      BY <2>1, <3>2
    <3>4. OneMessage'
      <4> HIDE DEF p
      <4> QED
        BY <1>2, <2>3, <3>1, <3>2, <3>3 DEF OneMessage, Numbers, SeqMod, sequence_inc, UplinkPacket
    <3>5. Unseen(m_pck_send.seq)'
      BY <1>2, <2>2, <3>2 DEF Unseen
    <3>6. Known'
      BY <1>2, <2>1, <2>2, <2>4, <3>1 DEF Known, Prefix
    <3>7. Sending'
      <4> HIDE DEF p
      <4> QED
        BY <1>3, <3>2, <3>5, <3>6 DEF Sending
    <3>8. Histories'
      BY <1>1, <1>2, <2>1, <3>1, HistoriesKept DEF Histories
    <3> QED
      BY <1>2, <3>1, <3>4, <3>7, <3>8 DEF Reliable, Exchange, Waiting
  <2>5. CASE LastFragment
    <3>1. m_sequence' = sequence_inc(m_sequence) /\ pc' = "idle" /\ up' = <<>>
      BY <1>3, <1>7, <2>1, <2>5 DEF UplinkAccept
    <3>2. Resting'
      BY <1>2, <1>3, <2>2, <3>1 DEF Resting, Unseen
    <3>3. Histories'
      BY <1>1, <1>2, <2>1, <2>2, <2>5, HistoriesKept
    <3> QED
      BY <3>1, <3>2, <3>3 DEF Reliable, Exchange, Waiting
  <2> QED
    BY <2>4, <2>5
<1> QED
  BY <1>5, <1>6, <1>7 DEF UplinkBadFlags

\* The download.
LEMMA DownlinkReliable ==
  ASSUME OnlyLosses, Typed, Reliable,
         DownlinkRestart \/ DownlinkRepeat \/ DownlinkRefuse \/ DownlinkAccept
  PROVE  Reliable' /\ (DownlinkRestart \/ DownlinkRefuse \/ Obtains)
<1>1. /\ 0 \in Numbers /\ part \in Nat /\ Exchange /\ Histories
  BY Facts DEF Reliable
<1>2. /\ pc = "downlink" /\ down # <<>> /\ down' = Tail(down) /\ Waiting
      /\ UNCHANGED <<setting, server, inbox, queue>>
  BY DEF DownlinkRestart, DownlinkRepeat, DownlinkRefuse, DownlinkAccept, DownlinkExpected,
         DownlinkAnswer, cloud, Waiting
<1>3. /\ up = <<>> /\ OneMessage /\ down' = <<>>
      /\ \/ Refused /\ Answer = ResetRequest
         \/ /\ Accepted /\ Answer.seq = m_sequence /\ Answer.seq # 0
            /\ Answer = DataAnswer(m_pck_send.seq, part + 1)
  BY <1>1, <1>2, AnswerTaken
<1>4. ~DownlinkRepeat
  BY <1>3 DEF DownlinkRepeat, ResetRequest
<1>5. CASE DownlinkRestart
  <2> DEFINE p == PollPacket(0)
  <2>1. /\ part' = 0 /\ Hand(p) /\ UNCHANGED <<pc, msg, result, downloads>>
    BY <1>5 DEF DownlinkRestart
  <2>2. p.seq = 0 /\ m_pck_send' = p /\ m_sequence' = sequence_inc(p.seq)
    BY <2>1 DEF Hand, PollPacket
  <2>3. OneMessage'
    BY <1>1, <1>2, <2>1, <2>2 DEF OneMessage, Numbers, SeqMod, sequence_inc, PollPacket
  <2>4. Sending'
    <3> HIDE DEF p
    <3> QED
      BY <1>3, <2>1, <2>2, Restarted
  <2>5. Histories'
    BY <1>1, <1>2, <2>1, HistoriesKept DEF Histories
  <2> QED
    BY <1>2, <1>5, <2>1, <2>3, <2>4, <2>5 DEF Reliable, Exchange, Waiting
<1>6. CASE DownlinkRefuse
  <2>1. /\ m_sequence' = 0 /\ pc' = "idle" /\ result' = "downlink_error"
        /\ UNCHANGED <<up, msg, downloads>>
    BY <1>6 DEF DownlinkRefuse
  <2>2. Resting'
    BY <1>3, <2>1 DEF Resting, Unseen
  <2>3. Histories'
    BY <1>1, <1>2, <2>1, HistoriesKept
  <2> QED
    BY <1>6, <2>1, <2>2, <2>3 DEF Reliable, Exchange, Waiting
<1>7. CASE DownlinkAccept
  <2> DEFINE h == Head(queue)
  <2>1. /\ Accepted /\ Answer.seq = m_sequence
        /\ Answer = DataAnswer(m_pck_send.seq, part + 1)
        /\ msg' = msg /\ buf' = Filled
    BY <1>3, <1>7 DEF DownlinkAccept, DownlinkExpected, ResetRequest
  <2>2. /\ server.last = m_pck_send.seq /\ server.sent = part + 1
        /\ m_sequence = sequence_inc(m_pck_send.seq)
        /\ server.expect = sequence_inc(m_sequence)
    BY <1>2, <1>3, <2>1 DEF Accepted, Took, OneMessage
  <2>3. sequence_inc(m_sequence) \in Numbers /\ sequence_inc(m_sequence) # 0
    BY Counting, Facts DEF Typed
  <2>4. CASE queue = <<>>
    <3>1. /\ Answer.flags = {"FIRST", "LAST"} /\ Answer.data = <<>> /\ part = 0
      BY <1>1, <1>2, <1>3, <2>1, <2>4 DEF DataAnswer, OneMessage
    <3>2. /\ m_sequence' = sequence_inc(m_sequence) /\ pc' = "idle" /\ result' = "poll"
          /\ UNCHANGED <<downloads, up>>
      BY <1>7, <2>1, <3>1 DEF DownlinkAccept
    <3>3. Resting'
      BY <1>2, <1>3, <2>2, <3>2 DEF Resting, Unseen
    <3>4. Histories'
      BY <1>1, <1>2, <2>1, <3>2, HistoriesKept
    <3> QED
      BY <2>4, <3>2, <3>3, <3>4 DEF Reliable, Exchange, Waiting, Obtains
  <2>5. CASE queue # <<>>
    <3>1. h \in Downs /\ Parts[h] \in Nat /\ part + 1 \in 1..Parts[h]
      <4>1. h \in Downs /\ Parts[h] \in Nat /\ Parts[h] > 0
        BY <2>5, Facts
      <4>2. part > 0 => part < Parts[h]
        BY <1>2, <1>3 DEF OneMessage
      <4> HIDE DEF h
      <4> QED
        BY <1>1, <4>1, <4>2
    <3>2. /\ Answer.data = <<<<h, part + 1>>>>
          /\ Answer.flags = Ends(part + 1, Parts[h]) \cup (IF Len(queue) > 1 THEN {"POLL"} ELSE {})
      <4>1. Fragments(h)[part + 1] = <<h, part + 1>>
        BY <3>1, FragmentsTyped
      <4> QED
        BY <2>1, <2>5, <4>1 DEF DataAnswer
    <3>3. /\ "FIRST" \in Answer.flags <=> part = 0
          /\ "LAST" \in Answer.flags <=> part + 1 = Parts[h]
          /\ "ACK" \notin Answer.flags
      <4> HIDE DEF h
      <4> QED
        BY <1>1, <3>1, <3>2 DEF Ends
    <3>4. Filled = Prefix(h, part + 1)
      <4>1. CASE part = 0
        <5>1. Filled = <<>> \o <<<<h, part + 1>>>>
          BY <3>2, <3>3, <4>1 DEF Filled
        <5> QED
          BY <1>1, <4>1, <5>1, NextFragment
      <4>2. CASE part > 0
        <5>1. buf = Prefix(h, part)
          BY <1>2, <1>3, <4>2 DEF OneMessage
        <5>2. "FIRST" \notin Answer.flags
          BY <1>1, <3>3, <4>2
        <5>3. Filled = Prefix(h, part) \o <<<<h, part + 1>>>>
          BY <3>2, <5>1, <5>2, Zenon DEF Filled
        <5> QED
          BY <1>1, <5>3, NextFragment
      <4> QED
        BY <1>1, <4>1, <4>2
    <3>5. Answer.data # <<>>
      BY <3>2, Datagrams
    <3>6. /\ part' = part + 1 /\ Hand(AckPacket(sequence_inc(m_sequence)))
          /\ IF part + 1 = Parts[h]
               THEN pc' = "final" /\ downloads' = downloads \cup {Filled}
               ELSE UNCHANGED <<pc, downloads>>
          /\ result' = result
      BY <1>7, <2>1, <3>3, <3>5 DEF DownlinkAccept
    <3> DEFINE p == AckPacket(sequence_inc(m_sequence))
    <3>7. /\ p.seq = sequence_inc(m_sequence) /\ p.flags = {"ACK"} /\ m_pck_send' = p
          /\ m_sequence' = sequence_inc(p.seq) /\ up' = <<p>> /\ p = AckPacket(p.seq)
      BY <1>3, <3>6, Datagrams DEF Hand, AckPacket
    <3> HIDE DEF p
    <3>8. CASE part + 1 = Parts[h]
      <4>1. Fragments(h) = Filled
        BY <3>4, <3>8 DEF Prefix, Fragments
      <4>2. pc' = "final" /\ downloads' = downloads \cup {Fragments(h)}
        BY <3>6, <3>8, <4>1
      <4>3. LastAck(m_pck_send)'
        <5>1. /\ p.seq \in Numbers' /\ server'.expect = p.seq
              /\ server'.sent = Parts[h] /\ queue' = queue /\ queue # <<>>
          BY <1>2, <2>2, <2>3, <2>5, <3>7, <3>8 DEF Numbers, SeqMod
        <5>2. p.seq = sequence_inc(sequence_inc(server.last))'
          BY <1>2, <2>2, <3>7 DEF sequence_inc, SeqMod
        <5> QED
          BY <3>7, <4>2, <5>1, <5>2 DEF LastAck
      <4>4. m_sequence' = sequence_inc(m_pck_send.seq)'
        BY <1>2, <3>7 DEF sequence_inc, SeqMod
      <4>5. Resting'
        BY <1>3, <3>7, <4>3, <4>4 DEF Resting
      <4>6. Histories'
        <5>1. DownloadWhole' /\ UploadedWhole'
          BY <1>1, <1>2, <3>1, <4>2 DEF Histories, DownloadWhole, UploadedWhole
        <5> QED
          BY <1>1, <1>2, <2>1, <3>6, <4>2, <5>1 DEF Histories
      <4> QED
        BY <2>5, <3>1, <3>6, <4>2, <4>5, <4>6 DEF Reliable, Exchange, Waiting, Obtains
    <3>9. CASE part + 1 # Parts[h]
      <4>1. part + 1 < Parts[h] /\ buf' = Prefix(h, part + 1) /\ UNCHANGED <<pc, downloads>>
        BY <2>1, <3>1, <3>4, <3>6, <3>9
      <4>2. OneMessage'
        <5>1. p.seq \in Numbers' /\ p.seq # 0
          BY <1>2, <2>3, <3>7 DEF Numbers, SeqMod
        <5>2. /\ part' > 0 /\ part' < Parts[Head(queue')] /\ queue' # <<>>
              /\ buf' = Prefix(Head(queue'), part')
          BY <1>1, <1>2, <2>5, <3>6, <4>1
        <5>3. m_sequence' = sequence_inc(m_pck_send.seq)'
          BY <1>2, <3>7 DEF sequence_inc, SeqMod
        <5> QED
          BY <1>2, <3>7, <4>1, <5>1, <5>2, <5>3 DEF OneMessage, Prefix
      <4>3. Unseen(m_pck_send.seq)' /\ Known'
        BY <1>2, <2>2, <3>6, <3>7, <4>1 DEF Unseen, Known
      <4>4. Sending'
        BY <1>3, <3>7, <4>3 DEF Sending
      <4>5. Histories'
        BY <1>1, <1>2, <2>1, <3>6, <4>1, HistoriesKept DEF Histories
      <4> QED
        BY <1>2, <3>6, <4>1, <4>2, <4>4, <4>5 DEF Reliable, Exchange, Waiting, Obtains
    <3> QED
      BY <3>8, <3>9
  <2> QED
    BY <2>4, <2>5
<1> QED
  BY <1>4, <1>5, <1>6, <1>7

\* What reaches the cloud is the last acknowledgement of a download or the packet being
\* exchanged.
LEMMA AtTheCloud ==
  ASSUME OnlyLosses, Typed, Reliable, up # <<>>
  PROVE  /\ down = <<>>
         /\ \/ /\ LastAck(Head(up))
               /\ \/ ~Waiting /\ Tail(up) = <<>> /\ m_sequence = sequence_inc(Head(up).seq)
                  \/ /\ Waiting /\ OneMessage /\ part = 0 /\ Tail(up) = <<m_pck_send>>
                     /\ m_pck_send.seq = sequence_inc(Head(up).seq)
            \/ Waiting /\ OneMessage /\ Sending /\ Head(up) = m_pck_send /\ Tail(up) = <<>>
<1>1. CASE ~Waiting
  <2>1. Resting
    BY <1>1 DEF Reliable, Exchange
  <2>2. /\ down = <<>> /\ up = <<m_pck_send>> /\ LastAck(m_pck_send)
        /\ m_sequence = sequence_inc(m_pck_send.seq)
    BY <2>1 DEF Resting
  <2>3. Head(up) = m_pck_send /\ Tail(up) = <<>>
    BY <2>2, Datagrams
  <2> QED
    BY <1>1, <2>2, <2>3
<1>2. CASE Waiting
  <2>1. OneMessage /\ (Behind \/ Sending)
    BY <1>2 DEF Reliable, Exchange, Refused, Accepted
  <2>2. CASE Behind
    <3> PICK a : a = Head(up)
      OBVIOUS
    <3>1. /\ down = <<>> /\ part = 0 /\ up = <<a, m_pck_send>>
          /\ LastAck(Head(up)) /\ m_pck_send.seq = sequence_inc(Head(up).seq)
      BY <2>2 DEF Behind
    <3>2. Tail(up) = <<m_pck_send>>
      BY <3>1, Datagrams
    <3> QED
      BY <1>2, <2>1, <3>1, <3>2
  <2>3. CASE Sending
    <3>1. down = <<>> /\ up = <<m_pck_send>>
      BY <2>3 DEF Sending
    <3>2. Head(up) = m_pck_send /\ Tail(up) = <<>>
      BY <3>1, Datagrams
    <3> QED
      BY <1>2, <2>1, <2>3, <3>1, <3>2
  <2> QED
    BY <2>1, <2>2, <2>3
<1> QED
  BY <1>1, <1>2

\* The last acknowledgement is expected, makes sense and releases the message.
LEMMA LastAckReliable ==
  ASSUME OnlyLosses, Typed, Reliable, up # <<>>, LastAck(Head(up)), Server
  PROVE  Reliable' /\ Releases
<1> DEFINE a == Head(up)
<1>1. /\ a.flags = {"ACK"} /\ server.expect = a.seq /\ queue # <<>>
      /\ server.sent = Parts[Head(queue)] /\ Fragments(Head(queue)) \in downloads
  BY DEF LastAck
<1>2. Head(queue) \in Downs /\ server.sent \in Nat /\ server.sent > 0
  BY <1>1, Facts
<1>3. Expects(a.seq) /\ ~Senseless(a)
  <2>1. "ACK" \in a.flags \cap {"FIRST", "POLL", "ACK"}
    BY <1>1
  <2>2. server.sent # 0
    BY <1>2
  <2> QED
    BY <1>1, <2>1, <2>2 DEF Expects, Senseless
<1>4. ServerAccept /\ ~ServerUplink(a) /\ ~ServerPoll(a)
  <2>1. ServerAccept
    BY <1>3 DEF Server, ServerRepeat, ServerReset
  <2>2. ~ServerUplink(a) /\ ~ServerPoll(a)
    BY <1>1 DEF ServerUplink, ServerPoll
  <2> QED
    BY <2>1, <2>2
<1>5. /\ ServerAck(a) /\ up' = Tail(up)
      /\ UNCHANGED <<device, setting>>
  BY <1>4 DEF ServerAccept
<1>6. Answered(a, NoAnswer, <<>>, 0) /\ queue' = Tail(queue) /\ inbox' = inbox
  BY <1>1, <1>2, <1>5 DEF ServerAck
<1>7. server'.expect = sequence_inc(a.seq) /\ down' = down \o <<>>
  BY <1>6 DEF Answered, NoAnswer
<1>8. Histories'
  <2>1. queue \in Seq(Downs)
    BY DEF Typed, TypeOK
  <2>2. \A j \in DOMAIN queue : \/ j = 1 /\ queue[j] = Head(queue)
                                \/ \E k \in DOMAIN queue' : queue'[k] = queue[j]
    <3>1. Len(Tail(queue)) = Len(queue) - 1 /\ DOMAIN queue = 1..Len(queue)
      BY <1>1, <2>1, HeadTailProperties, LenProperties
    <3>2. \A k \in 1..Len(Tail(queue)) : Tail(queue)[k] = queue[k + 1]
      BY <1>1, <2>1, HeadTailProperties
    <3>3. Tail(queue) \in Seq(Downs) /\ DOMAIN Tail(queue) = 1..Len(Tail(queue)) /\ Len(queue) \in Nat
      BY <1>1, <2>1, HeadTailProperties, LenProperties
    <3>4. Head(queue) = queue[1]
      BY <1>1, <2>1, HeadTailProperties
    <3>5. ASSUME NEW j \in DOMAIN queue, j # 1
          PROVE  j - 1 \in DOMAIN Tail(queue) /\ Tail(queue)[j - 1] = queue[j]
      BY <3>1, <3>2, <3>3, <3>5
    <3> QED
      BY <1>6, <3>4, <3>5
  <2>3. Histories /\ UNCHANGED <<result, msg, downloads, setting, inbox>>
    BY <1>5, <1>6 DEF Reliable, device
  <2>4. \A i \in DOMAIN setting.downlinks :
          \/ \E k \in DOMAIN queue' : queue'[k] = setting.downlinks[i]
          \/ Fragments(setting.downlinks[i]) \in downloads
    BY <1>1, <2>2, <2>3 DEF Histories
  <2> QED
    BY <2>3, <2>4 DEF Histories, UploadedWhole, DownloadWhole
<1>9. down = <<>> /\ down' = <<>>
  BY <1>7, AtTheCloud, Datagrams
<1>10. UNCHANGED <<pc, part, msg, buf, m_sequence, m_pck_send>>
  BY <1>5 DEF device
<1>11. ASSUME ~Waiting PROVE Reliable'
  <2>1. Tail(up) = <<>> /\ m_sequence = sequence_inc(a.seq)
    <3>1. Sending /\ Waiting => FALSE
      BY <1>11
    <3> QED
      BY <1>11, AtTheCloud
  <2>2. Resting'
    BY <1>5, <1>7, <1>9, <1>10, <2>1 DEF Resting, Unseen
  <2> QED
    BY <1>8, <1>10, <1>11, <2>2 DEF Reliable, Exchange, Waiting
<1>12. ASSUME Waiting PROVE Reliable'
  <2>1. OneMessage /\ part = 0 /\ Tail(up) = <<m_pck_send>> /\ m_pck_send.seq = sequence_inc(a.seq)
    <3>1. CASE Sending /\ Head(up) = m_pck_send
      <4>1. OneMessage /\ server.expect # sequence_inc(sequence_inc(m_pck_send.seq))
        <5>1. OneMessage
          BY <1>12 DEF Reliable, Exchange
        <5> QED
          BY <1>1, <3>1, <5>1, Counting DEF OneMessage, Typed
      <4>2. Known
        BY <1>1, <3>1, <4>1 DEF Sending, Took
      <4>3. pc # "uplink"
        <5>1. "ACK" \notin Ends(part + 1, Parts[msg])
          BY DEF Ends
        <5> QED
          BY <1>1, <3>1, <4>1, <5>1 DEF OneMessage, UplinkPacket
      <4>4. pc = "downlink" /\ part > 0
        <5>1. "ACK" \notin PollPacket(m_pck_send.seq).flags
          BY DEF PollPacket
        <5>2. part # 0
          BY <1>1, <1>12, <3>1, <4>1, <4>3, <5>1 DEF OneMessage, Waiting
        <5> QED
          BY <1>12, <4>3, <5>2, Facts DEF Waiting
      <4> QED
        BY <1>1, <1>2, <4>1, <4>2, <4>4 DEF Known, OneMessage
    <3> QED
      BY <1>12, <3>1, AtTheCloud
  <2>2. OneMessage'
    BY <1>5, <1>10, <2>1 DEF OneMessage, Numbers, SeqMod, sequence_inc, UplinkPacket, PollPacket
  <2>3. Sending'
    BY <1>5, <1>7, <1>9, <1>10, <2>1 DEF Sending, Unseen, Known
  <2> QED
    BY <1>8, <1>10, <1>12, <2>2, <2>3 DEF Reliable, Exchange, Waiting
<1>13. Releases
  BY <1>1, <1>6 DEF Releases
<1> QED
  BY <1>11, <1>12, <1>13

\* A packet that has the number the cloud expects continues what the cloud knows.
LEMMA PacketContinues ==
  ASSUME OnlyLosses, Typed, Waiting, OneMessage, Sending, Expects(m_pck_send.seq)
  PROVE  Known /\ ~Senseless(m_pck_send)
<1>1. part \in Nat
  BY Facts
<1>2. Known
  <2>1. CASE m_pck_send.seq = 0
    BY <2>1 DEF Known, OneMessage
  <2>2. CASE m_pck_send.seq = server.expect
    <3>1. server.expect # sequence_inc(sequence_inc(m_pck_send.seq))
      BY <2>2, Counting DEF OneMessage, Typed
    <3> QED
      BY <2>2, <3>1 DEF Sending, Took
  <2> QED
    BY <2>1, <2>2 DEF Expects
<1>3. CASE pc = "uplink"
  <2>1. m_pck_send.flags = Ends(part + 1, Parts[msg])
    BY <1>3 DEF OneMessage, UplinkPacket
  <2>2. "ACK" \notin m_pck_send.flags /\ (part = 0 => "FIRST" \in m_pck_send.flags)
    BY <2>1 DEF Ends
  <2>3. part > 0 => server.partial # <<>>
    BY <1>1, <1>2, <1>3, NextFragment DEF Known
  <2>4. part = 0 => m_pck_send.flags \cap {"FIRST", "POLL", "ACK"} # {}
    BY <2>2
  <2>5. part = 0 \/ part > 0
    BY <1>1
  <2> QED
    BY <1>2, <2>2, <2>3, <2>4, <2>5 DEF Senseless
<1>4. CASE pc = "downlink" /\ part = 0
  <2>1. m_pck_send.flags = {"POLL"}
    BY <1>4 DEF OneMessage, PollPacket
  <2> QED
    BY <1>2, <2>1 DEF Senseless
<1>5. CASE pc = "downlink" /\ part # 0
  <2>1. m_pck_send.flags = {"ACK"} /\ queue # <<>> /\ server.sent = part
    BY <1>1, <1>2, <1>5 DEF OneMessage, AckPacket, Known
  <2> QED
    BY <1>2, <1>5, <2>1 DEF Senseless
<1> QED
  BY <1>3, <1>4, <1>5 DEF Waiting

\* The cloud accepts it.
LEMMA AcceptReliable ==
  ASSUME OnlyLosses, Typed, Reliable, Waiting, Sending, Head(up) = m_pck_send, Tail(up) = <<>>,
         ServerAccept
  PROVE  Reliable' /\ (Arrives \/ UNCHANGED <<inbox, queue>>)
<1> DEFINE p == m_pck_send
           s == m_pck_send.seq
<1>1. /\ part \in Nat /\ Exchange /\ Histories /\ OneMessage /\ down = <<>>
  BY Facts DEF Reliable, Exchange, Sending
<1>2. /\ Expects(s) /\ up' = <<>> /\ UNCHANGED <<device, setting>>
      /\ ServerUplink(p) \/ ServerPoll(p) \/ ServerAck(p)
  BY DEF ServerAccept
<1>3. Known
  BY <1>1, <1>2, PacketContinues
<1>4. UNCHANGED <<m_sequence, m_pck_send, pc, msg, part, buf, result, downloads>>
  BY <1>2 DEF device
<1>5. m_sequence = sequence_inc(s) /\ s \in Numbers
  BY <1>1 DEF OneMessage
<1>6. ASSUME OneMessage', Took', down' = server.answer', Histories',
             Arrives \/ UNCHANGED <<inbox, queue>>
      PROVE  Reliable' /\ (Arrives \/ UNCHANGED <<inbox, queue>>)
  BY <1>2, <1>4, <1>6 DEF Reliable, Exchange, Waiting, Accepted
<1>7. ASSUME NEW answer, NEW partial, NEW sent, Answered(p, <<answer>>, partial, sent)
      PROVE  /\ server'.last = s /\ server'.expect = sequence_inc(sequence_inc(s))
             /\ server'.answer = <<answer>> /\ server'.partial = partial
             /\ server'.sent = sent /\ down' = server'.answer
  <2>1. <<answer>> # <<>> /\ <<>> \o <<answer>> = <<answer>>
    BY Datagrams
  <2> QED
    BY <1>1, <1>7, <2>1 DEF Answered, NoAnswer
<1>8. CASE pc = "uplink"
  <2>1. /\ msg \in Messages /\ Parts[msg] \in Nat /\ part < Parts[msg]
    BY <1>8, Facts DEF Typed
  <2>2. p.flags = Ends(part + 1, Parts[msg]) /\ p.data = <<<<msg, part + 1>>>>
    BY <1>1, <1>8 DEF OneMessage, UplinkPacket
  <2>3. /\ "POLL" \notin p.flags /\ "ACK" \notin p.flags
        /\ "FIRST" \in p.flags <=> part = 0
        /\ "LAST" \in p.flags <=> LastFragment
    BY <1>1, <2>1, <2>2 DEF Ends, LastFragment
  <2>4. ServerUplink(p)
    BY <1>2, <2>3 DEF ServerPoll, ServerAck
  <2> DEFINE whole == (IF "FIRST" \in p.flags THEN <<>> ELSE server.partial) \o p.data
             flags == {"ACK"} \cup (IF queue # <<>> THEN {"POLL"} ELSE {})
             answer == [seq |-> sequence_inc(s), flags |-> flags, data |-> <<>>]
  <2>5. whole = Prefix(msg, part + 1)
    <3>1. CASE part = 0
      <4>1. whole = <<>> \o <<<<msg, part + 1>>>>
        BY <2>2, <2>3, <3>1
      <4> QED
        BY <1>1, <3>1, <4>1, NextFragment
    <3>2. CASE part > 0
      <4>1. server.partial = Prefix(msg, part)
        BY <1>3, <1>8, <3>2 DEF Known
      <4>2. "FIRST" \notin p.flags
        BY <1>1, <2>3, <3>2
      <4>3. whole = Prefix(msg, part) \o <<<<msg, part + 1>>>>
        BY <2>2, <4>1, <4>2, Zenon
      <4> QED
        BY <1>1, <4>3, NextFragment
    <3>3. part = 0 \/ part > 0
      BY <1>1
    <3> HIDE DEF whole
    <3> QED
      BY <3>1, <3>2, <3>3
  <2>6. /\ Answered(p, <<answer>>, IF "LAST" \in p.flags THEN <<>> ELSE whole, 0)
        /\ inbox' = IF "LAST" \in p.flags THEN inbox \cup {whole} ELSE inbox
        /\ queue' = queue
    BY <2>4 DEF ServerUplink
  <2>7. flags \in SUBSET {"ACK", "POLL"}
    OBVIOUS
  <2> HIDE DEF whole, flags
  <2>8. /\ server'.last = s /\ server'.expect = sequence_inc(sequence_inc(s))
        /\ server'.answer = <<[seq |-> m_sequence, flags |-> flags, data |-> <<>>]>>
        /\ server'.partial = (IF "LAST" \in p.flags THEN <<>> ELSE whole)
        /\ down' = server'.answer
    BY <1>5, <1>7, <2>6
  <2>9. LastFragment => whole = Fragments(msg)
    BY <1>1, <2>1, <2>5 DEF LastFragment, Prefix, Fragments
  <2>10. OneMessage'
    BY <1>1, <1>2, <1>4, <1>8 DEF OneMessage, Numbers, SeqMod, sequence_inc, UplinkPacket
  <2>11. Took'
    <3>1. server'.expect = sequence_inc(sequence_inc(m_pck_send.seq))'
      BY <1>2, <1>4, <2>8 DEF sequence_inc, SeqMod
    <3>2. \E f \in SUBSET {"ACK", "POLL"} :
            server'.answer = <<[seq |-> m_sequence', flags |-> f, data |-> <<>>]>>
      BY <1>4, <2>7, <2>8
    <3>3. IF LastFragment THEN Fragments(msg) \in inbox'
          ELSE server'.partial = Prefix(msg, part + 1)
      BY <2>3, <2>5, <2>6, <2>8, <2>9
    <3>4. LastFragment' = LastFragment
      BY <1>4 DEF LastFragment
    <3>5. IF LastFragment' THEN Fragments(msg') \in inbox'
          ELSE server'.partial = Prefix(msg', part' + 1)
      BY <1>4, <3>3, <3>4
    <3> QED
      BY <1>4, <1>8, <2>8, <3>1, <3>2, <3>5 DEF Took, Fragments, Prefix
  <2>12. Histories'
    <3>1. UploadedWhole' /\ inbox \subseteq inbox'
      BY <1>1, <2>1, <2>3, <2>6, <2>9 DEF Histories, UploadedWhole
    <3> QED
      BY <1>1, <1>2, <1>4, <2>6, <3>1 DEF Histories, UploadedWhole, DownloadWhole
  <2>13. Arrives \/ UNCHANGED <<inbox, queue>>
    BY <1>8, <2>3, <2>6, <2>9 DEF Arrives
  <2> QED
    BY <1>6, <2>8, <2>10, <2>11, <2>12, <2>13
<1>9. ASSUME pc = "downlink", Answered(p, <<DataAnswer(s, part + 1)>>, <<>>, part + 1),
             UNCHANGED <<inbox, queue>>
      PROVE  Reliable' /\ (Arrives \/ UNCHANGED <<inbox, queue>>)
  <2>1. /\ server'.last = s /\ server'.expect = sequence_inc(sequence_inc(s))
        /\ server'.answer = <<DataAnswer(s, part + 1)>> /\ server'.sent = part + 1
        /\ down' = server'.answer
    BY <1>7, <1>9
  <2>2. OneMessage'
    BY <1>1, <1>2, <1>4, <1>9
    DEF OneMessage, Numbers, SeqMod, sequence_inc, PollPacket, AckPacket, Prefix
  <2>3. Took'
    <3>1. server'.expect = sequence_inc(sequence_inc(m_pck_send.seq))'
      BY <1>2, <1>4, <2>1 DEF sequence_inc, SeqMod
    <3>2. DataAnswer(s, part + 1) = DataAnswer(m_pck_send.seq, part + 1)'
      BY <1>2, <1>4, <1>9 DEF DataAnswer, sequence_inc, SeqMod
    <3> QED
      BY <1>4, <1>9, <2>1, <3>1, <3>2 DEF Took
  <2>4. Histories'
    BY <1>1, <1>2, <1>4, <1>9, HistoriesKept DEF Histories
  <2> QED
    BY <1>6, <1>9, <2>1, <2>2, <2>3, <2>4
<1>10. CASE pc = "downlink" /\ part = 0
  <2>1. p.flags = {"POLL"}
    BY <1>1, <1>10 DEF OneMessage, PollPacket
  <2>2. ServerPoll(p)
    BY <1>2, <2>1 DEF ServerUplink, ServerAck
  <2>3. part + 1 = 1
    BY <1>10
  <2> QED
    BY <1>9, <1>10, <2>2, <2>3 DEF ServerPoll
<1>11. CASE pc = "downlink" /\ part > 0
  <2>1. /\ p.flags = {"ACK"} /\ queue # <<>> /\ part < Parts[Head(queue)]
        /\ server.sent = part
    BY <1>1, <1>3, <1>11 DEF OneMessage, AckPacket, Known
  <2>2. ServerAck(p)
    BY <1>2, <2>1 DEF ServerUplink, ServerPoll
  <2> QED
    BY <1>9, <1>11, <2>1, <2>2 DEF ServerAck
<1> QED
  BY <1>1, <1>8, <1>10, <1>11 DEF Waiting

LEMMA ServerReliable ==
  ASSUME OnlyLosses, Typed, Reliable, Server
  PROVE  Reliable' /\ (Arrives \/ Releases \/ UNCHANGED <<inbox, queue>>)
<1> DEFINE s == m_pck_send.seq
<1>1. up # <<>> /\ Exchange /\ Histories
  BY DEF Server, ServerAccept, ServerRepeat, ServerReset, Reliable
<1>2. CASE LastAck(Head(up))
  BY <1>1, <1>2, LastAckReliable
<1>3. CASE ~LastAck(Head(up))
  <2>1. /\ Waiting /\ OneMessage /\ Sending /\ Head(up) = m_pck_send /\ Tail(up) = <<>>
        /\ down = <<>> /\ s \in Numbers
    BY <1>1, <1>3, AtTheCloud DEF OneMessage
  <2>2. CASE ServerAccept
    BY <2>1, <2>2, AcceptReliable
  <2>3. CASE ServerRepeat
    <3>1. /\ up' = <<>> /\ down' = down \o server.answer /\ ~Expects(s) /\ s = server.last
          /\ UNCHANGED <<device, setting, server, inbox, queue>>
      BY <2>1, <2>3 DEF ServerRepeat, cloud
    <3>2. UNCHANGED <<m_sequence, m_pck_send, pc, msg, part, buf, result, downloads>>
      BY <3>1 DEF device
    <3>3. Took
      BY <2>1, <3>1 DEF Sending, Unseen, Expects
    <3>4. down' = server.answer
      <4>1. \E a : server.answer = <<a>>
        BY <2>1, <3>3 DEF Took, Waiting
      <4> QED
        BY <2>1, <3>1, <4>1, Datagrams
    <3>5. OneMessage'
      BY <2>1, <3>1, <3>2
      DEF OneMessage, Numbers, SeqMod, sequence_inc, UplinkPacket, PollPacket, AckPacket, Prefix
    <3>6. Took'
      BY <3>1, <3>2, <3>3 DEF Took, LastFragment, DataAnswer, sequence_inc, SeqMod
    <3>7. Histories'
      BY <1>1, <3>1, <3>2, HistoriesKept DEF Histories
    <3> QED
      BY <2>1, <3>1, <3>2, <3>4, <3>5, <3>6, <3>7 DEF Reliable, Exchange, Waiting, Accepted
  <2>4. CASE ServerReset
    <3>1. /\ up' = <<>> /\ server' = Forgotten /\ down' = Append(down, ResetRequest)
          /\ UNCHANGED <<device, setting, inbox, queue>>
      BY <2>1, <2>4 DEF ServerReset
    <3>2. UNCHANGED <<m_sequence, m_pck_send, pc, msg, part, buf, result, downloads>>
      BY <3>1 DEF device
    <3>3. s # 0
      BY <2>1, <2>4, PacketContinues DEF ServerReset, Expects
    <3>4. down' = <<ResetRequest>>
      BY <2>1, <3>1, Datagrams
    <3>5. OneMessage'
      BY <2>1, <3>1, <3>2
      DEF OneMessage, Numbers, SeqMod, sequence_inc, UplinkPacket, PollPacket, AckPacket, Prefix
    <3>6. Refused'
      BY <3>1, <3>2, <3>3, <3>4 DEF Refused, Forgotten, ResetRequest
    <3>7. Histories'
      BY <1>1, <3>1, <3>2, HistoriesKept DEF Histories
    <3> QED
      BY <2>1, <3>1, <3>2, <3>5, <3>6, <3>7 DEF Reliable, Exchange, Waiting
  <2> QED
    BY <2>2, <2>3, <2>4 DEF Server
<1> QED
  BY <1>2, <1>3

\* Between two exchanges, and the fault that the link has.
LEMMA LinkReliable ==
  ASSUME OnlyLosses, Typed, Reliable, DownlinkDone \/ Retransmit \/ Environment
  PROVE  Reliable'
<1>1. Exchange /\ Histories
  BY DEF Reliable
<1>2. CASE DownlinkDone
  <2>1. /\ ~Waiting /\ pc' = "idle" /\ result' = "downlink_ok"
        /\ UNCHANGED <<m_sequence, m_pck_send, msg, downloads, up, down, setting, server, inbox, queue>>
    BY <1>2 DEF DownlinkDone, cloud, Waiting
  <2>2. Resting'
    BY <1>1, <2>1 DEF Exchange, Resting, Unseen, LastAck, Numbers, SeqMod, sequence_inc
  <2>3. Histories'
    BY <1>1, <2>1, HistoriesKept
  <2> QED
    BY <2>1, <2>2, <2>3 DEF Reliable, Exchange, Waiting
<1>3. ASSUME Waiting, UNCHANGED <<device, setting, cloud>>, (Sending \/ Accepted)'
      PROVE  Reliable'
  <2>1. UNCHANGED <<m_sequence, m_pck_send, pc, msg, part, buf, result, downloads>>
    BY <1>3 DEF device
  <2>2. UNCHANGED <<setting, server, inbox, queue>>
    BY <1>3 DEF cloud
  <2>3. OneMessage
    BY <1>1, <1>3 DEF Exchange
  <2>4. OneMessage'
    BY <2>1, <2>2, <2>3
    DEF OneMessage, Numbers, SeqMod, sequence_inc, UplinkPacket, PollPacket, AckPacket, Prefix
  <2>5. Histories'
    BY <1>1, <2>1, <2>2, HistoriesKept DEF Histories
  <2> QED
    BY <1>3, <2>1, <2>4, <2>5 DEF Reliable, Exchange, Waiting
<1>4. ASSUME Sending, UNCHANGED <<device, setting, cloud>>, down' = <<>>, up' \in {<<>>, <<m_pck_send>>}
      PROVE  Sending'
  <2>1. UNCHANGED <<m_sequence, m_pck_send, pc, msg, part>>
    BY <1>4 DEF device
  <2>2. UNCHANGED <<server, inbox, queue>>
    BY <1>4 DEF cloud
  <2>3. CASE Took
    <3>1. Took'
      BY <1>4, <2>1, <2>2, <2>3 DEF Took, LastFragment, DataAnswer, sequence_inc, SeqMod
    <3> QED
      BY <1>4, <2>1, <3>1 DEF Sending
  <2>4. CASE Unseen(m_pck_send.seq) /\ (server.expect = m_pck_send.seq => Known)
    BY <1>4, <2>1, <2>2, <2>4 DEF Sending, Unseen, Known, Prefix
  <2> QED
    BY <1>4, <2>3, <2>4 DEF Sending
<1>5. CASE Retransmit
  <2>1. /\ Waiting /\ up = <<>> /\ down = <<>> /\ up' = <<m_pck_send>> /\ down' = <<>>
        /\ UNCHANGED <<device, setting, cloud>>
    BY <1>5 DEF Retransmit
  <2>2. Sending
    <3>1. ~Behind /\ ~Refused
      BY <2>1, Datagrams DEF Behind, Refused
    <3>2. ~Accepted
      <4>1. Took => \E a : server.answer = <<a>>
        BY <2>1 DEF Took, Waiting
      <4> QED
        BY <2>1, <4>1, Datagrams DEF Accepted
    <3> QED
      BY <1>1, <2>1, <3>1, <3>2 DEF Exchange
  <2> QED
    BY <1>3, <1>4, <2>1, <2>2
<1>6. ~Timeout /\ ~Duplicate /\ ~ServerForget
  <2>1. \A kind : Fault(kind) => kind \in {"bad", "reboot", "lose_up", "lose_down"}
    BY Facts
  <2>2. ~Fault("timeout") /\ ~Fault("duplicate") /\ ~Fault("forget")
    BY <2>1
  <2> QED
    BY <2>2 DEF Timeout, Duplicate, ServerForget
<1>7. CASE BadAnswer
  <2>1. /\ Waiting /\ down # <<>> /\ down' = Tail(down)
        /\ \E event \in {"uplink_error", "downlink_error"} : Fail(event)
        /\ UNCHANGED <<setting, server, inbox, queue>>
    BY <1>7 DEF BadAnswer, Fault, cloud
  <2>2. /\ m_sequence' = 0 /\ pc' = "idle" /\ result' # "uplink_ok"
        /\ UNCHANGED <<msg, downloads, up>>
    BY <2>1 DEF Fail
  <2>3. up' = <<>> /\ down' = <<>>
    BY <1>1, <2>1, <2>2, AnswerTaken
  <2>4. Resting'
    BY <2>2, <2>3 DEF Resting, Unseen
  <2>5. Histories'
    BY <1>1, <2>1, <2>2, HistoriesKept
  <2> QED
    BY <2>2, <2>4, <2>5 DEF Reliable, Exchange, Waiting
<1>8. CASE Reboot
  <2>1. /\ m_sequence' = 0 /\ pc' = "idle" /\ result' = "none" /\ up' = <<>> /\ down' = <<>>
        /\ UNCHANGED <<setting, downloads, server, inbox, queue>>
    BY <1>8 DEF Reboot, Fault, cloud
  <2>2. Resting'
    BY <2>1 DEF Resting, Unseen
  <2>3. Histories'
    BY <1>1, <2>1, HistoriesKept
  <2> QED
    BY <2>1, <2>2, <2>3 DEF Reliable, Exchange, Waiting
<1>9. CASE LoseUp
  <2>1. up # <<>> /\ up' = Tail(up) /\ down' = down /\ UNCHANGED <<device, setting, cloud>>
    BY <1>9 DEF LoseUp, Fault
  <2>2. UNCHANGED <<m_sequence, m_pck_send, pc, msg, part, buf, result, downloads>>
    BY <2>1 DEF device
  <2>3. UNCHANGED <<server, inbox, queue>>
    BY <2>1 DEF cloud
  <2>4. ASSUME LastAck(Head(up))
        PROVE  Unseen(sequence_inc(Head(up).seq))
    <3>1. server.last \in Numbers
      BY Facts
    <3> QED
      BY <2>4, <3>1, Counting DEF LastAck, Unseen, Typed
  <2>5. down = <<>> /\ down' = <<>>
    BY <2>1, AtTheCloud
  <2>6. CASE ~Waiting
    <3>1. LastAck(Head(up)) /\ Tail(up) = <<>> /\ m_sequence = sequence_inc(Head(up).seq)
      BY <2>1, <2>6, AtTheCloud
    <3>2. Unseen(m_sequence)
      BY <2>4, <3>1
    <3>3. Resting'
      BY <2>1, <2>2, <2>3, <2>5, <3>1, <3>2 DEF Resting, Unseen
    <3>4. Histories'
      BY <1>1, <2>1, <2>2, <2>3, HistoriesKept DEF Histories
    <3> QED
      BY <2>2, <2>6, <3>3, <3>4 DEF Reliable, Exchange, Waiting
  <2>7. CASE Waiting /\ Sending /\ Tail(up) = <<>>
    BY <1>3, <1>4, <2>1, <2>5, <2>7
  <2>8. CASE /\ Waiting /\ LastAck(Head(up)) /\ part = 0 /\ Tail(up) = <<m_pck_send>>
             /\ m_pck_send.seq = sequence_inc(Head(up).seq)
    <3>1. Unseen(m_pck_send.seq)
      BY <2>4, <2>8
    <3>2. Sending'
      BY <2>1, <2>2, <2>3, <2>5, <2>8, <3>1 DEF Sending, Unseen, Known
    <3> QED
      BY <1>3, <2>1, <2>8, <3>2
  <2> QED
    BY <2>1, <2>6, <2>7, <2>8, AtTheCloud
<1>10. CASE LoseDown
  <2>1. down # <<>> /\ down' = Tail(down) /\ up' = up /\ UNCHANGED <<device, setting, cloud>>
    BY <1>10 DEF LoseDown, Fault
  <2>2. Waiting
    BY <1>1, <2>1 DEF Exchange, Resting
  <2>3. up' = <<>> /\ down' = <<>> /\ (Refused \/ Accepted)
    BY <1>1, <2>1, <2>2, AnswerTaken
  <2>4. UNCHANGED <<m_sequence, m_pck_send, pc, msg, part, server, inbox, queue>>
    BY <2>1 DEF device, cloud
  <2>5. CASE Refused
    <3>1. /\ server.expect = 0 /\ server.last = 0 /\ m_pck_send.seq # 0
      BY <2>5 DEF Refused, Forgotten
    <3>2. Sending'
      BY <2>3, <2>4, <3>1 DEF Sending, Unseen
    <3> QED
      BY <1>3, <2>1, <2>2, <3>2
  <2>6. CASE Accepted
    <3>1. Took'
      BY <2>1, <2>4, <2>6 DEF Accepted, Took, LastFragment, DataAnswer, sequence_inc, SeqMod
    <3>2. Sending'
      BY <2>3, <3>1 DEF Sending
    <3> QED
      BY <1>3, <2>1, <2>2, <3>2
  <2> QED
    BY <2>3, <2>5, <2>6
<1> QED
  BY <1>2, <1>5, <1>6, <1>7, <1>8, <1>9, <1>10 DEF Environment

LEMMA ReliableInit == OnlyLosses /\ Init => Reliable
<1> SUFFICES ASSUME OnlyLosses, Init PROVE Reliable
  OBVIOUS
<1>1. /\ pc = "idle" /\ result = "none" /\ up = <<>> /\ down = <<>> /\ m_sequence = 0
      /\ inbox = {} /\ downloads = {} /\ queue = setting.downlinks
  BY DEF Init
<1>2. Exchange
  BY <1>1 DEF Exchange, Waiting, Resting, Unseen
<1>3. Histories
  BY <1>1 DEF Histories, UploadedWhole, DownloadWhole
<1> QED
  BY <1>2, <1>3 DEF Reliable

LEMMA ReliableStep == OnlyLosses /\ Typed /\ Reliable /\ [Next]_vars => Reliable'
<1> SUFFICES ASSUME OnlyLosses, Typed, Reliable, [Next]_vars PROVE Reliable'
  OBVIOUS
<1>1. CASE UNCHANGED vars
  <2>1. UNCHANGED <<m_sequence, m_pck_send, pc, msg, part, buf, result, downloads, up, down,
                    server, inbox, queue, setting>>
    BY <1>1 DEF vars, device, cloud
  <2>3. Resting => Resting'
    BY <2>1 DEF Resting, Unseen, LastAck, Numbers, sequence_inc, SeqMod
  <2>4. OneMessage => OneMessage'
    BY <2>1 DEF OneMessage, UplinkPacket, PollPacket, AckPacket, Prefix, Numbers, sequence_inc, SeqMod
  <2>5. Behind => Behind'
    BY <2>1 DEF Behind, LastAck, Numbers, sequence_inc, SeqMod
  <2>6. Took => Took'
    BY <2>1 DEF Took, LastFragment, DataAnswer, sequence_inc, SeqMod
  <2>7. (Sending => Sending') /\ (Accepted => Accepted') /\ (Refused => Refused')
    BY <2>1, <2>6 DEF Sending, Refused, Accepted, Unseen, Known, Prefix
  <2>8. Histories'
    BY <2>1, HistoriesKept DEF Reliable, Histories
  <2> QED
    BY <2>1, <2>3, <2>4, <2>5, <2>7, <2>8 DEF Reliable, Exchange, Waiting
<1>2. CASE Next
  BY <1>2, CallReliable, UplinkReliable, DownlinkReliable, ServerReliable, LinkReliable
     DEF Next, Device
<1> QED
  BY <1>1, <1>2

\* In every behaviour, whichever of the settings it has.
ReliableWhereLossy == OnlyLosses => Reliable

LEMMA AlwaysReliable == Spec => []ReliableWhereLossy
<1>1. Init => ReliableWhereLossy
  BY ReliableInit DEF ReliableWhereLossy
<1>2. Typed /\ ReliableWhereLossy /\ [Next]_vars => ReliableWhereLossy'
  BY ReliableStep, SettingKept DEF ReliableWhereLossy, OnlyLosses, Faults
<1> QED
  BY <1>1, <1>2, TypedInit, TypedStep, PTL DEF Spec

\* On such a link a 0 from ctr_cloud_transfer_uplink() means that the cloud has the message.
THEOREM SuccessIsDelivery == Spec => []UplinkAcked
<1>1. ReliableWhereLossy => UplinkAcked
  BY DEF ReliableWhereLossy, Reliable, Histories, UplinkAcked, SuccessMeansDelivered
<1> QED
  BY <1>1, AlwaysReliable, PTL

\* On such a link, however often the device reboots in the middle of a message, the cloud
\* assembles only whole messages of the device.
THEOREM UploadsWhole == Spec => []InboxWhole
<1>1. ReliableWhereLossy => InboxWhole
  BY DEF ReliableWhereLossy, Reliable, Histories, UploadedWhole, InboxWhole
<1> QED
  BY <1>1, AlwaysReliable, PTL

\* On such a link ctr_cloud_transfer_downlink() puts together only whole messages of the
\* cloud.
THEOREM DownloadsWhole == Spec => [](OnlyLosses => DownloadWhole)
<1>1. ReliableWhereLossy => (OnlyLosses => DownloadWhole)
  BY DEF ReliableWhereLossy, Reliable, Histories
<1> QED
  BY <1>1, AlwaysReliable, PTL

\* On such a link the cloud keeps a message until the device has all of it, though nothing
\* answers the last acknowledgement and a new call or a reboot may follow it.
THEOREM KeptUntilDownloaded == Spec => [](OnlyLosses => ReleasedAfterDownload)
<1>1. ReliableWhereLossy => (OnlyLosses => ReleasedAfterDownload)
  BY DEF ReliableWhereLossy, Reliable, Histories, ReleasedAfterDownload
<1> QED
  BY <1>1, AlwaysReliable, PTL

-----------------------------------------------------------------------------
(* The promise.  Each action of the code is an action of TransferPromise or a stutter. *)

LEMMA PromiseInit == Init => Promise!Init
<1> SUFFICES ASSUME Init PROVE Promise!Init
  OBVIOUS
<1>1. queue \in Seq(Downs)
  BY TypedInit DEF Typed, TypeOK
<1> QED
  BY <1>1 DEF Init, Promise!Init, Promise!Idle

LEMMA PromiseStep ==
  ASSUME OnlyLosses, Typed, Reliable, [Next]_vars
  PROVE  Promise!Next \/ UNCHANGED Promise!vars
<1> DEFINE Same == UNCHANGED <<inbox, queue>>
<1>1. \A m \in Messages \cup Downs : [n \in Messages \cup Downs |-> Fragments(n)][m] = Fragments(m)
  OBVIOUS
<1>2. ASSUME UNCHANGED <<pc, msg, result, downloads, inbox, queue>>
      PROVE  UNCHANGED Promise!vars
  BY <1>2 DEF Promise!vars
<1>3. CASE UNCHANGED vars
  BY <1>2, <1>3 DEF vars, device, cloud
<1>4. ASSUME NEW m \in Messages, Uplink(m) PROVE Promise!Upload
  BY <1>4 DEF Uplink, Call, cloud, Promise!Upload, Promise!Idle
<1>5. CASE Downlink
  <2>1. Promise!Download
    BY <1>5 DEF Downlink, Call, cloud, Promise!Download, Promise!Idle
  <2> QED
    BY <2>1 DEF Promise!Next
<1>6. ASSUME pc' = "idle", result' \notin {"uplink_ok", "downlink_ok", "poll"},
             UNCHANGED <<downloads, inbox, queue>>
      PROVE  Promise!Fail
  BY <1>6 DEF Promise!Fail, Promise!Idle
<1>7. CASE UplinkBadFlags
  BY <1>6, <1>7 DEF UplinkBadFlags, UplinkAnswer, Fail, cloud, Promise!Next
<1>8. CASE UplinkRestart \/ UplinkRepeat
  BY <1>2, <1>8 DEF UplinkRestart, UplinkRepeat, UplinkAnswer, cloud
<1>9. CASE UplinkAccept
  <2>1. /\ pc = "uplink" /\ msg \in Messages /\ msg' = msg
        /\ UNCHANGED <<downloads, inbox, queue>>
    BY <1>9 DEF UplinkAccept, UplinkAnswer, cloud, Typed
  <2>2. CASE ~LastFragment
    BY <1>2, <1>9, <2>1, <2>2 DEF UplinkAccept
  <2>3. CASE LastFragment
    <3>1. pc' = "idle" /\ result' = "uplink_ok"
      BY <1>9, <2>3 DEF UplinkAccept
    <3>2. Fragments(msg) \in inbox
      <4>1. Histories'
        BY <1>9, UplinkReliable DEF Reliable
      <4>2. result' = "uplink_ok" => Fragments(msg') \in inbox'
        BY <4>1 DEF Histories, Fragments
      <4> QED
        BY <2>1, <3>1, <4>2 DEF Fragments
    <3>3. Promise!Uploaded
      BY <1>1, <2>1, <3>1, <3>2 DEF Promise!Uploaded, Promise!Idle
    <3> QED
      BY <3>3 DEF Promise!Next
  <2> QED
    BY <2>2, <2>3
<1>10. CASE DownlinkRestart \/ DownlinkRepeat
  BY <1>2, <1>10 DEF DownlinkRestart, DownlinkRepeat, DownlinkAnswer, cloud
<1>11. CASE DownlinkRefuse
  BY <1>6, <1>11 DEF DownlinkRefuse, DownlinkExpected, DownlinkAnswer, cloud, Promise!Next
<1>12. CASE DownlinkAccept
  <2>1. pc = "downlink" /\ msg' = msg /\ UNCHANGED <<inbox, queue>>
    BY <1>12 DEF DownlinkAccept, DownlinkExpected, DownlinkAnswer, cloud
  <2>2. Obtains
    <3>1. ~DownlinkRestart /\ ~DownlinkRefuse
      BY <1>12 DEF DownlinkAccept, DownlinkExpected, DownlinkRestart, DownlinkRefuse
    <3> QED
      BY <1>12, <3>1, DownlinkReliable
  <2> QED
    BY <1>1, <1>2, <2>1, <2>2 DEF Obtains, Promise!Next, Promise!NothingWaits, Promise!Obtain, Promise!Idle
<1>13. CASE DownlinkDone
  <2>1. Promise!Downloaded
    BY <1>13 DEF DownlinkDone, cloud, Promise!Downloaded, Promise!Idle
  <2> QED
    BY <2>1 DEF Promise!Next
<1>14. CASE Retransmit \/ LoseUp \/ LoseDown \/ Duplicate
  BY <1>2, <1>14 DEF Retransmit, LoseUp, LoseDown, Duplicate, device, cloud
<1>15. CASE Timeout \/ BadAnswer
  BY <1>6, <1>15 DEF Timeout, BadAnswer, Fail, cloud, Promise!Next
<1>16. CASE Reboot
  BY <1>6, <1>16 DEF Reboot, cloud, Promise!Next
<1>17. CASE ServerForget
  BY <1>2, <1>17 DEF ServerForget, device
<1>18. CASE Server
  <2>1. UNCHANGED <<pc, msg, result, downloads>>
    BY <1>18 DEF Server, ServerAccept, ServerRepeat, ServerReset, device
  <2>2. Arrives \/ Releases \/ Same
    BY <1>18, ServerReliable
  <2>3. CASE Arrives
    <3>1. pc = "uplink" /\ msg \in Messages
      BY <2>3 DEF Arrives, Typed
    <3>2. Promise!Arrive
      BY <1>1, <2>1, <2>3, <3>1 DEF Arrives, Promise!Arrive
    <3> QED
      BY <3>2 DEF Promise!Next
  <2>4. CASE Releases
    <3>1. Head(queue) \in Downs
      BY <2>4, Facts DEF Releases
    <3>2. Promise!Release
      BY <1>1, <2>1, <2>4, <3>1 DEF Releases, Promise!Release
    <3> QED
      BY <3>2 DEF Promise!Next
  <2> QED
    BY <1>2, <2>1, <2>2, <2>3, <2>4
<1> QED
  BY <1>3, <1>4, <1>5, <1>7, <1>8, <1>9, <1>10, <1>11, <1>12, <1>13, <1>14, <1>15, <1>16, <1>17, <1>18
  DEF Next, Device, Environment, Promise!Next

\* On a link that only loses datagrams the two functions implement TransferPromise, for every
\* set and length of messages, wherever the device reboots and whatever is lost.
THEOREM PromiseImplemented == Spec => TransferPromised
<1>1. Typed /\ ReliableWhereLossy /\ [Next]_vars => [OnlyLosses => Promise!Next]_(Promise!vars)
  BY PromiseStep DEF ReliableWhereLossy
<1>2. Spec => [](Typed /\ ReliableWhereLossy)
  BY AlwaysReliable, TypedInit, TypedStep, PTL DEF Spec
<1> QED
  BY <1>1, <1>2, PromiseInit, PTL DEF Spec, TransferPromised
=============================================================================
