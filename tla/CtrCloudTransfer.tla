-------------------------- MODULE CtrCloudTransfer --------------------------
(***************************************************************************)
(* The fragmenting stop-and-wait protocol of subsys/ctr_cloud:             *)
(* ctr_cloud_transfer_uplink() and ctr_cloud_transfer_downlink(), over an  *)
(* LTE link that loses, repeats and delays datagrams.                      *)
(*                                                                         *)
(* The code between two exchanges runs without waiting, so one action is   *)
(* what the device does from one datagram to the next: it takes the answer *)
(* out of the socket, decides, and hands over the next packet.             *)
(*                                                                         *)
(* The cloud server is not part of the repository.  It is modelled from    *)
(* what the device expects of it (the branches of the two loops and the    *)
(* recorded exchanges of tests/subsys/ctr_cloud): it answers a packet with *)
(* the next sequence number, repeats its answer to a repeated packet and   *)
(* asks for a sequence reset with sequence 0.                              *)
(***************************************************************************)
EXTENDS Naturals, Sequences, FiniteSets

CONSTANTS
  Messages,  \* the messages the device may upload
  Downs,     \* the messages the cloud may deliver
  Parts,     \* Parts[m]: number of fragments of message m, up or down
  Settings   \* the sizes, the environment and the bounds: see Setting

FaultKinds == {"timeout", "bad", "reboot", "lose_up", "lose_down", "duplicate", "forget"}

\* seqmod: sequence numbers are 0..seqmod-1 (4096 in the code, and more than 4 are needed:
\* an exchange and the acknowledgement before it use four); downlinks: the messages
\* that wait in the cloud; bufparts: the fragments the download buffer has room for;
\* faults: the kinds of faults the environment has.  The bounds: maxfaults, and calls of
\* the two functions.
Setting == [seqmod : Nat \ (0..4), downlinks : Seq(Downs), bufparts : Nat \ {0},
            faults : SUBSET FaultKinds, maxfaults : Nat, calls : Nat]

ASSUME ConstantsAssumption ==
  /\ \A m \in Messages \cup Downs : Parts[m] \in Nat \ {0}
  /\ Settings \subseteq Setting /\ Settings # {}

VARIABLE setting  \* the one of Settings that this behaviour has, never changed

SeqMod == setting.seqmod
BufParts == setting.bufparts
Faults == setting.faults

VARIABLES
  m_sequence,           \* the number of the next packet, ours or the cloud's
  m_last_recv_sequence, \* the number of the last answer accepted
  m_pck_send,           \* the packet handed over last
  pc,                   \* where the caller's thread is
  msg,                  \* the message being uploaded
  part,                 \* index of the fragment being exchanged, from 0
  buf,                  \* the download buffer, a sequence of fragments
  has_downlink,         \* the POLL flag of the last answer
  result,               \* what the last finished call returned
  downloads,            \* history: every byte string a LAST fragment completed
  up, down,             \* datagrams under way to the cloud, to the device
  calls, faults,        \* calls and faults that are left
  server,               \* the cloud's end of the protocol
  inbox,                \* every byte string the cloud has assembled
  queue                 \* messages the cloud still has to deliver

device  == <<m_sequence, m_last_recv_sequence, m_pck_send, pc, msg, part,
             buf, has_downlink, result, downloads>>
cloud   == <<server, inbox, queue>>
vars    == <<device, up, down, calls, faults, cloud, setting>>

-----------------------------------------------------------------------------
(* Packets *)

NoMessage == "none"
Flags     == {"FIRST", "LAST", "ACK", "POLL"}
Fragments(m) == [i \in 1..Parts[m] |-> <<m, i>>]
Fragment  == UNION {{<<m, i>> : i \in 1..Parts[m]} : m \in Messages \cup Downs}
\* A datagram carries at most one fragment: data is a sequence of length <= 1.
Packet    == [seq : 0..SeqMod-1, flags : SUBSET Flags,
              data : {<<>>} \cup {<<f>> : f \in Fragment}]

sequence_inc_late(s) == IF s = SeqMod THEN 1 ELSE s + 1
sequence_inc(s) == IF s + 1 = SeqMod THEN 1 ELSE s + 1

\* The flags of fragment i of n: the first opens the message, the last ends it.
Ends(i, n) == {f \in {"FIRST", "LAST"} :
                 \/ f = "FIRST" /\ i = 1
                 \/ f = "LAST"  /\ i = n}

UplinkPacket(m, i, s) ==
  [seq |-> s, flags |-> Ends(i + 1, Parts[m]), data |-> <<<<m, i + 1>>>>]
PollPacket(s) == [seq |-> s, flags |-> {"POLL"}, data |-> <<>>]
AckPacket(s)  == [seq |-> s, flags |-> {"ACK"},  data |-> <<>>]

\* The oldest datagram in the socket of the device.
Answer == Head(down)

Waiting == pc \in {"uplink", "downlink"}

\* transfer(): the packet takes the current number and the number moves on
\* to the one the answer must have.
Hand(p) ==
  /\ m_pck_send' = p
  /\ m_sequence' = sequence_inc(p.seq)
  /\ up' = Append(up, p)

\* The exit label after an error: both numbers are reset.
Fail(event) ==
  /\ m_sequence' = 0
  /\ m_last_recv_sequence' = 0
  /\ pc' = "idle"
  /\ result' = event
  /\ UNCHANGED <<m_pck_send, msg, part, buf, downloads, up>>

-----------------------------------------------------------------------------
(* ctr_cloud_transfer_uplink *)

\* One caller at a time: every caller holds m_lock of ctr_cloud.c.
Call ==
  /\ pc = "idle"
  /\ calls > 0
  /\ calls' = calls - 1

Uplink(m) ==
  /\ Call
  /\ pc' = "uplink"
  /\ msg' = m
  /\ part' = 0
  /\ has_downlink' = FALSE
  /\ result' = "busy"
  /\ Hand(UplinkPacket(m, 0, m_sequence))
  /\ UNCHANGED <<m_last_recv_sequence, buf, downloads, down, faults, setting, cloud>>

\* The device takes the oldest datagram out of the socket while it uploads.
UplinkAnswer ==
  /\ pc = "uplink"
  /\ down # <<>>
  /\ down' = Tail(down)
  /\ has_downlink' = ("POLL" \in Answer.flags)
  /\ UNCHANGED <<calls, faults, setting, cloud>>

UplinkUnexpected == Answer.flags \cap {"FIRST", "LAST"} # {}

UplinkBadFlags ==
  /\ UplinkAnswer
  /\ UplinkUnexpected
  /\ Fail("uplink_error")

\* Sequence 0, or neither the expected nor the last accepted number, or data:
\* the whole message again from its first fragment and from sequence 0.
UplinkRestart ==
  /\ UplinkAnswer
  /\ ~UplinkUnexpected
  /\ \/ Answer.seq = 0
     \/ Answer.seq \notin {m_sequence, m_last_recv_sequence}
     \/ Answer.seq = m_sequence /\ Answer.data # <<>>
  /\ part' = 0
  /\ Hand(UplinkPacket(msg, 0, 0))
  /\ UNCHANGED <<m_last_recv_sequence, pc, msg, buf, result, downloads>>

\* A repeat of the last accepted answer: the same fragment goes out again,
\* under the number that has already moved on.
UplinkRepeat ==
  /\ UplinkAnswer
  /\ ~UplinkUnexpected
  /\ Answer.seq # 0
  /\ Answer.seq # m_sequence
  /\ Answer.seq = m_last_recv_sequence
  /\ Hand(UplinkPacket(msg, part, m_sequence))
  /\ UNCHANGED <<m_last_recv_sequence, pc, msg, part, buf, result, downloads>>

\* Whether the fragment being exchanged is the last one of the message.
LastFragmentEarly == part + 2 >= Parts[msg]
LastFragment == part + 1 >= Parts[msg]

\* The packet after an accepted one: the pointer has moved past the fragment before.
NextPacketNotAdvanced ==
  [UplinkPacket(msg, part + 1, sequence_inc(Answer.seq)) EXCEPT !.data = <<<<msg, 1>>>>]
NextPacket == UplinkPacket(msg, part + 1, sequence_inc(Answer.seq))

\* The expected answer: the next fragment, or success after the last one.
UplinkAccept ==
  /\ UplinkAnswer
  /\ ~UplinkUnexpected
  /\ Answer.seq # 0
  /\ Answer.seq = m_sequence
  /\ Answer.data = <<>>
  /\ m_last_recv_sequence' = Answer.seq
  /\ part' = part + 1
  /\ \/ /\ ~LastFragment
        /\ Hand(NextPacket)
        /\ UNCHANGED <<pc, result>>
     \/ /\ LastFragment
        /\ m_sequence' = sequence_inc(Answer.seq)
        /\ pc' = "idle"
        /\ result' = "uplink_ok"
        /\ UNCHANGED <<m_pck_send, up>>
  /\ UNCHANGED <<msg, buf, downloads>>

-----------------------------------------------------------------------------
(* ctr_cloud_transfer_downlink *)

\* The callers reset the buffer first (ctr_buf_reset before every call).
Downlink ==
  /\ Call
  /\ pc' = "downlink"
  /\ msg' = NoMessage
  /\ part' = 0
  /\ buf' = <<>>
  /\ has_downlink' = FALSE
  /\ result' = "busy"
  /\ Hand(PollPacket(m_sequence))
  /\ UNCHANGED <<m_last_recv_sequence, downloads, down, faults, setting, cloud>>

DownlinkAnswer ==
  /\ pc = "downlink"
  /\ down # <<>>
  /\ down' = Tail(down)
  /\ UNCHANGED <<calls, faults, setting, cloud>>

DownlinkRestartKeepsSequence ==
  /\ DownlinkAnswer
  /\ \/ Answer.seq = 0
     \/ Answer.seq \notin {m_sequence, m_last_recv_sequence}
  /\ part' = 0
  /\ Hand(PollPacket(m_sequence))
  /\ UNCHANGED <<m_last_recv_sequence, pc, msg, buf, has_downlink, result,
                 downloads>>

DownlinkRestart ==
  /\ DownlinkAnswer
  /\ \/ Answer.seq = 0
     \/ Answer.seq \notin {m_sequence, m_last_recv_sequence}
  /\ part' = 0
  /\ Hand(PollPacket(0))
  /\ UNCHANGED <<m_last_recv_sequence, pc, msg, buf, has_downlink, result,
                 downloads>>

\* `goto again`: unlike an upload, the same packet under the same number.
DownlinkRepeatRenumbered ==
  /\ DownlinkAnswer
  /\ Answer.seq # 0
  /\ Answer.seq # m_sequence
  /\ Answer.seq = m_last_recv_sequence
  /\ Hand([m_pck_send EXCEPT !.seq = m_sequence])
  /\ UNCHANGED <<m_last_recv_sequence, pc, msg, part, buf, has_downlink,
                 result, downloads>>

DownlinkRepeat ==
  /\ DownlinkAnswer
  /\ Answer.seq # 0
  /\ Answer.seq # m_sequence
  /\ Answer.seq = m_last_recv_sequence
  /\ Hand(m_pck_send)
  /\ UNCHANGED <<m_last_recv_sequence, pc, msg, part, buf, has_downlink,
                 result, downloads>>

\* The buffer once the data of an answer is appended.
FilledNotReset == buf \o Answer.data
FilledTruncated ==
  LET whole == (IF "FIRST" \in Answer.flags THEN <<>> ELSE buf) \o Answer.data
  IN SubSeq(whole, 1, IF Len(whole) > BufParts THEN BufParts ELSE Len(whole))
Filled == (IF "FIRST" \in Answer.flags THEN <<>> ELSE buf) \o Answer.data

DownlinkExpected ==
  /\ DownlinkAnswer
  /\ Answer.seq # 0
  /\ Answer.seq = m_sequence

\* An acknowledgement where data was expected, or no room for the data.
DownlinkRefuse ==
  /\ DownlinkExpected
  /\ \/ "ACK" \in Answer.flags
     \/ Len(Filled) > BufParts
  /\ m_sequence' = 0
  /\ m_last_recv_sequence' = 0
  /\ pc' = "idle"
  /\ result' = "downlink_error"
  /\ buf' = IF "ACK" \notin Answer.flags /\ "FIRST" \in Answer.flags THEN <<>> ELSE buf
  /\ UNCHANGED <<m_pck_send, msg, part, has_downlink, downloads, up>>

\* The expected answer.  An empty first and only fragment says that nothing
\* waits and is not acknowledged; any other fragment is, the last one by a
\* packet that no answer follows.
DownlinkAccept ==
  /\ DownlinkExpected
  /\ "ACK" \notin Answer.flags
  /\ Len(Filled) <= BufParts
  /\ m_last_recv_sequence' = Answer.seq
  /\ buf' = Filled
  /\ has_downlink' = ("POLL" \in Answer.flags)
  /\ IF "LAST" \in Answer.flags /\ Answer.data = <<>> /\ part = 0
       THEN /\ m_sequence' = sequence_inc(Answer.seq)
            /\ pc' = "idle"
            /\ result' = "poll"
            /\ UNCHANGED <<m_pck_send, part, downloads, up>>
       ELSE /\ part' = part + 1
            /\ Hand(AckPacket(sequence_inc(Answer.seq)))
            /\ IF "LAST" \in Answer.flags
                 THEN pc' = "final" /\ downloads' = downloads \cup {Filled}
                 ELSE UNCHANGED <<pc, downloads>>
            /\ UNCHANGED result
  /\ UNCHANGED msg

\* transfer() of the last acknowledgement comes back; it waits for no answer.
DownlinkDone ==
  /\ pc = "final"
  /\ pc' = "idle"
  /\ result' = "downlink_ok"
  /\ UNCHANGED <<m_sequence, m_last_recv_sequence, m_pck_send, msg, part, buf,
                 has_downlink, downloads, up, down, calls, faults, setting, cloud>>

-----------------------------------------------------------------------------
(* transfer() and the link below it *)

Fault(kind) ==
  /\ kind \in Faults
  /\ faults > 0
  /\ faults' = faults - 1
  /\ UNCHANGED <<calls, setting>>

\* transfer() fails while it waits: -ETIMEDOUT of ctr_lte_v2_send_recv().
Timeout ==
  /\ Fault("timeout")
  /\ pc # "idle"
  /\ Fail(IF pc = "uplink" THEN "uplink_error" ELSE "downlink_error")
  /\ UNCHANGED <<has_downlink, down, cloud>>

\* transfer() or its caller refuses the datagram: bad Base64, a hash or a
\* serial number that is not ours.
BadAnswer ==
  /\ Fault("bad")
  /\ Waiting
  /\ down # <<>>
  /\ down' = Tail(down)
  /\ Fail(IF pc = "uplink" THEN "uplink_error" ELSE "downlink_error")
  /\ UNCHANGED <<has_downlink, cloud>>

\* No answer within XRECVFROM_TIMEOUT_SEC: the LTE state machine comes back to
\* READY with the request still set and sends the same datagram again.
Retransmit ==
  /\ Waiting
  /\ up = <<>> /\ down = <<>>
  /\ up' = <<m_pck_send>>
  /\ UNCHANGED <<device, down, calls, faults, setting, cloud>>

\* A reboot: ctr_cloud_transfer_init() with a new socket.  Booting and attaching
\* take far longer than a datagram lives.
Reboot ==
  /\ Fault("reboot")
  /\ m_sequence' = 0
  /\ m_last_recv_sequence' = 0
  /\ pc' = "idle"
  /\ result' = "none"
  /\ msg' = NoMessage
  /\ part' = 0
  /\ buf' = <<>>
  /\ has_downlink' = FALSE
  /\ m_pck_send' = PollPacket(0)
  /\ up' = <<>> /\ down' = <<>>
  /\ UNCHANGED <<downloads, cloud>>

LoseUp ==
  /\ Fault("lose_up")
  /\ up # <<>>
  /\ up' = Tail(up)
  /\ UNCHANGED <<device, down, cloud>>

LoseDown ==
  /\ Fault("lose_down")
  /\ down # <<>>
  /\ down' = Tail(down)
  /\ UNCHANGED <<device, up, cloud>>

\* A datagram that the network, or a retransmission that crossed the answer,
\* delivers a second time.
Duplicate ==
  /\ Fault("duplicate")
  /\ up # <<>>
  /\ up' = <<Head(up)>> \o up
  /\ UNCHANGED <<device, down, cloud>>

-----------------------------------------------------------------------------
(* The cloud (external) *)

\* last: the number and answer of the last packet accepted; partial: the
\* fragments of the message being uploaded; sent: fragments of Head(queue)
\* that have been given to the device.
ResetRequest == [seq |-> 0, flags |-> {"ACK"}, data |-> <<>>]
NoAnswer     == <<>>
Forgotten    == [expect |-> 0, last |-> 0, answer |-> NoAnswer,
                 partial |-> <<>>, sent |-> 0]

Expects(s) == s = 0 \/ s = server.expect

\* The answer to a poll or to the acknowledgement of fragment i - 1.
DataAnswer(s, i) ==
  IF queue = <<>>
    THEN [seq |-> sequence_inc(s), flags |-> {"FIRST", "LAST"}, data |-> <<>>]
    ELSE [seq   |-> sequence_inc(s),
          flags |-> Ends(i, Parts[Head(queue)]) \cup
                    (IF Len(queue) > 1 THEN {"POLL"} ELSE {}),
          data  |-> <<Fragments(Head(queue))[i]>>]

\* The packet is accepted: answer (a sequence of length <= 1) goes out and is
\* remembered, and the next packet must follow it.
Answered(p, answer, partial, sent) ==
  /\ server' = [expect  |-> IF answer = NoAnswer THEN sequence_inc(p.seq)
                            ELSE sequence_inc(sequence_inc(p.seq)),
                last    |-> p.seq,
                answer  |-> answer,
                partial |-> partial,
                sent    |-> sent]
  /\ down' = down \o answer

ServerUplink(p) ==
  LET whole == (IF "FIRST" \in p.flags THEN <<>> ELSE server.partial) \o p.data
  IN /\ p.flags \cap {"POLL", "ACK"} = {}
     /\ Answered(p,
                 <<[seq   |-> sequence_inc(p.seq),
                    flags |-> {"ACK"} \cup (IF queue # <<>> THEN {"POLL"} ELSE {}),
                    data  |-> <<>>]>>,
                 IF "LAST" \in p.flags THEN <<>> ELSE whole,
                 0)
     /\ inbox' = IF "LAST" \in p.flags THEN inbox \cup {whole} ELSE inbox
     /\ UNCHANGED queue

ServerPoll(p) ==
  /\ "POLL" \in p.flags
  /\ Answered(p, <<DataAnswer(p.seq, 1)>>, <<>>, 1)
  /\ UNCHANGED <<inbox, queue>>

\* The acknowledgement of the last fragment releases the message.
ServerAck(p) ==
  /\ "ACK" \in p.flags
  /\ server.sent > 0 /\ queue # <<>>
  /\ IF server.sent < Parts[Head(queue)]
       THEN /\ Answered(p, <<DataAnswer(p.seq, server.sent + 1)>>, <<>>,
                        server.sent + 1)
            /\ UNCHANGED queue
       ELSE /\ Answered(p, NoAnswer, <<>>, 0)
            /\ queue' = Tail(queue)
  /\ UNCHANGED inbox

\* A fragment that continues no message, or an acknowledgement of nothing.
Senseless(p) ==
  \/ "ACK" \in p.flags /\ (server.sent = 0 \/ queue = <<>>)
  \/ p.flags \cap {"FIRST", "POLL", "ACK"} = {} /\ server.partial = <<>>

ServerAccept ==
  /\ up # <<>>
  /\ Expects(Head(up).seq)
  /\ ~Senseless(Head(up))
  /\ up' = Tail(up)
  /\ \/ ServerUplink(Head(up))
     \/ ServerPoll(Head(up))
     \/ ServerAck(Head(up))
  /\ UNCHANGED <<device, calls, faults, setting>>

ServerRepeat ==
  /\ up # <<>>
  /\ ~Expects(Head(up).seq)
  /\ Head(up).seq = server.last
  /\ up' = Tail(up)
  /\ down' = down \o server.answer
  /\ UNCHANGED <<device, calls, faults, setting, cloud>>

ServerReset ==
  /\ up # <<>>
  /\ \/ ~Expects(Head(up).seq) /\ Head(up).seq # server.last
     \/ Expects(Head(up).seq) /\ Senseless(Head(up))
  /\ up' = Tail(up)
  /\ server' = Forgotten
  /\ down' = Append(down, ResetRequest)
  /\ UNCHANGED <<device, calls, faults, setting, inbox, queue>>

\* The cloud loses the state of the transfer: what the device takes sequence 0
\* from the cloud for.
ServerForget ==
  /\ Fault("forget")
  /\ server' = Forgotten
  /\ UNCHANGED <<device, up, down, inbox, queue>>

-----------------------------------------------------------------------------

Init ==
  /\ m_sequence = 0
  /\ m_last_recv_sequence = 0
  /\ m_pck_send = PollPacket(0)
  /\ pc = "idle"
  /\ msg = NoMessage
  /\ part = 0
  /\ buf = <<>>
  /\ has_downlink = FALSE
  /\ result = "none"
  /\ downloads = {}
  /\ up = <<>> /\ down = <<>>
  /\ setting \in Settings
  /\ calls = setting.calls /\ faults = setting.maxfaults
  /\ server = Forgotten
  /\ inbox = {}
  /\ queue = setting.downlinks

Device ==
  \/ UplinkBadFlags \/ UplinkRestart \/ UplinkRepeat \/ UplinkAccept
  \/ DownlinkRestart \/ DownlinkRepeat \/ DownlinkRefuse \/ DownlinkAccept
  \/ DownlinkDone
  \/ Retransmit

Server == ServerAccept \/ ServerRepeat \/ ServerReset

Environment ==
  \/ Timeout \/ BadAnswer \/ Reboot
  \/ LoseUp \/ LoseDown \/ Duplicate \/ ServerForget

Next ==
  \/ \E m \in Messages : Uplink(m)
  \/ Downlink
  \/ Device
  \/ Server
  \/ Environment

Spec == Init /\ [][Next]_vars

\* The device's work queue and the cloud keep running and the network keeps
\* delivering; no caller has to call, and no fault has to happen.
FairSpec == Spec /\ WF_vars(Device) /\ WF_vars(Server)

-----------------------------------------------------------------------------
(* Properties *)

Results == {"none", "busy", "uplink_ok", "uplink_error", "downlink_ok",
            "downlink_error", "poll"}

\* Every variable has its type; the numbers stay below SeqMod across the wrap.
TypeOK ==
  /\ m_sequence \in 0..SeqMod-1
  /\ m_last_recv_sequence \in 0..SeqMod-1
  /\ m_pck_send \in Packet
  /\ pc \in {"idle", "uplink", "downlink", "final"}
  /\ msg \in Messages \cup {NoMessage}
  /\ part \in Nat
  /\ buf \in Seq(Fragment)
  /\ has_downlink \in BOOLEAN
  /\ result \in Results
  /\ up \in Seq(Packet) /\ down \in Seq(Packet)
  /\ setting \in Settings
  /\ calls \in 0..setting.calls /\ faults \in 0..setting.maxfaults
  /\ server.expect \in 0..SeqMod-1 /\ server.last \in 0..SeqMod-1
  /\ server.answer \in Seq(Packet)
  /\ server.partial \in Seq(Fragment) /\ server.sent \in Nat
  /\ inbox \subseteq Seq(Fragment)
  /\ queue \in Seq(Downs)

\* A link on which a datagram arrives in its own exchange or not at all, a cloud that
\* keeps its state, and a device that may reboot.
OnlyLosses == Faults \subseteq {"bad", "reboot", "lose_up", "lose_down"}

\* When ctr_cloud_transfer_uplink() has returned 0 the cloud has the whole
\* message, every fragment once and in order.
SuccessMeansDelivered == result = "uplink_ok" => Fragments(msg) \in inbox

\* It is so wherever no datagram of one exchange can be taken for one of another: after a
\* repeated answer the device gives one fragment two numbers, and after a failed call it
\* uses the same numbers again.
UplinkAcked == OnlyLosses => SuccessMeansDelivered

\* On such a link, whatever ctr_cloud_transfer_uplink() restarts and wherever the device
\* reboots, the cloud never assembles anything but a message the device was given: no
\* fragment is missing, repeated or taken from another message.
InboxWhole == OnlyLosses => inbox \subseteq {Fragments(m) : m \in Messages}

\* Whatever ctr_cloud_transfer_downlink() repeats and restarts, on any link, what a LAST
\* fragment completes in its buffer is one whole message of the cloud: as long as the
\* numbers do not come round to one that is still under way.
DownloadWhole == downloads \subseteq {Fragments(d) : d \in Downs}

\* The cloud releases a message only after ctr_cloud_transfer_downlink() has put
\* it together: nothing is acknowledged that had no room in the buffer.  Timeouts are
\* excepted: the next call uses the same numbers again.
ReleasedAfterDownload ==
  LET waiting == {queue[i] : i \in DOMAIN queue}
      released == {setting.downlinks[i] : i \in DOMAIN setting.downlinks} \ waiting
  IN "timeout" \notin Faults => \A d \in released : Fragments(d) \in downloads

\* The promise, read off the state: a call by its loop, what was put together by the bytes.
Promise == INSTANCE TransferPromise WITH
  Message  <- Messages,
  Down     <- Downs,
  Bytes    <- [m \in Messages \cup Downs |-> Fragments(m)],
  call     <- [op |-> pc, message |-> IF pc = "uplink" THEN msg ELSE NoMessage],
  outcome  <- IF pc = "idle" /\ result \in {"uplink_ok", "downlink_ok", "poll"} THEN result
              ELSE "none",
  received <- inbox,
  waiting  <- queue,
  got      <- downloads

\* On a link that only loses datagrams the two functions implement TransferPromise: no
\* message arrives after its call is over or in the call of another one, a download takes
\* the oldest message, and the cloud releases only what the device has.
TransferPromised == Promise!Init /\ [][OnlyLosses => Promise!Next]_(Promise!vars)

\* Every call of the two functions comes back, though neither loop counts its
\* repeats and restarts: the numbers of the two ends always meet again.
CallReturns == pc # "idle" ~> pc = "idle"

\* Every one does where a datagram arrives in its own exchange or not at all and the cloud
\* keeps its state, whatever is lost or refused and wherever the device reboots.  Elsewhere
\* one answer too many is enough for the restarts of an upload (ctr_cloud_transfer.c:186-254)
\* to go on for ever: a datagram that comes twice, the late answer of a call whose exchange
\* timed out, or the reset request with which a cloud that forgot the transfer answers the
\* acknowledgement that ends a download, and which nobody waits for.
UndisturbedReturns == OnlyLosses => CallReturns

\* On a link that repeats datagrams a download still comes back: unlike an
\* upload it repeats a packet under the packet's own number.
DownloadReturns == pc \in {"downlink", "final"} ~> pc = "idle"
=============================================================================
