------------------------------- MODULE CtrLrw -------------------------------
(***************************************************************************)
(* LoRaWAN: the dispatcher thread of subsys/ctr_lrw/ctr_lrw.c, its dialogs *)
(* with the modem (ctr_lrw_talk.c) and the event handler that the          *)
(* applications install (applications/clime/src/app_handler.c).            *)
(*                                                                         *)
(* The dispatcher serves two message queues: START and JOIN commands, and  *)
(* messages to send while the modem is ready.  Each operation (boot,       *)
(* setup, join, send) makes up to Retries attempts; an attempt switches    *)
(* the UART on, talks, may wait for a verdict that comes in an unsolicited *)
(* line, and switches the UART off.  The lines of the modem are received   *)
(* by a work of the system queue, so they interleave with all that.        *)
(*                                                                         *)
(* External: the modem and the network behind it, modelled as far as the   *)
(* code relies on them (the modem works on one confirmed message or join   *)
(* at a time, and refuses to send before it has joined).                   *)
(***************************************************************************)
EXTENDS Naturals, Sequences

CONSTANTS
  Messages,     \* what the application sends, each once
  Confirmed,    \* those of them that ask for a confirmation
  TooLong,      \* those whose length the modem does not take
  Expiring,     \* those with a time to live
  Modes,        \* the modes of activation: "otaa", "abp"
  CommandItems, \* CMD_MSGQ_MAX_ITEMS
  SendItems,    \* SEND_MSGQ_MAX_ITEMS
  Retries,      \* attempts of an operation
  SetupLength,  \* the commands that setup_once() sends
  Faults,       \* the kinds of faults that happen
  MaxFaults,    \* bound: faults in one behaviour
  MaxCalls      \* bound: messages sent and commands from the shell

FaultKinds == {"uart", "reset", "rfmux", "deaf", "line", "early", "slow",
               "noack", "nojoin", "reboot", "shell"}

Operations == {"boot", "setup", "join", "send"}
Lines == {"ok", "ack", "noack", "join_ok", "join_err", "boot"}
Idle == "idle"

ASSUME LrwAssumption ==
  /\ Messages \cap {Idle, "join"} = {}
  /\ Confirmed \subseteq Messages /\ TooLong \subseteq Messages
  /\ Expiring \subseteq Messages
  /\ Modes \subseteq {"otaa", "abp"} /\ Modes # {}
  /\ {CommandItems, SendItems, Retries, SetupLength} \subseteq Nat \ {0}
  /\ Faults \subseteq FaultKinds
  /\ MaxFaults \in Nat /\ MaxCalls \in Nat

VARIABLES
  mode,         \* m_config.mode
  m_state,      \* m_state
  initialized,  \* start(): the RF multiplexer is set up
  pc,           \* where the dispatcher is
  also,         \* the state of events[1] after k_poll()
  op, tries, step, ret,  \* the operation, its retries, its AT command, its result
  item,         \* the message that is being sent, or Idle
  cmd_msgq, send_msgq,
  signal,       \* m_boot_sig, m_join_sig and m_send_sig with their results
  enabled,      \* the UART is on
  handler,      \* m_handler_cb is set
  response,     \* m_response_sig
  modem,        \* joined, and what it works on
  wire,         \* lines received and not yet handled
  acked,        \* messages the network has confirmed
  stale,        \* a verdict on an earlier attempt to join was taken for the last one's
  answer,       \* what the application was told of each message
  faults, calls

api == <<cmd_msgq, send_msgq, answer>>
talk == <<handler, response>>
outside == <<modem, wire, acked, stale>>
budget == <<faults, calls>>
work == <<m_state, initialized, also, item>>
attempt == <<op, tries, step, ret>>
vars == <<mode, work, pc, attempt, api, signal, enabled, talk, outside, budget>>

Fault(kind) ==
  /\ kind \in Faults
  /\ faults > 0 /\ faults' = faults - 1
  /\ UNCHANGED calls

Goto(next) == pc' = next

-----------------------------------------------------------------------------
(* The API, and its callers *)

\* k_msgq_put() with K_NO_WAIT
Put(q, x) == IF Len(q) < CommandItems THEN Append(q, x) ELSE q

\* ctr_lrw_start() and ctr_lrw_join()
PutStart(q) == Put(q, "start")
PutJoin(q) == IF mode = "otaa" THEN Put(q, "join") ELSE q

Tell(m, what) == answer' = [answer EXCEPT ![m] = what]

\* ctr_lrw_send(): without room in the queue the caller gets an error.
Send(m) ==
  /\ answer[m] = "none"
  /\ calls > 0 /\ calls' = calls - 1
  /\ IF Len(send_msgq) < SendItems
     THEN send_msgq' = Append(send_msgq, m) /\ Tell(m, "pending")
     ELSE UNCHANGED send_msgq /\ Tell(m, "refused")
  /\ UNCHANGED <<mode, work, pc, attempt, cmd_msgq, signal, enabled, talk, outside,
                 faults>>

\* The shell commands lrw start and lrw join.
Command ==
  /\ calls > 0 /\ calls' = calls - 1
  /\ cmd_msgq' \in {PutStart(cmd_msgq), PutJoin(cmd_msgq)}
  /\ UNCHANGED <<mode, work, pc, attempt, send_msgq, answer, signal, enabled, talk,
                 outside, faults>>

\* The shell command lrw test uart switches the UART, also outside of test mode.
CommandUart ==
  /\ Fault("shell")
  /\ enabled' = ~enabled
  /\ UNCHANGED <<mode, work, pc, attempt, api, signal, talk, outside>>

-----------------------------------------------------------------------------
(* The modem and the network (external) *)

\* What the modem writes while the UART is off is lost.
Says(line) == wire' = IF enabled THEN Append(wire, line) ELSE wire

AfterReset == [joined |-> IF mode = "abp" THEN "yes" ELSE "no", busy |-> Idle]

Refuses ==
  \/ op \in {"join", "send"} /\ modem.busy # Idle
  \/ op = "send" /\ modem.joined # "yes"

Takes ==
  modem' = CASE op = "join" -> [joined |-> "no", busy |-> "join"]
             [] op = "send" /\ item \in Confirmed -> [modem EXCEPT !.busy = item]
             [] OTHER -> modem

\* The verdict on a join or on a confirmed message.
ModemJoins ==
  /\ modem.busy = "join"
  /\ \/ modem' = [joined |-> "yes", busy |-> Idle] /\ Says("join_ok") /\ UNCHANGED budget
     \/ modem' = [joined |-> "no", busy |-> Idle] /\ Says("join_err") /\ Fault("nojoin")
  /\ UNCHANGED <<mode, work, pc, attempt, api, signal, enabled, talk, acked, stale>>

ModemDelivers ==
  /\ modem.busy \in Messages
  /\ modem' = [modem EXCEPT !.busy = Idle]
  /\ \/ acked' = acked \cup {modem.busy} /\ Says("ack") /\ UNCHANGED budget
     \/ UNCHANGED acked /\ Says("noack") /\ Fault("noack")
  /\ UNCHANGED <<mode, work, pc, attempt, api, signal, enabled, talk, stale>>

\* The modem restarts by itself: its session with the network is lost.
ModemReboots ==
  /\ Fault("reboot")
  /\ modem' = [joined |-> IF mode = "abp" THEN "yes" ELSE "lost", busy |-> Idle]
  /\ Says("boot")
  /\ UNCHANGED <<mode, work, pc, attempt, api, signal, enabled, talk, acked, stale>>

LineGarbled ==
  /\ wire # <<>>
  /\ Fault("line")
  /\ wire' = Tail(wire)
  /\ UNCHANGED <<mode, work, pc, attempt, api, signal, enabled, talk, modem, acked, stale>>

-----------------------------------------------------------------------------
(* recv_cb(), process_urc() and talk_handler() on the system work queue *)

Raise(which, result) == signal' = [signal EXCEPT ![which] = result]

InWire(lines) == \E i \in DOMAIN wire : wire[i] \in lines

\* An answer belongs to the handler that waits for it; without one it is dropped.
\* That takes a modem that is faster than the return from ctr_lrw_if_send().
ReceiveAnswer ==
  /\ wire # <<>> /\ Head(wire) = "ok"
  /\ wire' = Tail(wire)
  /\ response' = (response \/ handler)
  /\ IF pc = "listen" THEN Fault("early") ELSE UNCHANGED budget
  /\ UNCHANGED <<mode, work, pc, attempt, api, signal, enabled, handler, modem, acked, stale>>

ReceiveUrc ==
  /\ wire # <<>> /\ Head(wire) # "ok"
  /\ wire' = Tail(wire)
  /\ CASE Head(wire) = "ack" -> Raise("send", "ok")
       [] Head(wire) = "noack" -> Raise("send", "err")
       [] Head(wire) = "join_ok" -> Raise("join", "ok")
       [] Head(wire) = "join_err" -> Raise("join", "err")
       [] Head(wire) = "boot" -> Raise("boot", "ok")
  /\ UNCHANGED <<mode, work, pc, attempt, api, enabled, talk, modem, acked, stale, budget>>

-----------------------------------------------------------------------------
(* dispatcher_thread() *)

\* k_poll(): the queue of messages only counts while the modem is ready.
PollQueues ==
  /\ pc = "poll"
  /\ also' = (m_state = "ready" /\ send_msgq # <<>>)
  /\ cmd_msgq # <<>> \/ also'
  /\ Goto(IF cmd_msgq # <<>> THEN "command" ELSE "message")
  /\ UNCHANGED <<mode, m_state, initialized, item, attempt, api, signal, enabled, talk,
                 outside, budget>>

Begin(operation) ==
  /\ op' = operation /\ tries' = Retries
  /\ Goto("enable")
  /\ UNCHANGED <<step, ret>>

\* process_cmd_msgq(): START and JOIN are ignored in the wrong state.
TakeCommand ==
  /\ pc = "command"
  /\ cmd_msgq' = Tail(cmd_msgq)
  /\ LET starts == Head(cmd_msgq) = "start" /\ m_state # "ready"
         joins == Head(cmd_msgq) = "join" /\ m_state = "ready"
     IN \/ /\ starts /\ initialized' = TRUE
           /\ Begin("boot") /\ UNCHANGED budget
        \/ /\ starts /\ ~initialized /\ Fault("rfmux")
           /\ op' = "boot" /\ ret' = "error" /\ Goto("over")
           /\ UNCHANGED <<initialized, tries, step>>
        \/ joins /\ Begin("join") /\ UNCHANGED <<initialized, budget>>
        \/ /\ ~starts /\ ~joins /\ Goto("message")
           /\ UNCHANGED <<initialized, attempt, budget>>
  /\ UNCHANGED <<mode, m_state, also, item, send_msgq, answer, signal, enabled, talk,
                 outside>>

\* process_send_msgq(): a message whose time has passed is dropped without an event.
TakeMessage ==
  /\ pc = "message" /\ also /\ m_state = "ready"
  /\ send_msgq' = Tail(send_msgq)
  /\ \/ /\ item' = Head(send_msgq) /\ Begin("send") /\ UNCHANGED answer
     \/ /\ Head(send_msgq) \in Expiring
        /\ Tell(Head(send_msgq), "expired")
        /\ Goto("poll") /\ UNCHANGED <<item, attempt>>
  /\ UNCHANGED <<mode, m_state, initialized, also, cmd_msgq, signal, enabled, talk,
                 outside, budget>>

NoMessage ==
  /\ pc = "message" /\ ~(also /\ m_state = "ready")
  /\ Goto("poll")
  /\ UNCHANGED <<mode, work, attempt, api, signal, enabled, talk, outside, budget>>

-----------------------------------------------------------------------------
(* boot(), setup(), join() and send(): one attempt *)

\* ctr_lrw_talk_enable(): when it fails the operation is over at once.  What the
\* UART received before was handled in the seconds between two attempts.
Enable ==
  /\ pc = "enable" /\ wire = <<>>
  /\ \/ enabled' = TRUE /\ Goto("once") /\ UNCHANGED <<ret, budget>>
     \/ Fault("uart") /\ ret' = "error" /\ Goto("over") /\ UNCHANGED enabled
  /\ UNCHANGED <<mode, work, op, tries, step, api, signal, talk, outside>>

\* boot_once(): the signal is cleared before the reset pulse.
BootOnce ==
  /\ pc = "once" /\ op = "boot"
  /\ Raise("boot", "none")
  /\ \/ modem' = AfterReset /\ Says("boot") /\ Goto("verdict") /\ UNCHANGED <<ret, budget>>
     \/ Fault("reset") /\ ret' = "error" /\ Goto("disable") /\ UNCHANGED <<modem, wire>>
  /\ stale' = FALSE
  /\ UNCHANGED <<mode, work, op, tries, step, api, enabled, talk, acked>>

\* setup_once(), join_once() and send_once() begin; a join clears its signal first.
\* A payload of the wrong length is refused by ctr_lrw_talk.c.
TalkOnce ==
  /\ pc = "once" /\ op # "boot"
  /\ step' = 1
  /\ IF op = "join" THEN Raise("join", "none") ELSE UNCHANGED signal
  /\ IF op = "send" /\ item \in TooLong
     THEN ret' = "error" /\ Goto("disable")
     ELSE UNCHANGED ret /\ Goto("talk")
  /\ UNCHANGED <<mode, work, op, tries, api, enabled, talk, outside, budget>>

\* talk_cmd_ok(): the command goes out, which fails while the UART is off.
Talk ==
  /\ pc = "talk"
  /\ \/ /\ enabled /\ Goto("listen") /\ UNCHANGED ret
        /\ \/ ~Refuses /\ Takes /\ Says("ok") /\ UNCHANGED budget
           \/ Refuses /\ UNCHANGED <<modem, wire, budget>>
           \/ Fault("deaf") /\ UNCHANGED <<modem, wire>>
     \/ /\ \/ ~enabled /\ UNCHANGED budget
           \/ Fault("uart")
        /\ ret' = "error" /\ Goto("disable") /\ UNCHANGED <<modem, wire>>
  /\ stale' = (stale \/ (op = "join" /\ (signal.join # "none" \/ InWire({"join_ok", "join_err"}))))
  /\ UNCHANGED <<mode, work, op, tries, step, api, signal, enabled, talk, acked>>

\* wait_response(): only now is the handler in place.
Listen ==
  /\ pc = "listen"
  /\ handler' = TRUE /\ response' = FALSE
  /\ Goto("answer")
  /\ UNCHANGED <<mode, work, attempt, api, signal, enabled, outside, budget>>

AnsweredKeepsSignal ==
  /\ pc = "answer" /\ response
  /\ handler' = FALSE
  /\ \/ /\ op = "setup" /\ step < SetupLength
        /\ step' = step + 1 /\ Goto("talk") /\ UNCHANGED <<ret, signal>>
     \/ /\ op = "setup" /\ step = SetupLength
        /\ ret' = "ok" /\ Goto("disable") /\ UNCHANGED <<step, signal>>
     \/ /\ op = "join" /\ Goto("verdict") /\ UNCHANGED <<step, ret, signal>>
     \/ /\ op = "send" /\ Goto("verdict")
        /\ IF item \in Confirmed THEN UNCHANGED signal ELSE Raise("send", "ok")
        /\ UNCHANGED <<step, ret>>
  /\ UNCHANGED <<mode, work, op, tries, api, enabled, response, outside, budget>>

\* The answer to the last command of a setup ends it; what is sent without
\* confirmation has its verdict, and for a confirmed message the signal is cleared
\* only now.
Answered ==
  /\ pc = "answer" /\ response
  /\ handler' = FALSE
  /\ \/ /\ op = "setup" /\ step < SetupLength
        /\ step' = step + 1 /\ Goto("talk") /\ UNCHANGED <<ret, signal>>
     \/ /\ op = "setup" /\ step = SetupLength
        /\ ret' = "ok" /\ Goto("disable") /\ UNCHANGED <<step, signal>>
     \/ /\ op = "join" /\ Goto("verdict") /\ UNCHANGED <<step, ret, signal>>
     \/ /\ op = "send" /\ Goto("verdict")
        /\ Raise("send", IF item \in Confirmed THEN "none" ELSE "ok")
        /\ UNCHANGED <<step, ret>>
  /\ UNCHANGED <<mode, work, op, tries, api, enabled, response, outside, budget>>

NotAnswered ==
  /\ pc = "answer" /\ ~response
  /\ IF InWire({"ok"}) THEN Fault("slow") ELSE UNCHANGED budget
  /\ handler' = FALSE
  /\ ret' = "error" /\ Goto("disable")
  /\ UNCHANGED <<mode, work, op, tries, step, api, signal, enabled, response, outside>>

Waited == IF op = "boot" THEN signal.boot ELSE IF op = "join" THEN signal.join ELSE signal.send

\* k_poll() on the signal; only for a message is a bad verdict no failure of the modem.
Verdict ==
  /\ pc = "verdict" /\ Waited # "none"
  /\ ret' = IF Waited = "ok" THEN "ok" ELSE IF op = "send" THEN "not_sent" ELSE "error"
  /\ Goto("disable")
  /\ UNCHANGED <<mode, work, op, tries, step, api, signal, enabled, talk, outside, budget>>

VerdictPending ==
  CASE op = "boot" -> InWire({"boot"})
    [] op = "join" -> modem.busy = "join" \/ InWire({"join_ok", "join_err"})
    [] OTHER -> modem.busy \in Messages \/ InWire({"ack", "noack"})

NoVerdict ==
  /\ pc = "verdict" /\ Waited = "none"
  /\ IF VerdictPending THEN Fault("slow") ELSE UNCHANGED budget
  /\ ret' = IF op = "send" THEN "not_sent" ELSE "error"
  /\ Goto("disable")
  /\ UNCHANGED <<mode, work, op, tries, step, api, signal, enabled, talk, outside>>

DisableRetriesForever ==
  /\ pc = "disable"
  /\ enabled' = FALSE
  /\ tries' = tries - 1
  /\ Goto(IF ret = "ok" THEN "over" ELSE "enable")
  /\ UNCHANGED <<mode, work, op, step, ret, api, signal, talk, outside, budget>>

\* ctr_lrw_talk_disable() ends the attempt, and when it fails the operation.
Disable ==
  /\ pc = "disable"
  /\ \/ enabled' = FALSE /\ UNCHANGED <<ret, budget>>
        /\ tries' = tries - 1
        /\ Goto(IF ret = "ok" \/ tries' = 0 THEN "over" ELSE "enable")
     \/ Fault("uart") /\ ret' = "error" /\ Goto("over") /\ UNCHANGED <<enabled, tries>>
  /\ UNCHANGED <<mode, work, op, step, api, signal, talk, outside>>

-----------------------------------------------------------------------------
(* The end of a request, and app_handler_lrw() *)

Booted ==
  /\ pc = "over" /\ op = "boot" /\ ret = "ok"
  /\ Begin("setup")
  /\ UNCHANGED <<mode, work, api, signal, enabled, talk, outside, budget>>

\* process_req_start() succeeds: the application asks for a join.
Started ==
  /\ pc = "over" /\ op = "setup" /\ ret = "ok"
  /\ m_state' = "ready"
  /\ cmd_msgq' = PutJoin(cmd_msgq)
  /\ Goto("message")
  /\ UNCHANGED <<mode, initialized, also, item, attempt, send_msgq, answer, signal,
                 enabled, talk, outside, budget>>

Joined ==
  /\ pc = "over" /\ op = "join" /\ ret = "ok"
  /\ Goto("message")
  /\ UNCHANGED <<mode, work, attempt, api, signal, enabled, talk, outside, budget>>

\* process_req_send(): SEND_OK or SEND_ERR, and the modem stays ready.
Sent ==
  /\ pc = "over" /\ op = "send" /\ ret # "error"
  /\ Tell(item, IF ret = "ok" THEN "send_ok" ELSE "send_err")
  /\ item' = Idle
  /\ Goto("poll")
  /\ UNCHANGED <<mode, m_state, initialized, also, attempt, cmd_msgq, send_msgq, signal,
                 enabled, talk, outside, budget>>

FailsOnlyToStart ==
  /\ pc = "over" /\ ret = "error"
  /\ IF op = "send" THEN Tell(item, "send_err") /\ item' = Idle ELSE UNCHANGED <<answer, item>>
  /\ IF op = "join" THEN Goto("message") /\ UNCHANGED <<m_state, cmd_msgq>>
     ELSE m_state' = "error" /\ cmd_msgq' = <<>> /\ Goto("failure")
  /\ UNCHANGED <<mode, initialized, also, attempt, send_msgq, signal, enabled, talk,
                 outside, budget>>

FailsSilently ==
  /\ pc = "over" /\ ret = "error"
  /\ item' = Idle
  /\ m_state' = "error"
  /\ cmd_msgq' = <<>>
  /\ Goto("failure")
  /\ UNCHANGED <<mode, initialized, also, attempt, send_msgq, answer, signal, enabled, talk,
                 outside, budget>>

\* Whatever failed, the commands that wait are dropped before the application hears.
Fails ==
  /\ pc = "over" /\ ret = "error"
  /\ IF op = "send" THEN Tell(item, "send_err") /\ item' = Idle ELSE UNCHANGED <<answer, item>>
  /\ m_state' = "error"
  /\ cmd_msgq' = <<>>
  /\ Goto("failure")
  /\ UNCHANGED <<mode, initialized, also, attempt, send_msgq, signal, enabled, talk,
                 outside, budget>>

ReportFailureThenPurge ==
  /\ pc = "failure"
  /\ cmd_msgq' = <<>>
  /\ Goto("poll")
  /\ UNCHANGED <<mode, work, attempt, send_msgq, answer, signal, enabled, talk, outside,
                 budget>>

\* The application starts the modem again.
ReportFailure ==
  /\ pc = "failure"
  /\ cmd_msgq' = PutStart(cmd_msgq)
  /\ Goto("poll")
  /\ UNCHANGED <<mode, work, attempt, send_msgq, answer, signal, enabled, talk, outside,
                 budget>>

-----------------------------------------------------------------------------
Init ==
  /\ mode \in Modes
  /\ m_state = "init" /\ initialized = FALSE
  /\ pc = "poll" /\ also = FALSE
  /\ op = "boot" /\ tries = 0 /\ step = 0 /\ ret = "ok" /\ item = Idle
  /\ cmd_msgq = <<"start">> /\ send_msgq = <<>>
  /\ signal = [boot |-> "none", join |-> "none", send |-> "none"]
  /\ enabled = FALSE /\ handler = FALSE /\ response = FALSE
  /\ modem = AfterReset /\ wire = <<>> /\ acked = {} /\ stale = FALSE
  /\ answer = [m \in Messages |-> "none"]
  /\ faults = MaxFaults /\ calls = MaxCalls

Dispatcher ==
  \/ PollQueues \/ TakeCommand \/ TakeMessage \/ NoMessage
  \/ Enable \/ BootOnce \/ TalkOnce \/ Talk \/ Listen \/ Answered \/ NotAnswered
  \/ Verdict \/ NoVerdict \/ Disable
  \/ Booted \/ Started \/ Joined \/ Sent \/ Fails \/ ReportFailure

Receive == ReceiveAnswer \/ ReceiveUrc
Modem == ModemJoins \/ ModemDelivers

Next ==
  \/ Dispatcher \/ Receive \/ Modem
  \/ ModemReboots \/ LineGarbled
  \/ \E m \in Messages : Send(m)
  \/ Command \/ CommandUart

Spec == Init /\ [][Next]_vars

\* The threads run, the modem works on what it has taken.
FairSpec == Spec /\ WF_vars(Dispatcher) /\ WF_vars(Receive) /\ WF_vars(Modem)

-----------------------------------------------------------------------------
(* Properties *)

TypeOK ==
  /\ mode \in Modes /\ m_state \in {"init", "ready", "error"}
  /\ initialized \in BOOLEAN /\ also \in BOOLEAN /\ enabled \in BOOLEAN
  /\ handler \in BOOLEAN /\ response \in BOOLEAN /\ stale \in BOOLEAN
  /\ pc \in {"poll", "command", "message", "enable", "once", "talk", "listen", "answer",
             "verdict", "disable", "over", "failure"}
  /\ op \in Operations /\ tries \in 0..Retries /\ step \in 0..SetupLength
  /\ ret \in {"ok", "error", "not_sent"}
  /\ item \in Messages \cup {Idle}
  /\ cmd_msgq \in Seq({"start", "join"}) /\ Len(cmd_msgq) <= CommandItems
  /\ send_msgq \in Seq(Messages) /\ Len(send_msgq) <= SendItems
  /\ signal \in [{"boot", "join", "send"} -> {"none", "ok", "err"}]
  /\ modem \in [joined : {"yes", "no", "lost"}, busy : Messages \cup {"join", Idle}]
  /\ wire \in Seq(Lines) /\ acked \subseteq Confirmed
  /\ answer \in [Messages -> {"none", "pending", "refused", "expired", "send_ok", "send_err"}]
  /\ faults \in 0..MaxFaults /\ calls \in 0..MaxCalls

\* SEND_OK for a confirmed message means that the network confirmed this message,
\* not an earlier one whose verdict came late.
SendOkMeansAcked == \A m \in Confirmed : answer[m] = "send_ok" => m \in acked

\* A modem that is ready and was not joined since it was started is being joined, has
\* a join coming, or is about to be started again: otherwise every message would be
\* refused.  The exception is a late verdict that was taken for another one.
JoinComing ==
  m_state = "ready" /\ modem.joined = "no" /\ ~stale =>
    \/ \E i \in DOMAIN cmd_msgq : cmd_msgq[i] = "join"
    \/ op = "join" /\ pc # "poll"
    \/ pc = "over" /\ ret = "error"

\* When the faults end the modem becomes ready for good, and joined unless it lost
\* its session afterwards.
Recovers == <>[](m_state = "ready" /\ (modem.joined # "no" \/ stale))

\* Every message that ctr_lrw_send() took is reported or expires in the end.
MessagesAnswered == <>[](\A m \in Messages : answer[m] # "pending")
=============================================================================
