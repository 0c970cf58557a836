------------------------------ MODULE CtrLteV2 -------------------------------
(***************************************************************************)
(* The LTE modem state machine of subsys/ctr_lte_v2 and the threads that   *)
(* use it: ctr_lte_v2_enable(), _reconnect(), _gnss_set_enable() and       *)
(* _send_recv().                                                           *)
(*                                                                         *)
(* One work queue runs everything the state machine does.  Its thread has  *)
(* the lowest application priority, so that callers and the receiver of    *)
(* the modem's lines run between any two of its steps, and it between two  *)
(* of theirs only where they wait.  An action of the work queue is a piece *)
(* of code up to the next point where another thread can make a            *)
(* difference: an event handler with the on_leave of the old state, the    *)
(* on_enter of the new one, a blocking call to the modem.                  *)
(*                                                                         *)
(* The modem and the network are not part of the repository: they are what *)
(* the lines the driver parses and the AT commands it sends say of them.   *)
(* How long a timer runs is abstracted: a running timer may expire at any  *)
(* moment the work queue is free.                                          *)
(***************************************************************************)
EXTENDS Naturals, Sequences, FiniteSets

CONSTANTS
  Callers,       \* threads that call ctr_lte_v2_send_recv()
  NoCaller,      \* a NULL m_send_recv_param
  RingSize,      \* bytes in m_event_buf, one per event (8 in the code)
  Settings       \* how the firmware is built and used, and the bounds: see Setting

\* AT commands that fail, the UART that will not stop, an on_leave() that fails,
\* ctr_lte_v2_flow_send(), _recv() and _check(), erased forbidden networks, an RF
\* multiplexer that is not acquired or not released, and what the network does on its own.
FaultKinds == {"at", "uart", "leave", "send", "recv", "check", "fplmn", "rfmux",
               "release", "reset_loop", "deregistered", "socket"}

\* timeout: send_recv has a timeout other than K_FOREVER; gnss: CONFIG_CTR_LTE_V2_GNSS;
\* psm: the answers the network has to a request for PSM; reconnects: the application
\* calls ctr_lte_v2_reconnect(); alone: only one thread at a time calls send_recv;
\* faults: the kinds of faults the environment has.  The bounds: lines, events that wait
\* when the modem says something; maxfaults; calls of send_recv; commands, calls of
\* enable, reconnect and gnss_set_enable.
Setting == [timeout : BOOLEAN, gnss : BOOLEAN, psm : SUBSET BOOLEAN \ {{}},
            reconnects : BOOLEAN, alone : BOOLEAN, faults : SUBSET FaultKinds,
            lines : Nat, maxfaults : Nat, calls : Nat, commands : Nat]

ASSUME LteAssumption ==
  /\ NoCaller \notin Callers
  /\ RingSize \in Nat \ {0}
  /\ Settings \subseteq Setting /\ Settings # {}

VARIABLE setting  \* the one of Settings that this behaviour has, never changed

FiniteTimeout == setting.timeout
Gnss == setting.gnss
Psm == setting.psm
Reconnects == setting.reconnects
Faults == setting.faults
MaxLines == setting.lines

States == {"DISABLED", "ERROR", "BOOT", "PREPARE", "ATTACH", "RETRY_DELAY",
           "RESET_LOOP", "OPEN_SOCKET", "READY", "SLEEP", "WAKEUP", "SEND",
           "RECEIVE", "CONEVAL"} \cup (IF Gnss THEN {"GNSS"} ELSE {})
Events == {"ENABLE", "ERROR", "TIMEOUT", "READY", "SIMDETECTED", "REGISTERED",
           "DEREGISTERED", "RESET_LOOP", "SOCKET_OPENED", "XMODMSLEEP",
           "CSCON_0", "CSCON_1", "SEND", "RECV", "XGPS_ENABLE", "XGPS_DISABLE"}
Flags  == {"CSCON", "GNSS_ENABLE", "CFUN4", "SEND_PENDING", "RECV_PENDING"}
Pending == {"SEND_PENDING", "RECV_PENDING"}
Bits   == {"CONNECTED", "DONE", "STOP"}
Results == {"ok", "ETIMEDOUT", "EIO", "ECONNRESET", "ENETDOWN"}

VARIABLES
  m_state,             \* the state of the state machine
  step,                \* "idle", the state being entered, or a blocking call
  batch,               \* the events the dispatch handler still has to handle
  m_event_rb,          \* the ring buffer of events
  timer,               \* whether m_timeout_work is scheduled
  m_flag,              \* FLAG_*
  bits,                \* m_states_event
  m_send_recv_param,   \* the request, or NoCaller
  m_send_recv_result,
  m_send_recv_lock,    \* the owner of the mutex
  on_timeout_state,    \* of m_error_ctx
  flow_check_failures, \* of m_error_ctx
  no_psm,              \* m_cereg_param.active_time == -1
  using,               \* the request whose buffers a blocking call works on
  modem,               \* the modem and the network
  pc,                  \* where each caller is
  wants,               \* whether a caller inside send_recv passed recv_buf
  carried,             \* what the modem really did for the caller's request
  reconnecting,        \* where ctr_lte_v2_reconnect() is: "never", in the on_leave() of
                       \* a state, "now" in on_enter_disabled(), "done"
  calls, commands, faults

fsm     == <<m_state, step, batch>>
request == <<m_send_recv_param, m_send_recv_result>>
context == <<on_timeout_state, flow_check_failures, no_psm>>
users   == <<m_send_recv_lock, pc, wants>>
budget  == <<calls, commands, faults, setting>>
vars == <<m_state, step, batch, m_event_rb, timer, m_flag, bits,
          m_send_recv_param, m_send_recv_result, m_send_recv_lock,
          on_timeout_state, flow_check_failures, no_psm, using, modem, pc,
          wants, carried, reconnecting, calls, commands, faults, setting>>

-----------------------------------------------------------------------------
(* The modem *)

\* uart: m_started, the UART runs and lines come through.  lte: the radio is on
\* (AT+CFUN=1 or 21).  rrc: a radio connection is up (+CSCON: 1).  tx: data
\* waits for one.  ready and sim: a Ready or a %XSIM line is due.  awake: no
\* %XMODEMSLEEP line since the modem was last used.  psm: the last +CEREG line
\* came with an active time, or without the field.  spared: the socket was closed by
\* the network, which writes no line, or to save power.
ModemFlags == {"uart", "lte", "registered", "socket", "rrc", "tx", "ready",
               "sim", "awake", "psm", "spared"}

\* The modem with its radio turned off: no registration and no sockets.
Offline == [modem EXCEPT !.lte = FALSE, !.registered = FALSE, !.socket = FALSE,
                         !.rrc = FALSE, !.tx = FALSE, !.sim = FALSE, !.spared = FALSE]

\* The same, to save power where the network does not grant PSM.
Spared == [Offline EXCEPT !.spared = TRUE]

\* ctr_lte_v2_flow_check()
Check ==
  IF ~modem.uart \/ ~modem.lte \/ ~modem.registered THEN "down"
  ELSE IF ~modem.socket THEN "no_socket" ELSE "ok"

-----------------------------------------------------------------------------
(* Events and timer *)

\* delegate_event(): ring_buf_put() of a full ring stores nothing and returns 0.
Delegated(events) ==
  LET all == m_event_rb \o events
  IN SubSeq(all, 1, IF Len(all) < RingSize THEN Len(all) ELSE RingSize)

Delegate(events) == m_event_rb' = Delegated(events)

Fault(kind) ==
  /\ kind \in Faults
  /\ faults > 0
  /\ faults' = faults - 1
  /\ UNCHANGED <<calls, commands, setting>>

\* A call to the modem succeeds, or fails and uses up a fault.
Succeeds == UNCHANGED budget

\* event_dispatch_work_handler() empties the ring and handles what was in it.
Dispatch ==
  /\ step = "idle" /\ batch = <<>>
  /\ m_event_rb # <<>>
  /\ batch' = m_event_rb
  /\ m_event_rb' = <<>>
  /\ UNCHANGED <<m_state, step, timer, m_flag, bits, request, users, context,
                 using, modem, carried, reconnecting, budget>>

\* timeout_work_handler() runs on the same work queue, so never between two
\* events of one batch.
TimerExpires ==
  /\ step = "idle" /\ batch = <<>>
  /\ timer
  /\ timer' = FALSE
  /\ Delegate(<<"TIMEOUT">>)
  /\ UNCHANGED <<fsm, m_flag, bits, request, users, context, using, modem,
                 carried, reconnecting, budget>>

\* event_handler(): event is the next one, and the state is one of in.
Handle(in, event) ==
  /\ step = "idle"
  /\ batch # <<>> /\ Head(batch) = event
  /\ m_state \in in
  /\ batch' = Tail(batch)
  /\ UNCHANGED <<m_state, users, using, carried, reconnecting>>

\* States with an on_leave() that stops the timer.
StopsTimer == {"BOOT", "PREPARE", "RETRY_DELAY", "ATTACH", "READY", "WAKEUP",
               "SEND"}

\* transition_state(next) where on_leave() does no more than stop the timer.
TransitionTo(next) ==
  /\ step' = next
  /\ timer' = (timer /\ m_state \notin StopsTimer)

Stay == UNCHANGED <<step, timer>>

\* A handler that fails, or an on_leave() whose next state is not ERROR.
Failed == Stay /\ Delegate(<<"ERROR">>)

-----------------------------------------------------------------------------
(* Event handlers that only change the state *)

PlainTransitions ==
  {<<"BOOT", "READY", "PREPARE">>,
   <<"PREPARE", "RESET_LOOP", "RESET_LOOP">>,
   <<"RETRY_DELAY", "TIMEOUT", "BOOT">>,
   <<"ATTACH", "REGISTERED", "OPEN_SOCKET">>,
   <<"ATTACH", "RESET_LOOP", "RESET_LOOP">>,
   <<"ATTACH", "TIMEOUT", "RETRY_DELAY">>,
   <<"OPEN_SOCKET", "DEREGISTERED", "ATTACH">>,
   <<"READY", "XMODMSLEEP", "SLEEP">>,
   <<"READY", "XGPS_ENABLE", "SLEEP">>,
   <<"SLEEP", "SEND", "WAKEUP">>,
   <<"SLEEP", "XGPS_ENABLE", "WAKEUP">>,
   <<"CONEVAL", "READY", "READY">>,
   <<"CONEVAL", "TIMEOUT", "READY">>,
   <<"CONEVAL", "DEREGISTERED", "ATTACH">>}

ErrorTransitions(timed) ==
  {<<s, "TIMEOUT", "ERROR">> : s \in timed} \cup
  {<<s, "ERROR", "ERROR">> : s \in {"BOOT", "PREPARE", "RETRY_DELAY", "ATTACH",
                                   "OPEN_SOCKET", "READY", "WAKEUP", "CONEVAL"}}

TransitionsNoBootTimeout ==
  PlainTransitions \cup ErrorTransitions({"PREPARE", "WAKEUP"})
Transitions ==
  PlainTransitions \cup ErrorTransitions({"BOOT", "PREPARE", "WAKEUP"})

\* With GNSS enabled XMODMSLEEP and XGPS_ENABLE lead from READY to GNSS.
Target(state, event, next) ==
  IF /\ state = "READY" /\ next = "SLEEP"
     /\ Gnss /\ "GNSS_ENABLE" \in m_flag
    THEN "GNSS" ELSE next

Transit ==
  \E t \in Transitions :
    /\ Handle({t[1]}, t[2])
    /\ TransitionTo(Target(t[1], t[2], t[3]))
    /\ UNCHANGED <<m_event_rb, m_flag, bits, request, context, modem, budget>>

ErrorTimeout ==
  /\ Handle({"ERROR"}, "TIMEOUT")
  /\ TransitionTo(on_timeout_state)
  /\ UNCHANGED <<m_event_rb, m_flag, bits, request, context, modem, budget>>

\* on_leave_disabled() fails when the RF multiplexer cannot be acquired.  The
\* state machine then stays in DISABLED with an ERROR event, and tries once
\* more to leave for ERROR.
LeaveDisabled ==
  \E t \in {<<"ENABLE", "BOOT">>, <<"ERROR", "ERROR">>} :
    /\ Handle({"DISABLED"}, t[1])
    /\ m_flag' = m_flag \ {"CSCON", "CFUN4"}
    /\ on_timeout_state' = "DISABLED" /\ flow_check_failures' = 0
    /\ \/ TransitionTo(t[2]) /\ Succeeds /\ UNCHANGED m_event_rb
       \/ Stay /\ Fault("rfmux") /\ Delegate(IF t[2] = "ERROR" THEN <<>> ELSE <<"ERROR">>)
    /\ UNCHANGED <<bits, request, no_psm, modem>>

\* on_leave_reset_loop(): the UART, AT+CFUN=0 and AT+CFUN=1 again, each of which may fail.
Relaunched == [Offline EXCEPT !.uart = TRUE, !.lte = TRUE]
Halfway == {modem, [modem EXCEPT !.uart = TRUE], [Offline EXCEPT !.uart = TRUE]}

LeaveResetLoop ==
  \E t \in {<<"TIMEOUT", "ATTACH">>, <<"ERROR", "ERROR">>} :
    /\ Handle({"RESET_LOOP"}, t[1])
    /\ \/ /\ TransitionTo(t[2])
          /\ modem' = Relaunched
          /\ Succeeds /\ UNCHANGED m_event_rb
       \/ /\ Stay /\ Fault("leave")
          /\ Delegate(IF t[2] = "ERROR" THEN <<>> ELSE <<"ERROR">>)
          /\ modem' \in Halfway
    /\ UNCHANGED <<m_flag, bits, request, context>>

\* +CSCON lines are followed in these states and missed in every other one.
Cscon1Seen == {"ATTACH", "OPEN_SOCKET", "READY", "CONEVAL"}
Cscon0Seen == {"ATTACH", "OPEN_SOCKET", "READY", "CONEVAL", "RECEIVE"}

TrackCscon ==
  /\ \/ Handle(Cscon1Seen, "CSCON_1") /\ m_flag' = m_flag \cup {"CSCON"}
     \/ Handle(Cscon0Seen, "CSCON_0") /\ m_flag' = m_flag \ {"CSCON"}
  /\ Stay
  /\ UNCHANGED <<m_event_rb, bits, request, context, modem, budget>>

-----------------------------------------------------------------------------
(* The other event handlers *)

\* The SIM is there: read it and go on to ATTACH.  When forbidden networks are
\* erased the radio is restarted and the handler waits for another SIMDETECTED,
\* with the timer stopped.
SimDetectedInPrepare ==
  /\ Handle({"PREPARE"}, "SIMDETECTED")
  /\ timer' = FALSE
  /\ \/ step' = "ATTACH" /\ Succeeds /\ UNCHANGED <<m_event_rb, modem>>
     \/ /\ UNCHANGED <<step, m_event_rb>> /\ Fault("fplmn")
        /\ modem' = [Offline EXCEPT !.lte = TRUE, !.sim = TRUE]
     \/ UNCHANGED <<step, modem>> /\ Fault("at") /\ Delegate(<<"ERROR">>)
  /\ UNCHANGED <<m_flag, bits, request, context>>

SocketOpened ==
  /\ Handle({"OPEN_SOCKET"}, "SOCKET_OPENED")
  /\ bits' = bits \cup {"CONNECTED"}
  /\ TransitionTo("CONEVAL")
  /\ UNCHANGED <<m_event_rb, m_flag, request, context, modem, budget>>

\* A SEND in READY; nothing is sent while the radio is off.
ReadySend ==
  /\ Handle({"READY"}, "SEND")
  /\ \/ "CFUN4" \in m_flag /\ Stay /\ Succeeds /\ UNCHANGED m_event_rb
     \/ /\ "CFUN4" \notin m_flag
        /\ timer' = FALSE
        /\ \/ Check = "ok" /\ step' = "SEND" /\ Succeeds /\ UNCHANGED m_event_rb
           \/ /\ UNCHANGED step /\ Delegate(<<"ERROR">>)
              /\ \/ Check # "ok" /\ Succeeds
                 \/ Check = "ok" /\ Fault("check")
  /\ UNCHANGED <<m_flag, bits, request, context, modem>>

ReadyDeregistered ==
  /\ Handle({"READY"}, "DEREGISTERED")
  /\ IF "CFUN4" \in m_flag THEN Stay ELSE TransitionTo("ATTACH")
  /\ UNCHANGED <<m_event_rb, m_flag, bits, request, context, modem, budget>>

\* 500 ms in READY without PSM: close the socket and turn the radio off.  With
\* PSM the case falls through to that of ERROR.
ReadyTimeout ==
  /\ Handle({"READY"}, "TIMEOUT")
  /\ \/ /\ ~no_psm
        /\ TransitionTo("ERROR")
        /\ Succeeds /\ UNCHANGED <<m_event_rb, m_flag, modem>>
     \/ /\ no_psm
        /\ Stay
        /\ \/ /\ m_flag' = m_flag \cup {"CFUN4"}
              /\ modem' = Spared
              /\ Succeeds /\ UNCHANGED m_event_rb
           \/ /\ Fault("at") /\ Delegate(<<"ERROR">>)
              /\ modem' \in {modem, [modem EXCEPT !.socket = FALSE, !.spared = TRUE]}
              /\ UNCHANGED m_flag
  /\ UNCHANGED <<bits, request, context>>

WakeupReady ==
  /\ Handle({"WAKEUP"}, "READY")
  /\ \/ /\ "CFUN4" \notin m_flag
        /\ TransitionTo("READY")
        /\ Succeeds /\ UNCHANGED <<m_event_rb, m_flag, modem>>
     \/ /\ "CFUN4" \in m_flag
        /\ \/ /\ TransitionTo("ATTACH")
              /\ m_flag' = m_flag \ {"CFUN4"}
              /\ modem' = [modem EXCEPT !.lte = TRUE]
              /\ Succeeds /\ UNCHANGED m_event_rb
           \/ Failed /\ Fault("at") /\ UNCHANGED <<m_flag, modem>>
  /\ UNCHANGED <<bits, request, context>>

\* The state machine stops working on the request for now: the result is set,
\* STOP lets a caller that has timed out go, and m_send_recv_param stays set.
Abandon(result, next) ==
  /\ m_send_recv_result' = result
  /\ bits' = bits \cup {"STOP"}
  /\ TransitionTo(next)
  /\ UNCHANGED <<m_event_rb, m_send_recv_param, context, modem, budget>>

SendAbandoned ==
  \/ Handle({"SEND"}, "CSCON_0") /\ m_flag' = m_flag \ {"CSCON"}
       /\ Abandon("ECONNRESET", "READY")
  \/ Handle({"SEND"}, "READY")        /\ Abandon("ETIMEDOUT", "READY") /\ UNCHANGED m_flag
  \/ Handle({"SEND"}, "TIMEOUT")      /\ Abandon("ETIMEDOUT", "READY") /\ UNCHANGED m_flag
  \/ Handle({"SEND"}, "DEREGISTERED") /\ Abandon("ENETDOWN", "ATTACH") /\ UNCHANGED m_flag
  \/ Handle({"SEND"}, "ERROR")        /\ Abandon("EIO", "ERROR") /\ UNCHANGED m_flag

\* The request is answered: result 0, nothing pending and both bits.
Answered(flags) ==
  /\ m_send_recv_result' = "ok"
  /\ m_flag' = flags \ Pending
  /\ bits' = bits \cup {"DONE", "STOP"}

\* The caller of the request passed a receive buffer.
AwaitsAnswer == "RECV_PENDING" \in m_flag

\* CSCON_1, or a SEND that says that the connection was up already.
SendConnected ==
  \E event \in {"CSCON_1", "SEND"} :
    /\ Handle({"SEND"}, event)
    /\ LET flags == m_flag \cup (IF event = "CSCON_1" THEN {"CSCON"} ELSE {})
       IN IF AwaitsAnswer
            THEN /\ step' = "RECEIVE"
                 /\ m_flag' = flags
                 /\ UNCHANGED <<m_send_recv_result, bits>>
            ELSE step' = "CONEVAL" /\ Answered(flags)
    /\ timer' = FALSE
    /\ UNCHANGED <<m_event_rb, m_send_recv_param, context, modem, budget>>

\* on_leave_receive() posts STOP; a result is only set on the way.
ReceiveLeft ==
  \E t \in {<<"RECV", "CONEVAL", m_send_recv_result>>,
            <<"READY", "READY", m_send_recv_result>>,
            <<"TIMEOUT", "READY", "ETIMEDOUT">>,
            <<"DEREGISTERED", "ATTACH", "ENETDOWN">>,
            <<"ERROR", "ERROR", "EIO">>} :
    /\ Handle({"RECEIVE"}, t[1])
    /\ Abandon(t[3], t[2])
    /\ UNCHANGED m_flag

\* on_leave_gnss() stops the satellite receiver and, without PSM, turns the
\* radio on again.
GnssLeft == [modem EXCEPT !.lte = @ \/ no_psm]

LeaveGnss ==
  \E event \in {"SEND", "XGPS_DISABLE"} :
    /\ Handle({"GNSS"}, event)
    /\ \/ /\ TransitionTo(IF no_psm THEN "ATTACH" ELSE "READY")
          /\ modem' = GnssLeft
          /\ Succeeds /\ UNCHANGED m_event_rb
       \/ Failed /\ Fault("leave") /\ UNCHANGED modem
    /\ UNCHANGED <<m_flag, bits, request, context>>

\* The cases of the handlers above, beside Transitions.
OtherCases ==
  ({"DISABLED"} \X {"ENABLE", "ERROR"}) \cup ({"ERROR"} \X {"TIMEOUT"}) \cup
  ({"PREPARE"} \X {"SIMDETECTED"}) \cup ({"OPEN_SOCKET"} \X {"SOCKET_OPENED"}) \cup
  ({"RESET_LOOP"} \X {"TIMEOUT", "ERROR"}) \cup
  ({"READY"} \X {"SEND", "TIMEOUT", "DEREGISTERED"}) \cup ({"WAKEUP"} \X {"READY"}) \cup
  ({"SEND"} \X {"CSCON_0", "CSCON_1", "SEND", "READY", "TIMEOUT", "DEREGISTERED", "ERROR"}) \cup
  ({"RECEIVE"} \X {"RECV", "TIMEOUT", "READY", "DEREGISTERED", "ERROR"}) \cup
  ({"GNSS"} \X {"SEND", "XGPS_DISABLE"}) \cup
  (Cscon1Seen \X {"CSCON_1"}) \cup (Cscon0Seen \X {"CSCON_0"})

\* Every event a state's handler has no case for.
Ignored(state) ==
  {e \in Events : /\ <<state, e>> \notin OtherCases
                  /\ \A t \in Transitions : <<t[1], t[2]>> # <<state, e>>}

Ignore ==
  /\ \E event \in Ignored(m_state) : Handle({m_state}, event)
  /\ Stay
  /\ UNCHANGED <<m_event_rb, m_flag, bits, request, context, modem, budget>>

-----------------------------------------------------------------------------
(* Entering a state *)

\* entering_state(): m_state is set first; an on_enter() that fails delegates
\* ERROR, except that of the state ERROR.
Enter(state) ==
  /\ step = state
  /\ m_state' = state
  /\ step' = "idle"
  /\ UNCHANGED <<batch, users, carried, reconnecting>>

Start == timer' = TRUE /\ UNCHANGED m_event_rb

\* ON_ERROR_MAX_FLOW_CHECK_RETRIES: the third failure in a row is the last.
RetryLeftTooLong == flow_check_failures < 3
RetryLeft == flow_check_failures + 1 < 3

\* flow_check() good: READY in 5 s.  No socket: OPEN_SOCKET in 5 s, twice in a
\* row.  Otherwise: the UART off and BOOT after a growing delay.
EnterError ==
  /\ Enter("ERROR")
  /\ \E check \in {"ok", "no_socket", "down"} :
       /\ \/ check = Check /\ Succeeds
          \/ check = "down" /\ Check # "down" /\ Fault("check")
       /\ bits' = IF check = "ok" THEN bits ELSE bits \ {"CONNECTED"}
       /\ LET retry == check = "no_socket" /\ RetryLeft
          IN /\ on_timeout_state' = (IF check = "ok" THEN "READY"
                                     ELSE IF retry THEN "OPEN_SOCKET" ELSE "BOOT")
             /\ flow_check_failures' = (IF retry THEN flow_check_failures + 1
                                        ELSE IF check = "down" THEN flow_check_failures
                                        ELSE 0)
             /\ modem' = [modem EXCEPT !.uart = @ /\ (check = "ok" \/ retry)]
  /\ Start
  /\ UNCHANGED <<m_flag, request, no_psm, using>>

\* A hardware reset, then the UART.  The modem says Ready when it is up.
EnterBoot ==
  /\ Enter("BOOT")
  /\ \/ /\ modem' = [Offline EXCEPT !.uart = TRUE, !.ready = TRUE, !.awake = TRUE]
        /\ Start /\ Succeeds
     \/ /\ Fault("at")
        /\ modem' \in {modem, [Offline EXCEPT !.ready = TRUE]}
        /\ Delegate(<<"ERROR">>) /\ UNCHANGED timer
  /\ UNCHANGED <<m_flag, bits, request, context, using>>

EnterPrepare ==
  /\ Enter("PREPARE")
  /\ \/ /\ modem' = [modem EXCEPT !.lte = TRUE, !.sim = TRUE]
        /\ Start /\ Succeeds
     \/ /\ Fault("at")
        /\ Delegate(<<"ERROR">>) /\ UNCHANGED <<timer, modem>>
  /\ UNCHANGED <<m_flag, bits, request, context, using>>

\* AT+CFUN=4, 5 s, UART off, 32 minutes.
EnterResetLoop ==
  /\ Enter("RESET_LOOP")
  /\ \/ modem' = [Offline EXCEPT !.uart = FALSE] /\ Start /\ Succeeds
     \/ /\ Fault("at")
        /\ modem' \in {modem, [Offline EXCEPT !.uart = FALSE]}
        /\ Delegate(<<"ERROR">>) /\ UNCHANGED timer
  /\ UNCHANGED <<m_flag, bits, request, context, using>>

EnterRetryDelay ==
  /\ Enter("RETRY_DELAY")
  /\ modem' = [Offline EXCEPT !.uart = FALSE]
  /\ \/ Start /\ Succeeds
     \/ Fault("at") /\ Delegate(<<"ERROR">>) /\ UNCHANGED timer
  /\ UNCHANGED <<m_flag, bits, request, context, using>>

EnterAttachKeepsConnected ==
  /\ Enter("ATTACH")
  /\ Start
  /\ UNCHANGED <<m_flag, bits, request, context, using, modem, budget>>

EnterAttach ==
  /\ Enter("ATTACH")
  /\ bits' = bits \ {"CONNECTED"}
  /\ Start
  /\ UNCHANGED <<m_flag, request, context, using, modem, budget>>

\* AT#XSOCKET opens the socket and AT#XCONNECT, the last command, may still fail.
EnterOpenSocket ==
  /\ Enter("OPEN_SOCKET")
  /\ bits' = bits \ {"CONNECTED"}
  /\ \/ /\ Check # "down" /\ Succeeds
        /\ modem' = [modem EXCEPT !.socket = TRUE, !.spared = FALSE]
        /\ Delegate(<<"SOCKET_OPENED">>)
     \/ /\ \/ Check = "down" /\ Succeeds
           \/ Check # "down" /\ Fault("at")
        /\ modem' \in {modem, [modem EXCEPT !.socket = @ \/ Check # "down"]}
        /\ Delegate(<<"ERROR">>)
  /\ UNCHANGED <<timer, m_flag, request, context, using>>

EnterReadyGnssFirst ==
  /\ Enter("READY")
  /\ IF Gnss /\ "GNSS_ENABLE" \in m_flag
       THEN Delegate(<<"XGPS_ENABLE">>) /\ UNCHANGED <<timer, no_psm>>
       ELSE IF m_send_recv_param # NoCaller
         THEN Delegate(<<"SEND">>) /\ UNCHANGED <<timer, no_psm>>
         ELSE /\ no_psm' = ~modem.psm
              /\ timer' = (timer \/ ~modem.psm)
              /\ UNCHANGED m_event_rb
  /\ UNCHANGED <<m_flag, bits, request, on_timeout_state, flow_check_failures,
                 using, modem, budget>>

\* A request that is still set is sent again.
EnterReady ==
  /\ Enter("READY")
  /\ IF m_send_recv_param # NoCaller
       THEN Delegate(<<"SEND">>) /\ UNCHANGED <<timer, no_psm>>
       ELSE IF Gnss /\ "GNSS_ENABLE" \in m_flag
         THEN Delegate(<<"XGPS_ENABLE">>) /\ UNCHANGED <<timer, no_psm>>
         ELSE /\ no_psm' = ~modem.psm
              /\ timer' = (timer \/ ~modem.psm)
              /\ UNCHANGED m_event_rb
  /\ UNCHANGED <<m_flag, bits, request, on_timeout_state, flow_check_failures,
                 using, modem, budget>>

EnterSleep ==
  /\ Enter("SLEEP")
  /\ modem' = [modem EXCEPT !.uart = FALSE]
  /\ \/ /\ Succeeds
        /\ Delegate(IF m_send_recv_param # NoCaller THEN <<"SEND">> ELSE <<>>)
     \/ modem.uart /\ Fault("uart") /\ Delegate(<<"ERROR">>)
  /\ UNCHANGED <<timer, m_flag, bits, request, context, using>>

EnterWakeup ==
  /\ Enter("WAKEUP")
  /\ \/ /\ modem' = [modem EXCEPT !.uart = TRUE, !.ready = @ \/ ~modem.uart,
                                  !.awake = TRUE]
        /\ Start /\ Succeeds
     \/ Fault("at") /\ Delegate(<<"ERROR">>) /\ UNCHANGED <<timer, modem>>
  /\ UNCHANGED <<m_flag, bits, request, context, using>>

EnterSendUnchecked ==
  /\ step = "SEND" /\ step' = "prepare_send" /\ m_state' = "SEND"
  /\ UNCHANGED <<batch, users, carried, reconnecting, m_event_rb, timer, m_flag,
                 bits, request, context, using, modem, budget>>

\* A SEND whose request has been answered or withdrawn goes back to READY.
EnterSend ==
  /\ IF "SEND_PENDING" \in m_flag
       THEN /\ step = "SEND" /\ step' = "prepare_send" /\ m_state' = "SEND"
            /\ UNCHANGED <<batch, users, carried, reconnecting, m_event_rb>>
       ELSE Enter("SEND") /\ Delegate(<<"READY">>)
  /\ UNCHANGED <<timer, m_flag, bits, request, context, using, modem, budget>>

\* Clear STOP and follow m_send_recv_param.
PrepareSend ==
  /\ step = "prepare_send"
  /\ step' = "sending"
  /\ bits' = bits \ {"STOP"}
  /\ using' = m_send_recv_param
  /\ UNCHANGED <<m_state, batch, m_event_rb, timer, m_flag, request, context,
                 modem, users, carried, reconnecting, budget>>

\* What the modem has done for the request in use.
Carried(what) ==
  carried' = [c \in Callers |-> IF c = using THEN carried[c] \cup {what} ELSE carried[c]]

\* ctr_lte_v2_flow_send() comes back; with a connection up SEND stands in for
\* the +CSCON: 1 that will not come.
FlowSend ==
  /\ step = "sending"
  /\ step' = "idle"
  /\ using' = NoCaller
  /\ \/ /\ Succeeds
        /\ Carried("sent")
        /\ modem' = [modem EXCEPT !.tx = ~modem.rrc, !.awake = TRUE]
        /\ timer' = TRUE
        /\ Delegate(IF "CSCON" \in m_flag THEN <<"SEND">> ELSE <<>>)
        /\ UNCHANGED m_send_recv_result
     \/ /\ Fault("send")
        /\ m_send_recv_result' = "EIO"
        /\ Delegate(<<"ERROR">>)
        /\ UNCHANGED <<carried, modem, timer>>
  /\ UNCHANGED <<m_state, batch, m_flag, bits, m_send_recv_param, context,
                 users, reconnecting>>

EnterReceive ==
  /\ IF AwaitsAnswer
       THEN /\ step = "RECEIVE" /\ step' = "receiving" /\ m_state' = "RECEIVE"
            /\ using' = m_send_recv_param
            /\ UNCHANGED <<batch, users, carried, reconnecting, m_event_rb>>
       ELSE Enter("RECEIVE") /\ Delegate(<<"READY">>) /\ UNCHANGED using
  /\ UNCHANGED <<timer, m_flag, bits, request, context, modem, budget>>

\* ctr_lte_v2_flow_recv() comes back, after 5 s at most.
FlowRecv ==
  /\ step = "receiving"
  /\ step' = "idle"
  /\ using' = NoCaller
  /\ \/ /\ Succeeds
        /\ Carried("received")
        /\ Delegate(<<"RECV">>)
        /\ Answered(m_flag)
     \/ /\ Fault("recv")
        /\ m_send_recv_result' = "EIO"
        /\ Delegate(<<"ERROR">>)
        /\ UNCHANGED <<carried, m_flag, bits>>
  /\ UNCHANGED <<m_state, batch, timer, m_send_recv_param, context, modem,
                 users, reconnecting>>

EnterConeval ==
  /\ Enter("CONEVAL")
  /\ \/ Succeeds /\ Delegate(<<"READY">>)
     \/ Fault("at") /\ Delegate(<<"ERROR">>)
  /\ UNCHANGED <<timer, m_flag, bits, request, context, using, modem>>

\* Without PSM the radio is turned off while the satellite receiver runs.
EnterGnss ==
  /\ Enter("GNSS")
  /\ no_psm' = ~modem.psm
  /\ \/ modem' = (IF modem.psm THEN modem ELSE Spared) /\ Succeeds /\ UNCHANGED m_event_rb
     \/ /\ Fault("at") /\ Delegate(<<"ERROR">>)
        /\ modem' \in {modem, IF modem.psm THEN modem ELSE Spared}
  /\ UNCHANGED <<timer, m_flag, bits, request, on_timeout_state,
                 flow_check_failures, using>>

-----------------------------------------------------------------------------
(* ctr_lte_v2_send_recv() *)

MayEnterUnlocked == TRUE
MayEnter == m_send_recv_lock = NoCaller \/ FiniteTimeout

\* A caller does not wait between these lines: it has the mutex, or, after its
\* timeout, goes on without it.
Submit(c) ==
  /\ pc[c] = "idle"
  /\ calls > 0 /\ calls' = calls - 1
  /\ MayEnter
  /\ setting.alone => \A d \in Callers : pc[d] = "idle"
  /\ m_send_recv_lock' = IF m_send_recv_lock = NoCaller THEN c ELSE m_send_recv_lock
  /\ pc' = [pc EXCEPT ![c] = "waiting"]
  /\ m_send_recv_param' = c
  /\ m_send_recv_result' = "ETIMEDOUT"
  /\ bits' = bits \ {"DONE", "STOP"}
  /\ \E recv \in BOOLEAN :
       /\ wants' = [wants EXCEPT ![c] = recv]
       /\ m_flag' = m_flag \cup {"SEND_PENDING"} \cup (IF recv THEN {"RECV_PENDING"} ELSE {})
  /\ carried' = [carried EXCEPT ![c] = {}]
  /\ Delegate(<<"SEND">>)
  /\ UNCHANGED <<fsm, timer, context, using, modem, reconnecting, commands,
                 faults, setting>>

\* The flags and the request are cleared and the caller returns; what the model
\* remembers of the call is forgotten.
Return(c) ==
  /\ pc' = [pc EXCEPT ![c] = "idle"]
  /\ wants' = [wants EXCEPT ![c] = FALSE]
  /\ carried' = [carried EXCEPT ![c] = {}]
  /\ m_flag' = m_flag \ Pending
  /\ m_send_recv_param' = NoCaller
  /\ m_send_recv_lock' = IF m_send_recv_lock = c THEN NoCaller ELSE m_send_recv_lock
  /\ UNCHANGED <<fsm, timer, bits, m_send_recv_result, context, using, modem,
                 reconnecting, budget>>

\* The answer: the caller returns m_send_recv_result.
Done(c) ==
  /\ pc[c] = "waiting" /\ "DONE" \in bits
  /\ Return(c)
  /\ UNCHANGED m_event_rb

\* The soft timeout: wait for the state machine to stop working on the request.
GiveUp(c) ==
  /\ FiniteTimeout
  /\ pc[c] = "waiting" /\ "DONE" \notin bits
  /\ pc' = [pc EXCEPT ![c] = "stopping"]
  /\ UNCHANGED <<fsm, m_event_rb, timer, m_flag, bits, request,
                 m_send_recv_lock, context, using, modem, wants, carried,
                 reconnecting, budget>>

\* The state machine has let go of the request: again m_send_recv_result.
Stopped(c) ==
  /\ pc[c] = "stopping" /\ "STOP" \in bits
  /\ Return(c)
  /\ UNCHANGED m_event_rb

\* FSM_STOP_TIMEOUT: 30 s, in which the work queue gets to where it waits.  The
\* caller returns -EFAULT.
Stuck(c) ==
  /\ step = "idle" /\ batch = <<>> /\ m_event_rb = <<>>
  /\ pc[c] = "stopping" /\ "STOP" \notin bits
  /\ Return(c)
  /\ Delegate(<<"ERROR">>)

-----------------------------------------------------------------------------
(* ctr_lte_v2_enable(), _gnss_set_enable() and _reconnect() *)

Command ==
  /\ commands > 0 /\ commands' = commands - 1
  /\ UNCHANGED <<calls, faults, setting>>

Enable ==
  /\ Command
  /\ Delegate(<<"ENABLE">>)
  /\ UNCHANGED <<fsm, timer, m_flag, bits, request, users, context, using,
                 modem, carried, reconnecting>>

GnssSetEnable ==
  /\ Gnss
  /\ Command
  /\ \/ m_flag' = m_flag \cup {"GNSS_ENABLE"} /\ Delegate(<<"XGPS_ENABLE">>)
     \/ m_flag' = m_flag \ {"GNSS_ENABLE"} /\ Delegate(<<"XGPS_DISABLE">>)
  /\ UNCHANGED <<fsm, timer, bits, request, users, context, using, modem,
                 carried, reconnecting>>

\* States whose on_leave() talks to the modem, and waits.
SlowToLeave == {"RESET_LOOP", "GNSS"}

\* The caller's own thread empties the ring, leaves the state and enters
\* DISABLED; events already taken out of the ring are still handled.
Reconnect ==
  /\ Reconnects /\ reconnecting \in {"never", "done"}
  /\ m_state # "DISABLED"
  /\ Command
  /\ m_event_rb' = <<>>
  /\ timer' = FALSE
  /\ IF m_state \in SlowToLeave
       THEN reconnecting' = m_state /\ UNCHANGED m_state
       ELSE reconnecting' = "now" /\ m_state' = "DISABLED"
  /\ bits' = IF m_state = "RECEIVE" THEN bits \cup {"STOP"} ELSE bits
  /\ UNCHANGED <<step, batch, m_flag, request, users, context, using, modem, carried>>

\* on_leave_reset_loop() or on_leave_gnss() is through, while the work queue went on.  One
\* that fails keeps the state, and its ERROR comes before the ENABLE of the reconnect.
LeftToReconnect ==
  /\ reconnecting \in SlowToLeave
  /\ \/ /\ Succeeds
        /\ reconnecting' = "now" /\ m_state' = "DISABLED"
        /\ modem' = IF reconnecting = "GNSS" THEN GnssLeft ELSE Relaunched
        /\ UNCHANGED m_event_rb
     \/ /\ Fault("leave")
        /\ reconnecting' = "done" /\ UNCHANGED m_state
        /\ modem' \in IF reconnecting = "GNSS" THEN {modem} ELSE Halfway
        /\ Delegate(<<"ERROR", "ENABLE">>)
  /\ UNCHANGED <<step, batch, timer, m_flag, bits, request, users, context, using, carried>>

ReconnectedUnannounced ==
  /\ reconnecting = "now"
  /\ reconnecting' = "done"
  /\ modem' = [modem EXCEPT !.uart = FALSE]
  /\ UNCHANGED <<fsm, m_event_rb, timer, m_flag, bits, request, users, context,
                 using, carried, budget>>

\* on_enter_disabled() is through: the UART off and the RF multiplexer released.  When it
\* is not, an ERROR comes before the ENABLE.
Reconnected ==
  /\ reconnecting = "now"
  /\ reconnecting' = "done"
  /\ modem' = [modem EXCEPT !.uart = FALSE]
  /\ \/ Succeeds /\ Delegate(<<"ENABLE">>)
     \/ Fault("release") /\ Delegate(<<"ERROR", "ENABLE">>)
  /\ UNCHANGED <<fsm, timer, m_flag, bits, request, users, context, using,
                 carried>>

-----------------------------------------------------------------------------
(* Lines from the modem (external) *)

\* process_urc(): the modem changes, and its line is delegated when the UART
\* runs.  Lines are rare beside the steps of the work queue: MaxLines.
Line(event, changed) ==
  /\ Len(batch) + Len(m_event_rb) < MaxLines
  /\ modem' = changed
  /\ Delegate(IF modem.uart THEN <<event>> ELSE <<>>)
  /\ UNCHANGED <<fsm, timer, m_flag, bits, request, users, context, using,
                 carried, reconnecting>>

ModemReady ==
  /\ modem.ready /\ modem.uart
  /\ Line("READY", [modem EXCEPT !.ready = FALSE])
  /\ UNCHANGED budget

SimDetected ==
  /\ modem.sim /\ modem.uart
  /\ Line("SIMDETECTED", [modem EXCEPT !.sim = FALSE])
  /\ UNCHANGED budget

Registered ==
  /\ modem.lte /\ ~modem.registered
  /\ \E granted \in IF modem.uart THEN Psm ELSE {modem.psm} :
       Line("REGISTERED", [modem EXCEPT !.registered = TRUE, !.psm = granted])
  /\ UNCHANGED budget

Deregistered ==
  /\ modem.registered /\ Fault("deregistered")
  /\ Line("DEREGISTERED", [modem EXCEPT !.registered = FALSE, !.rrc = FALSE,
                                        !.psm = @ \/ modem.uart])

\* Data that waits brings a radio connection up, and idle time ends it.
Connected ==
  /\ modem.registered /\ modem.tx /\ ~modem.rrc
  /\ Line("CSCON_1", [modem EXCEPT !.rrc = TRUE, !.tx = FALSE])
  /\ UNCHANGED budget

Released ==
  /\ modem.rrc
  /\ Line("CSCON_0", [modem EXCEPT !.rrc = FALSE])
  /\ UNCHANGED budget

\* %XMODEMSLEEP with a sleep time (PSM), or for flight mode.
ModemSleeps ==
  /\ modem.awake /\ ~modem.rrc /\ ~modem.tx /\ modem.uart
  /\ \/ modem.psm /\ modem.registered
     \/ ~modem.lte /\ "CFUN4" \in m_flag
  /\ Line("XMODMSLEEP", [modem EXCEPT !.awake = FALSE])
  /\ UNCHANGED budget

ResetLoop ==
  /\ modem.uart /\ Fault("reset_loop")
  /\ Line("RESET_LOOP", modem)

\* The network closes the PDN connection and the socket with it: no line.
SocketLost ==
  /\ modem.socket /\ Fault("socket")
  /\ modem' = [modem EXCEPT !.socket = FALSE, !.spared = TRUE]
  /\ UNCHANGED <<fsm, m_event_rb, timer, m_flag, bits, request, users, context,
                 using, carried, reconnecting>>

-----------------------------------------------------------------------------

Init ==
  /\ m_state = "DISABLED" /\ step = "idle"
  /\ batch = <<>> /\ m_event_rb = <<>>
  /\ timer = FALSE
  /\ m_flag = {} /\ bits = {}
  /\ m_send_recv_param = NoCaller /\ m_send_recv_result = "ok"
  /\ m_send_recv_lock = NoCaller
  /\ on_timeout_state = "DISABLED" /\ flow_check_failures = 0
  /\ no_psm = FALSE
  /\ using = NoCaller
  /\ modem = [f \in ModemFlags |-> f = "psm"]
  /\ pc = [c \in Callers |-> "idle"]
  /\ wants = [c \in Callers |-> FALSE]
  /\ carried = [c \in Callers |-> {}]
  /\ reconnecting = "never"
  /\ setting \in Settings
  /\ calls = setting.calls /\ commands = setting.commands
  /\ faults = setting.maxfaults

HandleEvent ==
  \/ Transit \/ ErrorTimeout \/ LeaveDisabled \/ LeaveResetLoop \/ LeaveGnss
  \/ TrackCscon \/ SimDetectedInPrepare \/ SocketOpened
  \/ ReadySend \/ ReadyDeregistered \/ ReadyTimeout \/ WakeupReady
  \/ SendAbandoned \/ SendConnected \/ ReceiveLeft
  \/ Ignore

EnterState ==
  \/ EnterError \/ EnterBoot \/ EnterPrepare \/ EnterResetLoop
  \/ EnterRetryDelay \/ EnterAttach \/ EnterOpenSocket \/ EnterReady
  \/ EnterSleep \/ EnterWakeup \/ EnterSend \/ EnterReceive \/ EnterConeval
  \/ EnterGnss

WorkQueue ==
  \/ Dispatch \/ HandleEvent \/ EnterState
  \/ PrepareSend \/ FlowSend \/ FlowRecv

Caller(c) == Submit(c) \/ Done(c) \/ GiveUp(c) \/ Stopped(c) \/ Stuck(c)

Api == Enable \/ GnssSetEnable \/ Reconnect \/ LeftToReconnect \/ Reconnected

ModemAnswers == ModemReady \/ SimDetected \/ Registered \/ Connected

Next ==
  \/ WorkQueue
  \/ TimerExpires
  \/ \E c \in Callers : Caller(c)
  \/ Api
  \/ ModemAnswers
  \/ Released \/ ModemSleeps
  \/ Deregistered \/ ResetLoop \/ SocketLost

Spec == Init /\ [][Next]_vars

-----------------------------------------------------------------------------
(* Properties *)

\* Every variable has its type: no more events than the ring holds, and no more
\* than ON_ERROR_MAX_FLOW_CHECK_RETRIES failures counted by on_enter_error().
TypeOK ==
  /\ m_state \in States
  /\ step \in States \cup {"idle", "prepare_send", "sending", "receiving"}
  /\ batch \in Seq(Events) /\ m_event_rb \in Seq(Events)
  /\ Len(batch) <= RingSize /\ Len(m_event_rb) <= RingSize
  /\ timer \in BOOLEAN
  /\ m_flag \subseteq Flags /\ bits \subseteq Bits
  /\ m_send_recv_param \in Callers \cup {NoCaller}
  /\ m_send_recv_result \in Results
  /\ m_send_recv_lock \in Callers \cup {NoCaller}
  /\ on_timeout_state \in {"DISABLED", "READY", "OPEN_SOCKET", "BOOT"}
  /\ flow_check_failures \in 0..2
  /\ no_psm \in BOOLEAN
  /\ using \in Callers \cup {NoCaller}
  /\ modem \in [ModemFlags -> BOOLEAN]
  /\ pc \in [Callers -> {"idle", "waiting", "stopping"}]
  /\ wants \in [Callers -> BOOLEAN]
  /\ carried \in [Callers -> SUBSET {"sent", "received"}]
  /\ reconnecting \in {"never", "now", "done"} \cup SlowToLeave
  /\ setting \in Settings
  /\ calls \in 0..setting.calls /\ commands \in 0..setting.commands
  /\ faults \in 0..setting.maxfaults

\* on_enter_send() and on_enter_receive() follow m_send_recv_param through a
\* blocking call: always to the buffers of a caller that is still inside
\* ctr_lte_v2_send_recv(), never to a stack frame that is gone.  Callers with a timeout
\* are excepted: one that was told to STOP may come back while its request is under way.
ParamValid ==
  ~FiniteTimeout /\ step \in {"sending", "receiving"} =>
    using # NoCaller /\ pc[using] # "idle"

\* The wait of the caller is over and m_send_recv_result is 0.
ReturnsZero(c) ==
  /\ m_send_recv_result = "ok"
  /\ \/ pc[c] = "waiting" /\ "DONE" \in bits
     \/ pc[c] = "stopping" /\ "STOP" \in bits

\* ctr_lte_v2_send_recv() returns 0 only when ctr_lte_v2_flow_send() has given
\* the modem the caller's own datagram.
SuccessMeansSent ==
  \A c \in Callers :
    ReturnsZero(c) => "sent" \in carried[c]

\* ctr_lte_v2_send_recv() returns 0 to a caller with a receive buffer only when
\* ctr_lte_v2_flow_recv() has filled that buffer during this very call.
SuccessMeansReceived ==
  \A c \in Callers :
    ReturnsZero(c) /\ wants[c] => "received" \in carried[c]

\* ctr_lte_v2_wait_for_connected() returns 0, and ctr_lte_v2_is_attached() says so,
\* only while the modem has its socket.
ConnectedMeansConnected == "CONNECTED" \in bits => modem.socket

\* The same but for three cases: a socket that the network has closed without a word,
\* until the next ctr_lte_v2_flow_check(); one closed to save power without PSM, in READY
\* or for GNSS, until the modem attaches again; and all that follows a call of
\* ctr_lte_v2_reconnect().  Whatever else takes the socket away, a failure on the way to
\* it, a modem that boots, attaches anew or leaves a reset loop, CONNECTED goes first. (A
\* SOCKET_OPENED handled only after the modem was restarted would set it again, for which a
\* batch of more events is needed than MaxLines admits.)
ConnectedHasSocket ==
  "CONNECTED" \in bits /\ reconnecting = "never" => modem.socket \/ modem.spared

\* Somebody works on the state machine, or will when the timer expires: the work queue, or
\* ctr_lte_v2_reconnect() inside the on_leave() of the present state.
Busy == step # "idle" \/ batch # <<>> \/ m_event_rb # <<>> \/ timer \/ m_state = reconnecting

\* PREPARE has stopped its timer and waits for the second %XSIM line, which a modem
\* whose forbidden networks were erased still has to write.
WaitsForSim == m_state = "PREPARE" /\ modem.sim /\ modem.uart

\* In a state that it must leave by itself the state machine has an event to
\* handle or a timer that runs: no handler, on_leave() or on_enter(), called from the work
\* queue or from ctr_lte_v2_reconnect(), stops the timer without starting another or
\* delegating an event.  The one exception is WaitsForSim: there all depends on one line
\* of the modem.
NeverStalls ==
  m_state \notin {"DISABLED", "READY", "SLEEP", "GNSS"} => Busy \/ WaitsForSim

\* ctr_lte_v2_reconnect() never leaves the modem switched off: whatever event, timer or
\* call it races with, and whether the RF multiplexer is released and the old state is
\* left as it should or not, once it is through an event waits in DISABLED.
ReconnectResumes ==
  m_state = "DISABLED" /\ reconnecting = "done" => Busy

\* A request of ctr_lte_v2_send_recv() that nobody has answered is remembered by
\* on_enter_ready(), on_enter_sleep() or a SEND event: the state machine works on
\* it, or waits for the modem to sleep in flight mode, or is switched off.
RequestNotForgotten ==
  \A c \in Callers :
    pc[c] = "waiting" /\ "DONE" \notin bits /\ m_state # "DISABLED" =>
      Busy \/ WaitsForSim \/ (m_state = "READY" /\ "CFUN4" \in m_flag)
=============================================================================
