--------------------------- MODULE CtrLteV2Proofs ----------------------------
(***************************************************************************)
(* Theorems about CtrLteV2, for every set of callers, size of the ring     *)
(* and configuration of the code, with any faults and bounds.              *)
(***************************************************************************)
EXTENDS CtrLteV2, SequenceTheorems, TLAPS

-----------------------------------------------------------------------------
(* Type correctness *)

\* A ring that is full stores nothing more.
LEMMA DelegatedTyped ==
  ASSUME TypeOK, NEW events \in Seq(Events)
  PROVE  Delegated(events) \in Seq(Events) /\ Len(Delegated(events)) <= RingSize
<1> DEFINE all == m_event_rb \o events
           n == IF Len(all) < RingSize THEN Len(all) ELSE RingSize
<1>1. all \in Seq(Events) /\ Len(all) \in Nat
  BY ConcatProperties DEF TypeOK
<1>2. n \in Nat /\ n <= RingSize /\ n <= Len(all)
  BY <1>1, LteAssumption
<1>3. \A i \in 1..n : all[i] \in Events
  <2> TAKE i \in 1..n
  <2>1. i \in 1..Len(all)
    BY <1>1, <1>2
  <2> HIDE DEF all
  <2> QED
    BY <1>1, <2>1, ElementOfSeq
<1> HIDE DEF all, n
<1>4. SubSeq(all, 1, n) \in Seq(Events) /\ Len(SubSeq(all, 1, n)) = n
  <2>1. /\ SubSeq(all, 1, n) \in Seq(Events)
        /\ Len(SubSeq(all, 1, n)) = IF 1 <= n THEN n - 1 + 1 ELSE 0
    BY <1>2, <1>3, SubSeqProperties
  <2> QED
    BY <1>2, <2>1
<1>5. Delegated(events) = SubSeq(all, 1, n)
  BY DEF Delegated, all, n
<1> QED
  BY <1>2, <1>4, <1>5

\* What delegate_event() is called with.
LEMMA RingTyped ==
  ASSUME TypeOK, NEW events, Delegate(events),
         events = <<>> \/ (\E e \in Events : events = <<e>>)
                        \/ (\E e, f \in Events : events = <<e, f>>)
  PROVE  m_event_rb' \in Seq(Events) /\ Len(m_event_rb') <= RingSize
<1>1. CASE events = <<>>
  BY <1>1, DelegatedTyped, EmptySeq DEF Delegate
<1>2. ASSUME NEW e \in Events, events = <<e>>
      PROVE  m_event_rb' \in Seq(Events) /\ Len(m_event_rb') <= RingSize
  <2>1. <<e>> \in Seq(Events)
    OBVIOUS
  <2> QED
    BY <1>2, <2>1, DelegatedTyped DEF Delegate
<1>3. ASSUME NEW e \in Events, NEW f \in Events, events = <<e, f>>
      PROVE  m_event_rb' \in Seq(Events) /\ Len(m_event_rb') <= RingSize
  <2>1. <<e, f>> \in Seq(Events)
    OBVIOUS
  <2> QED
    BY <1>3, <2>1, DelegatedTyped DEF Delegate
<1> QED
  BY <1>1, <1>2, <1>3

\* The state that a transition leads to.
LEMMA TransitionTargets ==
  ASSUME NEW t \in Transitions
  PROVE  /\ t[3] \in States
         /\ t[3] \in {"BOOT", "PREPARE", "RESET_LOOP", "RETRY_DELAY"} =>
              t[1] \in {"BOOT", "PREPARE", "RETRY_DELAY", "ATTACH"}
         /\ t[3] # "DISABLED"
<1>1. CASE t \in PlainTransitions
  BY <1>1 DEF PlainTransitions, States
<1>2. CASE t \in ErrorTransitions({"BOOT", "PREPARE", "WAKEUP"})
  BY <1>2 DEF ErrorTransitions, States
<1> QED
  BY <1>1, <1>2 DEF Transitions

LEMMA TypedInit == Init => TypeOK
<1> SUFFICES ASSUME Init PROVE TypeOK
  OBVIOUS
<1>1. batch \in Seq(Events) /\ m_event_rb \in Seq(Events)
      /\ Len(batch) <= RingSize /\ Len(m_event_rb) <= RingSize
  BY LteAssumption, EmptySeq DEF Init
<1>2. /\ setting \in Settings /\ calls \in 0..setting.calls
      /\ commands \in 0..setting.commands /\ faults \in 0..setting.maxfaults
  BY LteAssumption DEF Init, Setting
<1>3. modem \in [ModemFlags -> BOOLEAN]
  BY DEF Init
<1>7. m_state \in States
  BY DEF Init, States
<1>4. /\ step = "idle" /\ timer = FALSE /\ no_psm = FALSE
      /\ m_flag = {} /\ bits = {} /\ reconnecting = "never"
      /\ on_timeout_state = "DISABLED" /\ flow_check_failures = 0
  BY DEF Init
<1>8. m_send_recv_result \in Results
  BY DEF Init, Results
<1>5. /\ pc \in [Callers -> {"idle", "waiting", "stopping"}]
      /\ wants \in [Callers -> BOOLEAN]
      /\ carried \in [Callers -> SUBSET {"sent", "received"}]
  BY DEF Init
<1>6. m_send_recv_param = NoCaller /\ m_send_recv_lock = NoCaller /\ using = NoCaller
  BY DEF Init
<1>9. timer \in BOOLEAN /\ no_psm \in BOOLEAN
  BY <1>4, Zenon
<1>10. m_flag \subseteq Flags /\ bits \subseteq Bits /\ flow_check_failures \in 0..2
  BY <1>4
<1> HIDE DEF Init
<1> QED
  BY <1>1, <1>2, <1>3, <1>4, <1>5, <1>6, <1>7, <1>8, <1>9, <1>10 DEF TypeOK

\* What the actions have in common.
LEMMA HandleTyped ==
  ASSUME TypeOK, NEW in, NEW event, Handle(in, event)
  PROVE  batch' \in Seq(Events) /\ Len(batch') <= RingSize /\ event \in Events
<1>1. /\ batch \in Seq(Events) /\ Len(batch) <= RingSize
      /\ batch # <<>> /\ batch' = Tail(batch) /\ Head(batch) = event
  BY DEF Handle, TypeOK
<1>2. /\ Head(batch) \in Events /\ Tail(batch) \in Seq(Events)
      /\ Len(Tail(batch)) = Len(batch) - 1 /\ Len(batch) \in Nat
  BY <1>1, HeadTailProperties
<1> QED
  BY <1>1, <1>2, LteAssumption

LEMMA BudgetTyped ==
  ASSUME TypeOK, Succeeds \/ (\E kind : Fault(kind)) \/ Command
  PROVE  /\ setting' = setting /\ setting' \in Settings
         /\ calls' \in 0..setting'.calls /\ commands' \in 0..setting'.commands
         /\ faults' \in 0..setting'.maxfaults
<1>1. setting \in Setting
  BY LteAssumption DEF TypeOK
<1> QED
  BY <1>1 DEF TypeOK, Succeeds, Fault, Command, budget, Setting

LEMMA ModemTyped ==
  ASSUME TypeOK
  PROVE  /\ {Offline, Spared, Relaunched, GnssLeft} \subseteq [ModemFlags -> BOOLEAN]
         /\ Halfway \subseteq [ModemFlags -> BOOLEAN]
         /\ \A f \in ModemFlags : modem[f] \in BOOLEAN
<1>1. /\ \A m \in [ModemFlags -> BOOLEAN], f \in ModemFlags, b \in BOOLEAN :
           [m EXCEPT ![f] = b] \in [ModemFlags -> BOOLEAN]
      /\ modem \in [ModemFlags -> BOOLEAN]
      /\ {"uart", "lte", "spared"} \subseteq ModemFlags
  BY DEF TypeOK, ModemFlags
<1>2. Offline \in [ModemFlags -> BOOLEAN]
  BY DEF TypeOK, Offline, ModemFlags
<1>3. Spared \in [ModemFlags -> BOOLEAN]
  BY <1>1, <1>2 DEF Spared
<1>4. Relaunched \in [ModemFlags -> BOOLEAN] /\ Halfway \subseteq [ModemFlags -> BOOLEAN]
  BY <1>1, <1>2 DEF Relaunched, Halfway
<1>5. GnssLeft \in [ModemFlags -> BOOLEAN]
  <2>1. (modem.lte \/ no_psm) \in BOOLEAN
    BY <1>1 DEF TypeOK
  <2> QED
    BY <1>1, <2>1 DEF GnssLeft
<1>6. \A f \in ModemFlags : modem[f] \in BOOLEAN
  BY <1>1
<1> QED
  BY <1>2, <1>3, <1>4, <1>5, <1>6

\* Handlers: the ring, the batch and the budget are typed whatever they do.
LEMMA HandlersTyped ==
  ASSUME TypeOK, HandleEvent
  PROVE  TypeOK'
<1>1. ASSUME NEW in, NEW event, Handle(in, event),
             m_event_rb' \in Seq(Events) /\ Len(m_event_rb') <= RingSize,
             Succeeds \/ (\E kind : Fault(kind)),
             step' \in States \cup {step},
             timer' \in BOOLEAN, m_flag' \subseteq Flags, bits' \subseteq Bits,
             m_send_recv_param' = m_send_recv_param, m_send_recv_result' \in Results,
             on_timeout_state' \in {"DISABLED", "READY", "OPEN_SOCKET", "BOOT"},
             flow_check_failures' \in 0..2, no_psm' \in BOOLEAN,
             modem' \in [ModemFlags -> BOOLEAN]
      PROVE  TypeOK'
  <2>1. /\ batch' \in Seq(Events) /\ Len(batch') <= RingSize
    BY <1>1, HandleTyped
  <2>2. /\ setting' = setting /\ setting' \in Settings
        /\ calls' \in 0..setting'.calls /\ commands' \in 0..setting'.commands
        /\ faults' \in 0..setting'.maxfaults
    BY <1>1, BudgetTyped
  <2>3. States' = States
    BY <2>2 DEF States, Gnss
  <2> QED
    BY <1>1, <2>1, <2>2, <2>3 DEF TypeOK, Handle, users
<1>2. CASE Transit
  <2>1. PICK t \in Transitions :
          /\ Handle({t[1]}, t[2])
          /\ TransitionTo(Target(t[1], t[2], t[3]))
          /\ UNCHANGED <<m_event_rb, m_flag, bits, request, context, modem, budget>>
    BY <1>2 DEF Transit
  <2>2. Target(t[1], t[2], t[3]) \in States
    BY TransitionTargets DEF Target, States
  <2> QED
    BY <1>1, <2>1, <2>2 DEF TypeOK, TransitionTo, Succeeds, request, context, budget
<1>3. CASE ErrorTimeout
  <2>1. on_timeout_state \in States
    BY DEF TypeOK, States
  <2> QED
    BY <1>1, <1>3, <2>1 DEF TypeOK, ErrorTimeout, TransitionTo, Succeeds, request, context, budget
<1>4. CASE LeaveDisabled
  <2>1. PICK t \in {<<"ENABLE", "BOOT">>, <<"ERROR", "ERROR">>} : LeaveDisabled!(t)
    BY <1>4 DEF LeaveDisabled
  <2>2. t[2] \in States /\ "ERROR" \in Events
    BY DEF States, Events
  <2>3. m_event_rb' \in Seq(Events) /\ Len(m_event_rb') <= RingSize
    BY <2>1, <2>2, RingTyped DEF TypeOK
  <2>5. /\ Handle({"DISABLED"}, t[1])
        /\ Succeeds \/ (\E kind : Fault(kind))
        /\ step' \in States \cup {step} /\ timer' \in BOOLEAN
    BY <2>1, <2>2 DEF TypeOK, TransitionTo, Stay
  <2>6. /\ m_flag' \subseteq Flags /\ bits' = bits /\ UNCHANGED request
        /\ on_timeout_state' \in {"DISABLED", "READY", "OPEN_SOCKET", "BOOT"}
        /\ flow_check_failures' \in 0..2 /\ no_psm' = no_psm
        /\ modem' \in [ModemFlags -> BOOLEAN]
    BY <2>1 DEF TypeOK, context
  <2> QED
    BY <1>1, <2>3, <2>5, <2>6 DEF TypeOK, request
<1>5. CASE LeaveResetLoop
  <2>1. PICK t \in {<<"TIMEOUT", "ATTACH">>, <<"ERROR", "ERROR">>} : LeaveResetLoop!(t)
    BY <1>5 DEF LeaveResetLoop
  <2>2. t[2] \in States /\ "ERROR" \in Events
    BY DEF States, Events
  <2>3. m_event_rb' \in Seq(Events) /\ Len(m_event_rb') <= RingSize
    BY <2>1, <2>2, RingTyped DEF TypeOK
  <2>4. modem' \in [ModemFlags -> BOOLEAN]
    BY <2>1, ModemTyped DEF TypeOK
  <2>5. /\ Handle({"RESET_LOOP"}, t[1])
        /\ Succeeds \/ (\E kind : Fault(kind))
        /\ step' \in States \cup {step} /\ timer' \in BOOLEAN
    BY <2>1, <2>2 DEF TypeOK, TransitionTo, Stay
  <2>6. /\ m_flag' \subseteq Flags /\ bits' = bits /\ UNCHANGED request
        /\ on_timeout_state' \in {"DISABLED", "READY", "OPEN_SOCKET", "BOOT"}
        /\ flow_check_failures' \in 0..2 /\ no_psm' = no_psm
        /\ modem' \in [ModemFlags -> BOOLEAN]
    BY <2>1, <2>4 DEF TypeOK, context
  <2> QED
    BY <1>1, <2>3, <2>5, <2>6 DEF TypeOK, request
<1>6. CASE LeaveGnss
  <2>1. PICK event \in {"SEND", "XGPS_DISABLE"} : LeaveGnss!(event)
    BY <1>6 DEF LeaveGnss
  <2>2. "ATTACH" \in States /\ "READY" \in States /\ "ERROR" \in Events
    BY DEF States, Events
  <2>3. m_event_rb' \in Seq(Events) /\ Len(m_event_rb') <= RingSize
    BY <2>1, <2>2, RingTyped DEF TypeOK, Failed
  <2>4. modem' \in [ModemFlags -> BOOLEAN]
    BY <2>1, ModemTyped DEF TypeOK
  <2>5. /\ Handle({"GNSS"}, event)
        /\ Succeeds \/ (\E kind : Fault(kind))
        /\ step' \in States \cup {step} /\ timer' \in BOOLEAN
    BY <2>1, <2>2 DEF TypeOK, TransitionTo, Stay, Failed
  <2> QED
    BY <1>1, <2>1, <2>3, <2>4, <2>5 DEF TypeOK, request, context
<1>7. CASE TrackCscon
  <2>1. PICK event \in {"CSCON_1", "CSCON_0"}, in \in {Cscon1Seen, Cscon0Seen} : Handle(in, event)
    BY <1>7 DEF TrackCscon
  <2> QED
    BY <1>1, <1>7, <2>1 DEF TrackCscon, Stay, TypeOK, Flags, request, context, Succeeds, budget
<1>8. CASE SimDetectedInPrepare
  <2>2. "ATTACH" \in States /\ "ERROR" \in Events
    BY DEF States, Events
  <2>3. m_event_rb' \in Seq(Events) /\ Len(m_event_rb') <= RingSize
    BY <1>8, <2>2, RingTyped DEF TypeOK, SimDetectedInPrepare
  <2>4. modem' \in [ModemFlags -> BOOLEAN]
    <3>1. [Offline EXCEPT !.lte = TRUE, !.sim = TRUE] \in [ModemFlags -> BOOLEAN]
      BY ModemTyped DEF ModemFlags
    <3> QED
      BY <1>8, <3>1 DEF TypeOK, SimDetectedInPrepare
  <2>5. /\ Handle({"PREPARE"}, "SIMDETECTED")
        /\ Succeeds \/ (\E kind : Fault(kind))
        /\ step' \in States \cup {step} /\ timer' \in BOOLEAN
    BY <1>8, <2>2 DEF SimDetectedInPrepare
  <2>6. UNCHANGED <<m_flag, bits, request, context>>
    BY <1>8 DEF SimDetectedInPrepare
  <2> QED
    BY <1>1, <2>3, <2>4, <2>5, <2>6 DEF TypeOK, request, context
<1>9. CASE SocketOpened
  <2>2. "CONEVAL" \in States
    BY DEF States
  <2> QED
    BY <1>1, <1>9, <2>2 DEF SocketOpened, TransitionTo, Succeeds, TypeOK, Bits, request, context, budget
<1>10. CASE ReadySend
  <2>2. "SEND" \in States /\ "ERROR" \in Events
    BY DEF States, Events
  <2>3. m_event_rb' \in Seq(Events) /\ Len(m_event_rb') <= RingSize
    BY <1>10, <2>2, RingTyped DEF TypeOK, ReadySend
  <2>5. /\ Handle({"READY"}, "SEND")
        /\ Succeeds \/ (\E kind : Fault(kind))
        /\ step' \in States \cup {step} /\ timer' \in BOOLEAN
    BY <1>10, <2>2 DEF ReadySend, Stay, TypeOK
  <2>6. UNCHANGED <<m_flag, bits, request, context, modem>>
    BY <1>10 DEF ReadySend
  <2> QED
    BY <1>1, <2>3, <2>5, <2>6 DEF TypeOK, request, context
<1>11. CASE ReadyDeregistered
  <2>2. "ATTACH" \in States
    BY DEF States
  <2> QED
    BY <1>1, <1>11, <2>2 DEF ReadyDeregistered, Stay, TransitionTo, Succeeds, TypeOK, request, context, budget
<1>12. CASE ReadyTimeout
  <2>2. "ERROR" \in States /\ "ERROR" \in Events
    BY DEF States, Events
  <2>3. m_event_rb' \in Seq(Events) /\ Len(m_event_rb') <= RingSize
    BY <1>12, <2>2, RingTyped DEF TypeOK, ReadyTimeout
  <2>4. modem' \in [ModemFlags -> BOOLEAN]
    <3>1. /\ \A m \in [ModemFlags -> BOOLEAN], f \in ModemFlags, b \in BOOLEAN :
               [m EXCEPT ![f] = b] \in [ModemFlags -> BOOLEAN]
          /\ modem \in [ModemFlags -> BOOLEAN]
          /\ {"socket", "spared"} \subseteq ModemFlags
      BY DEF TypeOK, ModemFlags
    <3>2. [modem EXCEPT !.socket = FALSE, !.spared = TRUE] \in [ModemFlags -> BOOLEAN]
      BY <3>1
    <3> QED
      BY <1>12, <3>1, <3>2, ModemTyped DEF ReadyTimeout
  <2>5. /\ Handle({"READY"}, "TIMEOUT")
        /\ Succeeds \/ (\E kind : Fault(kind))
        /\ step' \in States \cup {step} /\ timer' \in BOOLEAN
    BY <1>12, <2>2 DEF ReadyTimeout, Stay, TransitionTo, TypeOK
  <2>6. UNCHANGED <<bits, request, context>> /\ m_flag' \subseteq Flags
    BY <1>12 DEF ReadyTimeout, TypeOK, Flags
  <2> QED
    BY <1>1, <2>3, <2>4, <2>5, <2>6 DEF TypeOK, request, context
<1>13. CASE WakeupReady
  <2>2. "READY" \in States /\ "ATTACH" \in States /\ "ERROR" \in Events
    BY DEF States, Events
  <2>3. m_event_rb' \in Seq(Events) /\ Len(m_event_rb') <= RingSize
    BY <1>13, <2>2, RingTyped DEF TypeOK, WakeupReady, Failed
  <2>4. modem' \in [ModemFlags -> BOOLEAN]
    <3>1. [modem EXCEPT !.lte = TRUE] \in [ModemFlags -> BOOLEAN] /\ modem \in [ModemFlags -> BOOLEAN]
      BY DEF TypeOK, ModemFlags
    <3> QED
      BY <1>13, <3>1 DEF WakeupReady
  <2>5. /\ Handle({"WAKEUP"}, "READY")
        /\ Succeeds \/ (\E kind : Fault(kind))
        /\ step' \in States \cup {step} /\ timer' \in BOOLEAN
    BY <1>13, <2>2 DEF WakeupReady, Stay, Failed, TransitionTo, TypeOK
  <2>6. UNCHANGED <<bits, request, context>> /\ m_flag' \subseteq Flags
    BY <1>13 DEF WakeupReady, TypeOK
  <2> QED
    BY <1>1, <2>3, <2>4, <2>5, <2>6 DEF TypeOK, request, context
<1>14. ASSUME NEW in, NEW event, Handle(in, event),
              NEW result \in Results, NEW next \in States, Abandon(result, next),
              m_flag' \subseteq Flags
       PROVE  TypeOK'
  BY <1>1, <1>14 DEF Abandon, TransitionTo, Succeeds, TypeOK, Bits, context, budget
<1>15. CASE SendAbandoned
  <2>1. /\ {"READY", "ATTACH", "ERROR"} \subseteq States
        /\ {"ECONNRESET", "ETIMEDOUT", "ENETDOWN", "EIO"} \subseteq Results
    BY DEF States, Results
  <2>2. m_flag' \subseteq Flags
    BY <1>15 DEF SendAbandoned, TypeOK
  <2>3. \/ Handle({"SEND"}, "CSCON_0") /\ Abandon("ECONNRESET", "READY")
        \/ Handle({"SEND"}, "READY") /\ Abandon("ETIMEDOUT", "READY")
        \/ Handle({"SEND"}, "TIMEOUT") /\ Abandon("ETIMEDOUT", "READY")
        \/ Handle({"SEND"}, "DEREGISTERED") /\ Abandon("ENETDOWN", "ATTACH")
        \/ Handle({"SEND"}, "ERROR") /\ Abandon("EIO", "ERROR")
    BY <1>15 DEF SendAbandoned
  <2> QED
    BY <1>14, <2>1, <2>2, <2>3
<1>16. CASE SendConnected
  <2>1. PICK event \in {"CSCON_1", "SEND"} : SendConnected!(event)
    BY <1>16 DEF SendConnected
  <2>2. "RECEIVE" \in States /\ "CONEVAL" \in States /\ "ok" \in Results
    BY DEF States, Results
  <2>3. /\ Handle({"SEND"}, event) /\ step' \in States /\ timer' = FALSE
        /\ m_flag' \subseteq Flags /\ bits' \subseteq Bits
        /\ m_send_recv_result' \in Results
    BY <2>1, <2>2 DEF TypeOK, Answered, Flags, Bits
  <2>4. UNCHANGED <<m_event_rb, m_send_recv_param, context, modem, budget>>
    BY <2>1
  <2> QED
    BY <1>1, <2>3, <2>4 DEF TypeOK, Succeeds, context
<1>17. CASE ReceiveLeft
  <2>1. /\ {"READY", "ATTACH", "ERROR", "CONEVAL"} \subseteq States
        /\ {m_send_recv_result, "ETIMEDOUT", "ENETDOWN", "EIO"} \subseteq Results
    BY DEF States, Results, TypeOK
  <2>2. PICK t \in {<<"RECV", "CONEVAL", m_send_recv_result>>,
                     <<"READY", "READY", m_send_recv_result>>,
                     <<"TIMEOUT", "READY", "ETIMEDOUT">>,
                     <<"DEREGISTERED", "ATTACH", "ENETDOWN">>,
                     <<"ERROR", "ERROR", "EIO">>} :
          Handle({"RECEIVE"}, t[1]) /\ Abandon(t[3], t[2]) /\ UNCHANGED m_flag
    BY <1>17 DEF ReceiveLeft
  <2>3. t[3] \in Results /\ t[2] \in States
    BY <2>1
  <2> QED
    BY <1>14, <2>2, <2>3 DEF TypeOK
<1>18. CASE Ignore
  <2>1. PICK event \in Ignored(m_state) : Handle({m_state}, event)
    BY <1>18 DEF Ignore
  <2> QED
    BY <1>1, <1>18, <2>1 DEF Ignore, Stay, Succeeds, TypeOK, request, context, budget
<1> QED
  BY <1>2, <1>3, <1>4, <1>5, <1>6, <1>7, <1>8, <1>9, <1>10, <1>11, <1>12, <1>13,
     <1>15, <1>16, <1>17, <1>18 DEF HandleEvent

\* Entering a state: step was a state, and the batch waits.
LEMMA EnteringTyped ==
  ASSUME TypeOK, EnterState
  PROVE  TypeOK'
<1> DEFINE Ring == m_event_rb' \in Seq(Events) /\ Len(m_event_rb') <= RingSize
<1>1. ASSUME NEW state \in States, Enter(state), Ring,
             Succeeds \/ (\E kind : Fault(kind)),
             timer' \in BOOLEAN, bits' \subseteq Bits, UNCHANGED <<m_flag, request, using>>,
             on_timeout_state' \in {"DISABLED", "READY", "OPEN_SOCKET", "BOOT"},
             flow_check_failures' \in 0..2, no_psm' \in BOOLEAN,
             modem' \in [ModemFlags -> BOOLEAN]
      PROVE  TypeOK'
  <2>2. /\ setting' = setting /\ setting' \in Settings
        /\ calls' \in 0..setting'.calls /\ commands' \in 0..setting'.commands
        /\ faults' \in 0..setting'.maxfaults
    BY <1>1, BudgetTyped
  <2>3. States' = States
    BY <2>2 DEF States, Gnss
  <2> HIDE DEF Ring
  <2> QED
    BY <1>1, <2>2, <2>3 DEF TypeOK, Enter, users, request, Ring
<1>2. /\ \A e \in Events : Delegate(<<e>>) => Ring
      /\ Delegate(<<>>) => Ring
      /\ UNCHANGED m_event_rb => Ring
  BY RingTyped DEF TypeOK
<1>3. /\ {"ERROR", "SOCKET_OPENED", "SEND", "READY", "XGPS_ENABLE"} \subseteq Events
      /\ States \ {"GNSS"} = {"DISABLED", "ERROR", "BOOT", "PREPARE", "ATTACH", "RETRY_DELAY",
           "RESET_LOOP", "OPEN_SOCKET", "READY", "SLEEP", "WAKEUP", "SEND", "RECEIVE", "CONEVAL"}
  BY DEF Events, States
<1>4. /\ \A f \in ModemFlags : modem[f] \in BOOLEAN
      /\ Offline \in [ModemFlags -> BOOLEAN] /\ Spared \in [ModemFlags -> BOOLEAN]
      /\ modem \in [ModemFlags -> BOOLEAN]
      /\ \A m \in [ModemFlags -> BOOLEAN], f \in ModemFlags, b \in BOOLEAN :
           [m EXCEPT ![f] = b] \in [ModemFlags -> BOOLEAN]
      /\ {"uart", "lte", "ready", "sim", "awake", "socket", "psm", "spared"} \subseteq ModemFlags
  BY ModemTyped DEF TypeOK, ModemFlags
<1> HIDE DEF Ring
<1>5. CASE EnterError
  <2>1. PICK check \in {"ok", "no_socket", "down"} : EnterError!2!(check)
    BY <1>5 DEF EnterError
  <2>2. /\ Enter("ERROR") /\ timer' = TRUE /\ UNCHANGED <<m_event_rb, m_flag, request, no_psm, using>>
    BY <1>5 DEF EnterError, Start
  <2>3. flow_check_failures' \in 0..2
    BY <2>1 DEF TypeOK, RetryLeft
  <2>4. modem' \in [ModemFlags -> BOOLEAN]
    BY <1>4, <2>1
  <2>5. /\ on_timeout_state' \in {"DISABLED", "READY", "OPEN_SOCKET", "BOOT"}
        /\ Succeeds \/ (\E kind : Fault(kind))
        /\ bits' \subseteq Bits
    BY <2>1 DEF TypeOK
  <2> QED
    BY <1>1, <1>2, <1>3, <2>2, <2>3, <2>4, <2>5 DEF TypeOK
<1>6. CASE EnterBoot
  <2>1. modem' \in [ModemFlags -> BOOLEAN]
    BY <1>4, <1>6 DEF EnterBoot
  <2> QED
    BY <1>1, <1>2, <1>3, <1>6, <2>1 DEF EnterBoot, Start, TypeOK, context
<1>7. CASE EnterPrepare
  <2>1. modem' \in [ModemFlags -> BOOLEAN]
    BY <1>4, <1>7 DEF EnterPrepare
  <2> QED
    BY <1>1, <1>2, <1>3, <1>7, <2>1 DEF EnterPrepare, Start, TypeOK, context
<1>8. CASE EnterResetLoop
  <2>1. modem' \in [ModemFlags -> BOOLEAN]
    BY <1>4, <1>8 DEF EnterResetLoop
  <2> QED
    BY <1>1, <1>2, <1>3, <1>8, <2>1 DEF EnterResetLoop, Start, TypeOK, context
<1>9. CASE EnterRetryDelay
  <2>1. modem' \in [ModemFlags -> BOOLEAN]
    BY <1>4, <1>9 DEF EnterRetryDelay
  <2> QED
    BY <1>1, <1>2, <1>3, <1>9, <2>1 DEF EnterRetryDelay, Start, TypeOK, context
<1>10. CASE EnterAttach
  BY <1>1, <1>2, <1>3, <1>10 DEF EnterAttach, Start, Succeeds, TypeOK, context
<1>11. CASE EnterOpenSocket
  <2>1. modem' \in [ModemFlags -> BOOLEAN]
    BY <1>4, <1>11 DEF EnterOpenSocket
  <2> QED
    BY <1>1, <1>2, <1>3, <1>11, <2>1 DEF EnterOpenSocket, TypeOK, context
<1>12. CASE EnterReady
  <2>1. Ring /\ timer' \in BOOLEAN /\ no_psm' \in BOOLEAN
    BY <1>2, <1>3, <1>4, <1>12 DEF EnterReady, TypeOK
  <2> QED
    BY <1>1, <1>3, <1>12, <2>1 DEF EnterReady, TypeOK, Succeeds
<1>13. CASE EnterSleep
  <2>1. modem' \in [ModemFlags -> BOOLEAN]
    BY <1>4, <1>13 DEF EnterSleep
  <2>2. Ring
    BY <1>2, <1>3, <1>13 DEF EnterSleep
  <2> QED
    BY <1>1, <1>3, <1>13, <2>1, <2>2 DEF EnterSleep, TypeOK, context
<1>14. CASE EnterWakeup
  <2>1. modem' \in [ModemFlags -> BOOLEAN]
    BY <1>4, <1>14 DEF EnterWakeup
  <2> QED
    BY <1>1, <1>2, <1>3, <1>14, <2>1 DEF EnterWakeup, Start, TypeOK, context
<1>15. CASE EnterSend
  <2>1. CASE "SEND_PENDING" \in m_flag
    BY <1>3, <1>15, <2>1 DEF EnterSend, TypeOK, States, Gnss, users, request, context, budget
  <2>2. CASE "SEND_PENDING" \notin m_flag
    BY <1>1, <1>2, <1>3, <1>15, <2>2 DEF EnterSend, TypeOK, context, Succeeds
  <2> QED
    BY <2>1, <2>2
<1>16. CASE EnterReceive
  <2>1. CASE AwaitsAnswer
    BY <1>3, <1>16, <2>1 DEF EnterReceive, TypeOK, States, Gnss, users, request, context, budget
  <2>2. CASE ~AwaitsAnswer
    BY <1>1, <1>2, <1>3, <1>16, <2>2 DEF EnterReceive, TypeOK, context, Succeeds
  <2> QED
    BY <2>1, <2>2
<1>17. CASE EnterConeval
  BY <1>1, <1>2, <1>3, <1>17 DEF EnterConeval, TypeOK, context
<1>18. CASE EnterGnss
  <2>1. modem' \in [ModemFlags -> BOOLEAN] /\ no_psm' \in BOOLEAN
    BY <1>4, <1>18 DEF EnterGnss
  <2>2. "GNSS" \in States
    BY <1>18 DEF EnterGnss, Enter, TypeOK
  <2> QED
    BY <1>1, <1>2, <1>3, <1>18, <2>1, <2>2 DEF EnterGnss, TypeOK
<1> QED
  BY <1>5, <1>6, <1>7, <1>8, <1>9, <1>10, <1>11, <1>12, <1>13, <1>14, <1>15, <1>16,
     <1>17, <1>18 DEF EnterState

\* The rest of the work queue, and the timer.
LEMMA QueueTyped ==
  ASSUME TypeOK, Dispatch \/ TimerExpires \/ PrepareSend \/ FlowSend \/ FlowRecv
  PROVE  TypeOK'
<1> DEFINE Ring == m_event_rb' \in Seq(Events) /\ Len(m_event_rb') <= RingSize
<1>1. /\ \A e \in Events : Delegate(<<e>>) => Ring
      /\ Delegate(<<>>) => Ring
      /\ {"TIMEOUT", "SEND", "ERROR", "RECV"} \subseteq Events
  BY RingTyped DEF TypeOK, Events
<1>2. Succeeds \/ (\E kind : Fault(kind)) =>
        /\ setting' = setting /\ setting' \in Settings
        /\ calls' \in 0..setting'.calls /\ commands' \in 0..setting'.commands
        /\ faults' \in 0..setting'.maxfaults
  BY BudgetTyped
<1>3. setting' = setting => States' = States
  BY DEF States, Gnss
<1>4. "idle" \in States \cup {"idle"} /\ "EIO" \in Results /\ "ok" \in Results
  BY DEF Results
<1>5. \A what \in {"sent", "received"} :
        Carried(what) => carried' \in [Callers -> SUBSET {"sent", "received"}]
  BY DEF Carried, TypeOK
<1> HIDE DEF Ring
<1>6. CASE Dispatch
  <2>1. Len(<<>>) <= RingSize /\ <<>> \in Seq(Events)
    BY LteAssumption, EmptySeq
  <2> QED
    BY <1>2, <1>3, <1>6, <2>1 DEF Dispatch, TypeOK, Succeeds, users, request, context, budget
<1>7. CASE TimerExpires
  BY <1>1, <1>2, <1>3, <1>7 DEF TimerExpires, TypeOK, Ring, Succeeds, fsm, users, request, context, budget
<1>8. CASE PrepareSend
  BY <1>2, <1>3, <1>8 DEF PrepareSend, TypeOK, Succeeds, users, request, context, budget
<1>9. CASE FlowSend
  <2>1. modem' \in [ModemFlags -> BOOLEAN]
    <3>1. /\ (~modem.rrc) \in BOOLEAN /\ {"tx", "awake"} \subseteq ModemFlags
          /\ modem \in [ModemFlags -> BOOLEAN]
          /\ \A m \in [ModemFlags -> BOOLEAN], f \in ModemFlags, b \in BOOLEAN :
               [m EXCEPT ![f] = b] \in [ModemFlags -> BOOLEAN]
      BY DEF TypeOK, ModemFlags
    <3>2. [modem EXCEPT !.tx = ~modem.rrc, !.awake = TRUE] \in [ModemFlags -> BOOLEAN]
      BY <3>1
    <3> QED
      BY <1>9, <3>1, <3>2 DEF FlowSend
  <2>2. Ring
    BY <1>1, <1>9 DEF FlowSend
  <2>3. m_send_recv_result' \in Results /\ timer' \in BOOLEAN
        /\ carried' \in [Callers -> SUBSET {"sent", "received"}]
        /\ (Succeeds \/ \E kind : Fault(kind))
    BY <1>4, <1>5, <1>9 DEF FlowSend, TypeOK
  <2>4. /\ step' = "idle" /\ using' = NoCaller
        /\ UNCHANGED <<m_state, batch, m_flag, bits, m_send_recv_param, context, users, reconnecting>>
    BY <1>9 DEF FlowSend
  <2> QED
    BY <1>2, <1>3, <2>1, <2>2, <2>3, <2>4 DEF TypeOK, Ring, users, context
<1>10. CASE FlowRecv
  <2>2. Ring
    BY <1>1, <1>10 DEF FlowRecv
  <2>3. m_send_recv_result' \in Results /\ m_flag' \subseteq Flags /\ bits' \subseteq Bits
        /\ carried' \in [Callers -> SUBSET {"sent", "received"}]
        /\ (Succeeds \/ \E kind : Fault(kind))
    BY <1>4, <1>5, <1>10 DEF FlowRecv, TypeOK, Answered, Bits
  <2>4. /\ step' = "idle" /\ using' = NoCaller
        /\ UNCHANGED <<m_state, batch, timer, m_send_recv_param, context, modem, users, reconnecting>>
    BY <1>10 DEF FlowRecv
  <2> QED
    BY <1>2, <1>3, <2>2, <2>3, <2>4 DEF TypeOK, Ring, users, context
<1> QED
  BY <1>6, <1>7, <1>8, <1>9, <1>10

LEMMA CallerTyped ==
  ASSUME TypeOK, NEW c \in Callers, Caller(c)
  PROVE  TypeOK'
<1> DEFINE Ring == m_event_rb' \in Seq(Events) /\ Len(m_event_rb') <= RingSize
<1>1. /\ \A e \in Events : Delegate(<<e>>) => Ring
      /\ UNCHANGED m_event_rb => Ring
      /\ {"SEND", "ERROR"} \subseteq Events
  BY RingTyped DEF TypeOK, Events
<1>2. setting' = setting => States' = States
  BY DEF States, Gnss
<1> HIDE DEF Ring
<1>3. CASE Submit(c)
  <2>1. /\ setting' = setting /\ setting' \in Settings
        /\ calls' \in 0..setting'.calls /\ commands' \in 0..setting'.commands
        /\ faults' \in 0..setting'.maxfaults
    <3>1. setting \in Setting
      BY LteAssumption DEF TypeOK
    <3> QED
      BY <1>3, <3>1 DEF Submit, TypeOK, Setting
  <2>2. Ring
    BY <1>1, <1>3 DEF Submit
  <2>3. m_flag' \subseteq Flags /\ "ETIMEDOUT" \in Results
    BY <1>3 DEF Submit, TypeOK, Flags, Results
  <2>4. pc' \in [Callers -> {"idle", "waiting", "stopping"}]
    BY <1>3 DEF Submit, TypeOK
  <2>5. wants' \in [Callers -> BOOLEAN] /\ carried' \in [Callers -> SUBSET {"sent", "received"}]
    BY <1>3 DEF Submit, TypeOK
  <2> QED
    BY <1>2, <1>3, <2>1, <2>2, <2>3, <2>4, <2>5 DEF Submit, TypeOK, Ring, fsm, context
<1>4. ASSUME Return(c), Ring PROVE TypeOK'
  <2>1. /\ setting' = setting /\ setting' \in Settings
        /\ calls' \in 0..setting'.calls /\ commands' \in 0..setting'.commands
        /\ faults' \in 0..setting'.maxfaults
    BY <1>4, BudgetTyped DEF Return, Succeeds
  <2>2. pc' \in [Callers -> {"idle", "waiting", "stopping"}]
    BY <1>4 DEF Return, TypeOK
  <2>3. wants' \in [Callers -> BOOLEAN] /\ carried' \in [Callers -> SUBSET {"sent", "received"}]
    BY <1>4 DEF Return, TypeOK
  <2> QED
    BY <1>2, <1>4, <2>1, <2>2, <2>3 DEF Return, TypeOK, Ring, fsm, context
<1>5. CASE GiveUp(c)
  <2>1. /\ setting' = setting /\ setting' \in Settings
        /\ calls' \in 0..setting'.calls /\ commands' \in 0..setting'.commands
        /\ faults' \in 0..setting'.maxfaults
    BY <1>5, BudgetTyped DEF GiveUp, Succeeds
  <2>2. pc' \in [Callers -> {"idle", "waiting", "stopping"}]
    BY <1>5 DEF GiveUp, TypeOK
  <2> QED
    BY <1>2, <1>5, <2>1, <2>2 DEF GiveUp, TypeOK, fsm, request, context
<1> QED
  BY <1>1, <1>3, <1>4, <1>5 DEF Caller, Done, Stopped, Stuck

\* The other threads, and the modem.
LEMMA ApiTyped ==
  ASSUME TypeOK, Api
  PROVE  TypeOK'
<1> DEFINE Ring == m_event_rb' \in Seq(Events) /\ Len(m_event_rb') <= RingSize
<1>1. /\ \A e \in Events : Delegate(<<e>>) => Ring
      /\ Delegate(<<"ERROR", "ENABLE">>) => Ring
      /\ {"ENABLE", "XGPS_ENABLE", "XGPS_DISABLE"} \subseteq Events
  BY RingTyped DEF TypeOK, Events
<1>2. Succeeds \/ (\E kind : Fault(kind)) \/ Command =>
        /\ setting' = setting /\ setting' \in Settings
        /\ calls' \in 0..setting'.calls /\ commands' \in 0..setting'.commands
        /\ faults' \in 0..setting'.maxfaults
  BY BudgetTyped
<1>3. setting' = setting => States' = States
  BY DEF States, Gnss
<1> HIDE DEF Ring
<1>4. CASE Enable
  BY <1>1, <1>2, <1>3, <1>4 DEF Enable, TypeOK, Ring, fsm, users, request, context
<1>5. CASE GnssSetEnable
  <2>1. Ring /\ m_flag' \subseteq Flags
    BY <1>1, <1>5 DEF GnssSetEnable, TypeOK, Flags
  <2> QED
    BY <1>2, <1>3, <1>5, <2>1 DEF GnssSetEnable, TypeOK, Ring, fsm, users, request, context
<1>6. CASE Reconnect
  <2>1. bits' \subseteq Bits
    BY <1>6 DEF Reconnect, TypeOK, Bits
  <2>2. Len(<<>>) <= RingSize /\ <<>> \in Seq(Events) /\ "DISABLED" \in States
    BY LteAssumption, EmptySeq DEF States
  <2>3. reconnecting' \in {"never", "now", "done"} \cup SlowToLeave
    BY <1>6 DEF Reconnect
  <2> QED
    BY <1>2, <1>3, <1>6, <2>1, <2>2, <2>3 DEF Reconnect, TypeOK, users, request, context
<1>7. CASE Reconnected
  <2>1. modem' \in [ModemFlags -> BOOLEAN]
    BY <1>7 DEF Reconnected, TypeOK, ModemFlags
  <2>2. Ring
    BY <1>1, <1>7 DEF Reconnected
  <2>3. Succeeds \/ (\E kind : Fault(kind))
    BY <1>7 DEF Reconnected
  <2> QED
    BY <1>2, <1>3, <1>7, <2>1, <2>2, <2>3 DEF Reconnected, TypeOK, Ring, fsm, users, request, context
<1>8. CASE LeftToReconnect
  <2>1. modem' \in [ModemFlags -> BOOLEAN]
    BY <1>8, ModemTyped DEF LeftToReconnect, TypeOK
  <2>2. Ring
    BY <1>1, <1>8 DEF LeftToReconnect, TypeOK, Ring
  <2>3. Succeeds \/ (\E kind : Fault(kind))
    BY <1>8 DEF LeftToReconnect
  <2>4. m_state' \in States /\ reconnecting' \in {"now", "done"}
    BY <1>8 DEF LeftToReconnect, TypeOK, States
  <2> QED
    BY <1>2, <1>3, <1>8, <2>1, <2>2, <2>3, <2>4
       DEF LeftToReconnect, TypeOK, Ring, users, request, context
<1> QED
  BY <1>4, <1>5, <1>6, <1>7, <1>8 DEF Api

Modem ==
  ModemAnswers \/ Released \/ ModemSleeps \/ Deregistered \/ ResetLoop \/ SocketLost

LEMMA ModemStepTyped ==
  ASSUME TypeOK, Modem
  PROVE  TypeOK'
<1>1. ASSUME Succeeds \/ (\E kind : Fault(kind)), modem' \in [ModemFlags -> BOOLEAN],
             m_event_rb' \in Seq(Events) /\ Len(m_event_rb') <= RingSize,
             UNCHANGED <<fsm, timer, m_flag, bits, request, users, context, using,
                         carried, reconnecting>>
      PROVE  TypeOK'
  <2>1. /\ setting' = setting /\ setting' \in Settings
        /\ calls' \in 0..setting'.calls /\ commands' \in 0..setting'.commands
        /\ faults' \in 0..setting'.maxfaults
    BY <1>1, BudgetTyped
  <2>2. States' = States
    BY <2>1 DEF States, Gnss
  <2> QED
    BY <1>1, <2>1, <2>2 DEF TypeOK, fsm, users, request, context
<1>2. ASSUME NEW event \in Events, NEW changed \in [ModemFlags -> BOOLEAN],
             Line(event, changed), Succeeds \/ (\E kind : Fault(kind))
      PROVE  TypeOK'
  <2>1. m_event_rb' \in Seq(Events) /\ Len(m_event_rb') <= RingSize
    <3>1. PICK events : Delegate(events) /\ events \in {<<>>, <<event>>}
      BY <1>2 DEF Line
    <3> QED
      BY <3>1, RingTyped
  <2> QED
    BY <1>1, <1>2, <2>1 DEF Line
<1>3. /\ {"READY", "SIMDETECTED", "REGISTERED", "DEREGISTERED", "CSCON_1", "CSCON_0",
           "XMODMSLEEP", "RESET_LOOP"} \subseteq Events
      /\ \A f \in ModemFlags : modem[f] \in BOOLEAN
      /\ {"uart", "registered", "rrc", "tx", "ready", "sim", "awake", "socket", "psm"} \subseteq ModemFlags
      /\ modem \in [ModemFlags -> BOOLEAN]
      /\ \A m \in [ModemFlags -> BOOLEAN], f \in ModemFlags, b \in BOOLEAN :
           [m EXCEPT ![f] = b] \in [ModemFlags -> BOOLEAN]
  BY ModemTyped DEF Events, ModemFlags, TypeOK
<1>4. CASE ModemReady
  BY <1>2, <1>3, <1>4 DEF ModemReady, Succeeds
<1>5. CASE SimDetected
  BY <1>2, <1>3, <1>5 DEF SimDetected, Succeeds
<1>6. CASE Registered
  <2>1. PICK granted \in IF modem.uart THEN Psm ELSE {modem.psm} :
          Line("REGISTERED", [modem EXCEPT !.registered = TRUE, !.psm = granted])
    BY <1>6 DEF Registered
  <2>2. granted \in BOOLEAN
    BY <1>3, LteAssumption DEF Psm, Setting, TypeOK
  <2>3. [modem EXCEPT !.registered = TRUE, !.psm = granted] \in [ModemFlags -> BOOLEAN]
    BY <1>3, <2>2
  <2> QED
    BY <1>2, <1>3, <1>6, <2>1, <2>3 DEF Registered, Succeeds
<1>7. CASE Connected
  BY <1>2, <1>3, <1>7 DEF Connected, Succeeds
<1>8. CASE Released
  BY <1>2, <1>3, <1>8 DEF Released, Succeeds
<1>9. CASE ModemSleeps
  BY <1>2, <1>3, <1>9 DEF ModemSleeps, Succeeds
<1>10. CASE Deregistered
  <2>1. [modem EXCEPT !.registered = FALSE, !.rrc = FALSE, !.psm = @ \/ modem.uart] \in [ModemFlags -> BOOLEAN]
    BY <1>3
  <2> QED
    BY <1>2, <1>3, <1>10, <2>1 DEF Deregistered
<1>11. CASE ResetLoop
  BY <1>2, <1>3, <1>11 DEF ResetLoop
<1>12. CASE SocketLost
  BY <1>1, <1>3, <1>12 DEF SocketLost, TypeOK
<1> QED
  BY <1>4, <1>5, <1>6, <1>7, <1>8, <1>9, <1>10, <1>11, <1>12 DEF Modem, ModemAnswers

LEMMA TypedStep == TypeOK /\ [Next]_vars => TypeOK'
<1> SUFFICES ASSUME TypeOK, [Next]_vars PROVE TypeOK'
  OBVIOUS
<1>1. CASE UNCHANGED vars
  BY <1>1 DEF vars, TypeOK, States, Gnss
<1>2. CASE Next
  BY <1>2, HandlersTyped, EnteringTyped, QueueTyped, CallerTyped, ApiTyped, ModemStepTyped
     DEF Next, WorkQueue, Modem
<1> QED
  BY <1>1, <1>2

\* Every variable keeps its type, for every configuration of the code: a state that is
\* compiled out is never entered, the ring holds no more than m_event_buf has room for.
THEOREM TypeCorrect == Spec => []TypeOK
BY TypedInit, TypedStep, PTL DEF Spec

-----------------------------------------------------------------------------
(* The connected bit *)

\* The states in which there is no connection, and those that are entered from one of
\* them or behind a failed ctr_lte_v2_flow_check(): on_enter_attach() clears the bit.
Off == {"DISABLED", "BOOT", "PREPARE", "RESET_LOOP", "RETRY_DELAY", "ATTACH"}

\* ERROR keeps the bit only when the check was good, and then goes back to READY.
Attached ==
  reconnecting = "never" /\ "CONNECTED" \in bits =>
    /\ m_state \notin Off
    /\ step \notin Off \ {"ATTACH"}
    /\ m_state = "ERROR" => on_timeout_state = "READY"

\* A step that neither sets the bit nor enters a state where it is wrong.
LEMMA AttachedKeeps ==
  ASSUME Attached,
         reconnecting' = "never" => reconnecting = "never",
         "CONNECTED" \in bits' => "CONNECTED" \in bits,
         m_state' = m_state \/ (m_state' = step /\ m_state' \notin {"ATTACH", "ERROR"}),
         step' = step \/ m_state \in Off \/ step' \notin Off \ {"ATTACH"},
         on_timeout_state' = on_timeout_state \/ m_state \in Off
  PROVE  Attached'
BY DEF Attached, Off

LEMMA AttachedStep == TypeOK /\ Attached /\ [Next]_vars => Attached'
<1> SUFFICES ASSUME TypeOK, Attached, [Next]_vars PROVE Attached'
  OBVIOUS
<1> USE DEF Off
<1>1. CASE UNCHANGED vars
  BY <1>1 DEF vars, Attached
<1>2. CASE Transit
  <2>1. PICK t \in Transitions :
          /\ Handle({t[1]}, t[2])
          /\ TransitionTo(Target(t[1], t[2], t[3]))
          /\ UNCHANGED <<m_event_rb, m_flag, bits, request, context, modem, budget>>
    BY <1>2 DEF Transit
  <2>2. m_state = t[1] /\ step' \in {t[3], "GNSS"}
    BY <2>1 DEF Handle, TransitionTo, Target
  <2>3. m_state \in Off \/ step' \notin Off \ {"ATTACH"}
    BY <2>2, TransitionTargets
  <2> QED
    BY <2>1, <2>3, AttachedKeeps DEF Handle, context
<1>3. CASE ErrorTimeout
  BY <1>3 DEF ErrorTimeout, Handle, TransitionTo, Attached, context
<1>4. CASE LeaveDisabled
  BY <1>4, AttachedKeeps DEF LeaveDisabled, Handle
<1>5. CASE LeaveResetLoop
  BY <1>5, AttachedKeeps DEF LeaveResetLoop, Handle, context
<1>6. CASE SocketOpened
  BY <1>6 DEF SocketOpened, Handle, TransitionTo, Attached, context
<1>7. CASE LeaveGnss \/ TrackCscon \/ SimDetectedInPrepare \/ Ignore
  BY <1>7, AttachedKeeps DEF LeaveGnss, TrackCscon, SimDetectedInPrepare, Ignore, Stay, Failed,
     TransitionTo, Handle, context
<1>8. CASE ReadySend \/ ReadyDeregistered \/ ReadyTimeout \/ WakeupReady
  BY <1>8, AttachedKeeps DEF ReadySend, ReadyDeregistered, ReadyTimeout, WakeupReady, Stay, Failed,
     TransitionTo, Handle, context
<1>9. CASE SendAbandoned \/ SendConnected \/ ReceiveLeft
  <2>1. /\ m_state' = m_state /\ reconnecting' = reconnecting
        /\ UNCHANGED context
    BY <1>9 DEF SendAbandoned, SendConnected, ReceiveLeft, Abandon, Handle
  <2>2. "CONNECTED" \in bits' => "CONNECTED" \in bits
    BY <1>9 DEF SendAbandoned, SendConnected, ReceiveLeft, Abandon, Answered
  <2>3. step' \in {"READY", "ATTACH", "ERROR", "RECEIVE", "CONEVAL"}
    BY <1>9 DEF SendAbandoned, SendConnected, ReceiveLeft, Abandon, TransitionTo
  <2> QED
    BY <2>1, <2>2, <2>3, AttachedKeeps DEF context
<1>10. CASE EnterError
  BY <1>10 DEF EnterError, Enter, Attached
<1>11. CASE EnterAttach
  BY <1>11 DEF EnterAttach, Enter, Attached
<1>12. CASE EnterState /\ ~EnterError /\ ~EnterAttach
  <2>1. /\ step' \in {"idle", "prepare_send", "receiving"}
        /\ m_state' = step /\ m_state' \notin {"ATTACH", "ERROR"}
        /\ reconnecting' = reconnecting /\ bits' \subseteq bits
        /\ on_timeout_state' = on_timeout_state
    BY <1>12 DEF EnterState, EnterBoot, EnterPrepare, EnterResetLoop, EnterRetryDelay, EnterOpenSocket,
       EnterReady, EnterSleep, EnterWakeup, EnterSend, EnterReceive, EnterConeval, EnterGnss, Enter, context
  <2> QED
    BY <2>1, AttachedKeeps
<1>13. CASE Dispatch \/ TimerExpires \/ PrepareSend \/ FlowSend \/ FlowRecv
  BY <1>13, AttachedKeeps DEF Dispatch, TimerExpires, PrepareSend, FlowSend, FlowRecv, Answered, fsm, context
<1>14. ASSUME NEW c \in Callers, Caller(c) PROVE Attached'
  BY <1>14, AttachedKeeps DEF Caller, Submit, Done, GiveUp, Stopped, Stuck, Return, fsm, context
<1>15. CASE Api
  <2>1. CASE Reconnect \/ LeftToReconnect \/ Reconnected
    BY <2>1 DEF Reconnect, LeftToReconnect, Reconnected, Attached, SlowToLeave
  <2>2. CASE Enable \/ GnssSetEnable
    BY <2>2, AttachedKeeps DEF Enable, GnssSetEnable, fsm, context
  <2> QED
    BY <1>15, <2>1, <2>2 DEF Api
<1>16. CASE Modem
  BY <1>16, AttachedKeeps DEF Modem, ModemAnswers, ModemReady, SimDetected, Registered, Connected,
     Released, ModemSleeps, Deregistered, ResetLoop, SocketLost, Line, fsm, context
<1> QED
  BY <1>1, <1>2, <1>3, <1>4, <1>5, <1>6, <1>7, <1>8, <1>9, <1>10, <1>11, <1>12, <1>13, <1>14,
     <1>15, <1>16 DEF Next, WorkQueue, HandleEvent, Modem

\* The connected bit is not set in a state without a connection.
ConnectedWhileOn ==
  "CONNECTED" \in bits /\ reconnecting = "never" => m_state \notin Off

\* Until the first ctr_lte_v2_reconnect() the connected bit is never set while the modem is
\* off, boots or attaches, whatever fails and whatever lines, timers and calls it races with.
THEOREM NeverConnectedWhileOff == Spec => []ConnectedWhileOn
<1>1. Init => Attached
  BY DEF Init, Attached
<1>2. Attached => ConnectedWhileOn
  BY DEF Attached, ConnectedWhileOn
<1> QED
  BY <1>1, <1>2, TypedInit, TypedStep, AttachedStep, PTL DEF Spec

\* How the firmware is built never changes, and faults only go down.
LEMMA SettingKept ==
  ASSUME TypeOK, [Next]_vars
  PROVE  setting' = setting /\ faults \in Nat /\ faults' \in Nat /\ faults' <= faults
<1>1. setting \in Setting /\ faults \in 0..setting.maxfaults
  BY LteAssumption DEF TypeOK
<1>2. faults \in Nat
  BY <1>1 DEF Setting
<1>3. ASSUME Succeeds \/ (\E kind : Fault(kind)) \/ Command \/ (UNCHANGED <<faults, setting>>)
      PROVE  setting' = setting /\ faults' \in Nat /\ faults' <= faults
  BY <1>2, <1>3 DEF Succeeds, Fault, Command, budget
<1>4. CASE UNCHANGED vars
  BY <1>2, <1>3, <1>4 DEF vars
<1>5. CASE HandleEvent
  <2>1. CASE Transit \/ ErrorTimeout \/ TrackCscon \/ SocketOpened \/ ReadyDeregistered \/ Ignore
    BY <1>2, <1>3, <2>1 DEF Transit, ErrorTimeout, TrackCscon, SocketOpened, ReadyDeregistered, Ignore, Succeeds
  <2>2. CASE LeaveDisabled \/ LeaveResetLoop \/ LeaveGnss \/ SimDetectedInPrepare \/ ReadySend
             \/ ReadyTimeout \/ WakeupReady
    BY <1>2, <1>3, <2>2 DEF LeaveDisabled, LeaveResetLoop, LeaveGnss, SimDetectedInPrepare, ReadySend,
       ReadyTimeout, WakeupReady
  <2>3. CASE SendAbandoned \/ SendConnected \/ ReceiveLeft
    BY <1>2, <1>3, <2>3 DEF SendAbandoned, SendConnected, ReceiveLeft, Abandon, Succeeds
  <2> QED
    BY <1>5, <2>1, <2>2, <2>3 DEF HandleEvent
<1>6. CASE EnterState
  <2>1. CASE EnterAttach \/ EnterReady \/ EnterSend \/ EnterReceive
    BY <1>2, <1>3, <2>1 DEF EnterAttach, EnterReady, EnterSend, EnterReceive, Succeeds
  <2>2. CASE EnterState /\ ~(EnterAttach \/ EnterReady \/ EnterSend \/ EnterReceive)
    BY <1>2, <1>3, <2>2 DEF EnterState, EnterError, EnterBoot, EnterPrepare, EnterResetLoop, EnterRetryDelay,
       EnterOpenSocket, EnterSleep, EnterWakeup, EnterConeval, EnterGnss
  <2> QED
    BY <1>6, <2>1, <2>2
<1>7. CASE Dispatch \/ TimerExpires \/ PrepareSend \/ FlowSend \/ FlowRecv
  BY <1>2, <1>3, <1>7 DEF Dispatch, TimerExpires, PrepareSend, FlowSend, FlowRecv, Succeeds
<1>8. ASSUME NEW c \in Callers, Caller(c) PROVE setting' = setting /\ faults' \in Nat /\ faults' <= faults
  BY <1>2, <1>3, <1>8 DEF Caller, Submit, Done, GiveUp, Stopped, Stuck, Return, Succeeds, budget
<1>9. CASE Api
  BY <1>2, <1>3, <1>9 DEF Api, Enable, GnssSetEnable, Reconnect, LeftToReconnect, Reconnected, Succeeds
<1>10. CASE Modem
  BY <1>2, <1>3, <1>10 DEF Modem, ModemAnswers, ModemReady, SimDetected, Registered, Connected, Released,
     ModemSleeps, Deregistered, ResetLoop, SocketLost, Succeeds
<1> QED
  BY <1>2, <1>4, <1>5, <1>6, <1>7, <1>8, <1>9, <1>10 DEF Next, WorkQueue, Modem

-----------------------------------------------------------------------------
(* Requests of callers that wait for ever.  A soft timeout lets a caller return in  *)
(* the middle of what is said here.                                                 *)

\* Where the work queue works on a request.
Working == {"prepare_send", "sending", "receiving"}

\* The caller that owns the mutex is the one that waits, and m_send_recv_param is its
\* request.  Flags are pending only for it, and none when DONE is posted, so that
\* a request that is worked on is neither answered nor withdrawn.  An answer that
\* is not pending any more has been received.
Owned ==
  /\ \A c \in Callers : pc[c] = IF m_send_recv_lock = c THEN "waiting" ELSE "idle"
  /\ m_send_recv_param = m_send_recv_lock
  /\ m_flag \cap Pending # {} => m_send_recv_lock # NoCaller /\ "DONE" \notin bits
  /\ step \in Working => m_send_recv_lock # NoCaller /\ "DONE" \notin bits
  /\ step \in {"sending", "receiving"} => using = m_send_recv_param
  /\ \A c \in Callers :
       m_send_recv_lock = c /\ wants[c] =>
         "RECV_PENDING" \in m_flag \/ "received" \in carried[c]

\* A step that has nothing to do with the request.
LEMMA OwnedElsewhere ==
  ASSUME TypeOK, Owned,
         UNCHANGED <<m_send_recv_param, users, carried>>,
         m_flag' \cap Pending = m_flag \cap Pending,
         "DONE" \in bits' => "DONE" \in bits,
         (step' = step /\ using' = using) \/ step' \notin Working
  PROVE  Owned'
BY DEF Owned, TypeOK, users, Working, Pending

LEMMA OwnedStep ==
  ASSUME ~FiniteTimeout, TypeOK, Owned, [Next]_vars
  PROVE  Owned'
<1> USE DEF Working
<1>1. CASE UNCHANGED vars
  BY <1>1, OwnedElsewhere DEF vars, users
<1>2. CASE Transit
  <2>1. PICK t \in Transitions :
          /\ Handle({t[1]}, t[2])
          /\ TransitionTo(Target(t[1], t[2], t[3]))
          /\ UNCHANGED <<m_event_rb, m_flag, bits, request, context, modem, budget>>
    BY <1>2 DEF Transit
  <2>2. step' \notin Working
    BY <2>1, TransitionTargets DEF TransitionTo, Target, States
  <2> QED
    BY <2>1, <2>2, OwnedElsewhere DEF Handle, request
<1>3. CASE ErrorTimeout
  <2>1. step' \notin Working
    BY <1>3 DEF ErrorTimeout, TransitionTo, TypeOK
  <2> QED
    BY <1>3, <2>1, OwnedElsewhere DEF ErrorTimeout, Handle, request
<1>4. ASSUME NEW in, NEW event, Handle(in, event),
             m_send_recv_param' = m_send_recv_param,
             m_flag' \cap Pending = m_flag \cap Pending,
             "DONE" \in bits' => "DONE" \in bits,
             step' = step \/ step' \notin Working
      PROVE  Owned'
  BY <1>4, OwnedElsewhere DEF Handle
<1>5. CASE LeaveDisabled \/ LeaveResetLoop \/ LeaveGnss \/ TrackCscon \/ SimDetectedInPrepare
  BY <1>4, <1>5 DEF LeaveDisabled, LeaveResetLoop, LeaveGnss, TrackCscon, SimDetectedInPrepare,
     TransitionTo, Stay, Failed, request, Pending
<1>6. CASE SocketOpened \/ ReadySend \/ ReadyDeregistered \/ ReadyTimeout \/ WakeupReady \/ Ignore
  BY <1>4, <1>6 DEF SocketOpened, ReadySend, ReadyDeregistered, ReadyTimeout, WakeupReady, Ignore,
     TransitionTo, Stay, Failed, request, Pending
<1>7. CASE SendAbandoned \/ ReceiveLeft
  BY <1>4, <1>7 DEF SendAbandoned, ReceiveLeft, Abandon, TransitionTo, Pending
<1>8. CASE SendConnected
  <2>1. PICK event \in {"CSCON_1", "SEND"} : SendConnected!(event)
    BY <1>8 DEF SendConnected
  <2>2. CASE AwaitsAnswer
    BY <1>4, <2>1, <2>2 DEF Pending
  <2>3. CASE ~AwaitsAnswer
    BY <2>1, <2>3 DEF Answered, AwaitsAnswer, Handle, Owned, users, Pending
  <2> QED
    BY <2>2, <2>3
<1>9. CASE EnterState /\ ~EnterSend /\ ~EnterReceive
  <2>1. /\ UNCHANGED <<m_flag, m_send_recv_param, users, carried>>
        /\ step' = "idle"
        /\ "DONE" \in bits' => "DONE" \in bits
    BY <1>9 DEF EnterState, EnterError, EnterBoot, EnterPrepare, EnterResetLoop, EnterRetryDelay,
       EnterAttach, EnterOpenSocket, EnterReady, EnterSleep, EnterWakeup, EnterConeval, EnterGnss,
       Enter, request
  <2> QED
    BY <2>1, OwnedElsewhere
<1>10. CASE EnterSend
  BY <1>10 DEF EnterSend, Enter, Owned, users, request, Pending
<1>11. CASE EnterReceive
  BY <1>11 DEF EnterReceive, Enter, AwaitsAnswer, Owned, users, request, Pending
<1>12. CASE Dispatch \/ TimerExpires
  BY <1>12, OwnedElsewhere DEF Dispatch, TimerExpires, fsm, request
<1>13. CASE PrepareSend
  BY <1>13 DEF PrepareSend, Owned, users, request, Pending
<1>14. CASE FlowSend
  BY <1>14 DEF FlowSend, Carried, Owned, TypeOK, users, Pending
<1>15. CASE FlowRecv
  BY <1>15 DEF FlowRecv, Carried, Answered, Owned, TypeOK, users, Pending
<1>16. ASSUME NEW c \in Callers, Caller(c) PROVE Owned'
  <2>1. ~FiniteTimeout /\ c # NoCaller
    BY LteAssumption
  <2>2. CASE Submit(c)
    <3>1. /\ m_send_recv_lock = NoCaller /\ m_send_recv_lock' = c
          /\ pc' = [pc EXCEPT ![c] = "waiting"] /\ m_send_recv_param' = c
          /\ "DONE" \notin bits' /\ step' = step /\ using' = using
          /\ wants' \in {[wants EXCEPT ![c] = recv] : recv \in BOOLEAN}
          /\ wants'[c] => "RECV_PENDING" \in m_flag'
      BY <2>1, <2>2 DEF Submit, MayEnter, TypeOK, fsm
    <3>2. step \notin Working
      BY <3>1 DEF Owned
    <3>3. \A d \in Callers : pc'[d] = IF m_send_recv_lock' = d THEN "waiting" ELSE "idle"
      BY <2>1, <3>1, LteAssumption DEF Owned, TypeOK
    <3> QED
      BY <2>1, <3>1, <3>2, <3>3 DEF Owned
  <2>3. CASE Done(c)
    <3>1. /\ m_send_recv_lock = c /\ m_send_recv_lock' = NoCaller
          /\ pc' = [pc EXCEPT ![c] = "idle"] /\ m_send_recv_param' = NoCaller
          /\ m_flag' = m_flag \ Pending /\ step' = step
      BY <2>3 DEF Done, Return, Owned, fsm
    <3>2. step \notin Working
      BY <2>3 DEF Done, Owned
    <3>3. \A d \in Callers : pc'[d] = "idle" /\ d # NoCaller
      BY <3>1, LteAssumption DEF Owned, TypeOK
    <3> QED
      BY <3>1, <3>2, <3>3 DEF Owned
  <2>4. pc[c] # "stopping"
    BY DEF Owned
  <2> QED
    BY <1>16, <2>1, <2>2, <2>3, <2>4 DEF Caller, GiveUp, Stopped, Stuck
<1>17. CASE Api
  BY <1>17, OwnedElsewhere DEF Api, Enable, GnssSetEnable, Reconnect, LeftToReconnect, Reconnected,
     fsm, request, Pending
<1>18. CASE Modem
  BY <1>18, OwnedElsewhere DEF Modem, ModemAnswers, ModemReady, SimDetected, Registered, Connected,
     Released, ModemSleeps, Deregistered, ResetLoop, SocketLost, Line, fsm, request
<1> QED
  BY <1>1, <1>2, <1>3, <1>5, <1>6, <1>7, <1>8, <1>9, <1>10, <1>11, <1>12, <1>13, <1>14,
     <1>15, <1>16, <1>17, <1>18 DEF Next, WorkQueue, HandleEvent, Modem

LEMMA OwnedInit == Init => Owned
BY LteAssumption DEF Init, Owned, Working

\* What is known of a request in every reachable state, in every configuration.
Requested == ~FiniteTimeout => Owned

LEMMA RequestedStep == TypeOK /\ Requested /\ [Next]_vars => Requested'
BY SettingKept, OwnedStep DEF Requested, FiniteTimeout

\* The buffers that a blocking dialog works on belong to a caller that is still inside
\* ctr_lte_v2_send_recv(), if callers wait for ever, whatever fails and
\* however ctr_lte_v2_reconnect(), GNSS and the lines of the modem interfere.
THEOREM BuffersInUse == Spec => []ParamValid
<1>1. TypeOK /\ Requested => ParamValid
  <2> SUFFICES ASSUME TypeOK, Owned, step \in {"sending", "receiving"}
               PROVE  using # NoCaller /\ pc[using] # "idle"
    BY DEF ParamValid, Requested
  <2>1. using = m_send_recv_lock /\ using # NoCaller
    BY DEF Owned, Working
  <2> QED
    BY <2>1 DEF Owned, TypeOK
<1>2. Init => Requested
  BY OwnedInit DEF Requested
<1> QED
  BY <1>1, <1>2, TypedInit, TypedStep, RequestedStep, PTL DEF Spec

\* With callers that wait for ever 0 means, to one that passed a receive buffer, that this
\* buffer was filled during its own call, never during that of another one.
THEOREM SuccessFillsBuffer == Spec => [](~FiniteTimeout => SuccessMeansReceived)
<1>1. Requested => (~FiniteTimeout => SuccessMeansReceived)
  BY DEF Requested, Owned, SuccessMeansReceived, ReturnsZero, Pending
<1>2. Init => Requested
  BY OwnedInit DEF Requested
<1> QED
  BY <1>1, <1>2, TypedInit, TypedStep, RequestedStep, PTL DEF Spec

-----------------------------------------------------------------------------
(* Events that wait.  A ring that is full drops an event without a word, so    *)
(* what follows is about behaviours in which the ring always has room for one. *)

RoomLeft == Len(m_event_rb) < RingSize

\* The events that wait to be handled.
Due == {batch[i] : i \in DOMAIN batch} \cup {m_event_rb[i] : i \in DOMAIN m_event_rb}

\* With room left delegate_event() stores the event; of two, the first at least.
LEMMA DelegatedAll ==
  ASSUME TypeOK, RoomLeft
  PROVE  /\ Delegate(<<>>) => m_event_rb' = m_event_rb
         /\ \A e \in Events : Delegate(<<e>>) => m_event_rb' = Append(m_event_rb, e)
         /\ \A e, f \in Events :
              Delegate(<<e, f>>) => \E n \in Nat : /\ n <= Len(m_event_rb) + 2
                                                  /\ n > Len(m_event_rb)
                                                  /\ m_event_rb' = SubSeq(m_event_rb \o <<e, f>>, 1, n)
<1>1. m_event_rb \in Seq(Events) /\ Len(m_event_rb) \in Nat /\ RingSize \in Nat
  BY LteAssumption DEF TypeOK
<1>2. ASSUME Delegate(<<>>) PROVE m_event_rb' = m_event_rb
  <2>1. m_event_rb \o <<>> = m_event_rb
    BY <1>1, ConcatEmptySeq
  <2>2. Delegated(<<>>) = SubSeq(m_event_rb, 1, Len(m_event_rb))
    BY <1>1, <2>1 DEF Delegated, RoomLeft
  <2>3. SubSeq(m_event_rb, 1, Len(m_event_rb)) = m_event_rb
    BY <1>1, SubSeqFull
  <2> QED
    BY <1>2, <2>2, <2>3 DEF Delegate
<1>3. ASSUME NEW e \in Events, Delegate(<<e>>) PROVE m_event_rb' = Append(m_event_rb, e)
  <2> DEFINE all == Append(m_event_rb, e)
  <2>1. m_event_rb \o <<e>> = all
    BY <1>1, AppendIsConcat
  <2>2. all \in Seq(Events) /\ Len(all) = Len(m_event_rb) + 1
    BY <1>1, AppendProperties
  <2> HIDE DEF all
  <2>3. (IF Len(all) < RingSize THEN Len(all) ELSE RingSize) = Len(all)
    BY <1>1, <2>2 DEF RoomLeft
  <2>4. Delegated(<<e>>) = SubSeq(all, 1, Len(all))
    BY <2>1, <2>3 DEF Delegated
  <2>5. SubSeq(all, 1, Len(all)) = all
    BY <2>2, SubSeqFull
  <2> QED
    BY <1>3, <2>4, <2>5 DEF Delegate, all
<1>4. ASSUME NEW e \in Events, NEW f \in Events, Delegate(<<e, f>>)
      PROVE  \E n \in Nat : /\ n <= Len(m_event_rb) + 2 /\ n > Len(m_event_rb)
                           /\ m_event_rb' = SubSeq(m_event_rb \o <<e, f>>, 1, n)
  <2> DEFINE all == m_event_rb \o <<e, f>>
             n == IF Len(all) < RingSize THEN Len(all) ELSE RingSize
  <2>1. Len(all) = Len(m_event_rb) + 2
    BY <1>1, ConcatProperties
  <2>2. m_event_rb' = SubSeq(all, 1, n)
    BY <1>4 DEF Delegate, Delegated
  <2>3. n \in Nat /\ n <= Len(m_event_rb) + 2 /\ n > Len(m_event_rb)
    BY <1>1, <2>1 DEF RoomLeft
  <2> HIDE DEF n
  <2> QED
    BY <2>2, <2>3
<1> QED
  BY <1>2, <1>3, <1>4

\* What waits when nothing is handled: an event more, or as before.
LEMMA DueDelegated ==
  ASSUME TypeOK, RoomLeft, batch' = batch
  PROVE  /\ UNCHANGED m_event_rb => Due' = Due
         /\ Delegate(<<>>) => Due' = Due
         /\ \A e \in Events : Delegate(<<e>>) => Due' = Due \cup {e}
         /\ \A e, f \in Events : Delegate(<<e, f>>) => Due \cup {e} \subseteq Due'
<1>1. ASSUME UNCHANGED m_event_rb PROVE Due' = Due
  BY <1>1 DEF Due
<1>2. ASSUME NEW e \in Events, Delegate(<<e>>) PROVE Due' = Due \cup {e}
  <2>1. m_event_rb' = Append(m_event_rb, e) /\ m_event_rb \in Seq(Events)
    BY <1>2, DelegatedAll DEF TypeOK
  <2>2. {m_event_rb'[i] : i \in DOMAIN m_event_rb'} = {m_event_rb[i] : i \in DOMAIN m_event_rb} \cup {e}
    <3>1. /\ Len(m_event_rb') = Len(m_event_rb) + 1 /\ m_event_rb' \in Seq(Events)
          /\ \A i \in 1..Len(m_event_rb) : m_event_rb'[i] = m_event_rb[i]
          /\ m_event_rb'[Len(m_event_rb) + 1] = e
      BY <2>1, AppendProperties
    <3>2. /\ DOMAIN m_event_rb' = 1..(Len(m_event_rb) + 1)
          /\ DOMAIN m_event_rb = 1..Len(m_event_rb) /\ Len(m_event_rb) \in Nat
      BY <2>1, <3>1
    <3>3. \A i \in 1..(Len(m_event_rb) + 1) : i \in 1..Len(m_event_rb) \/ i = Len(m_event_rb) + 1
      BY <3>2
    <3>4. \A i \in 1..Len(m_event_rb) : i \in 1..(Len(m_event_rb) + 1)
      BY <3>2
    <3>5. Len(m_event_rb) + 1 \in 1..(Len(m_event_rb) + 1)
      BY <3>2
    <3> QED
      BY <3>1, <3>2, <3>3, <3>4, <3>5
  <2> QED
    BY <2>2 DEF Due
<1>3. ASSUME NEW e \in Events, NEW f \in Events, Delegate(<<e, f>>)
      PROVE  Due \cup {e} \subseteq Due'
  <2> DEFINE ring == m_event_rb
  <2>1. PICK n \in Nat : /\ n <= Len(ring) + 2 /\ n > Len(ring)
                         /\ m_event_rb' = SubSeq(ring \o <<e, f>>, 1, n)
    BY <1>3, DelegatedAll
  <2>2. ring \in Seq(Events) /\ <<e, f>> \in Seq(Events) /\ Len(<<e, f>>) = 2
        /\ Len(ring) \in Nat
    BY DEF TypeOK
  <2>3. /\ ring \o <<e, f>> \in Seq(Events) /\ Len(ring \o <<e, f>>) = Len(ring) + 2
        /\ \A i \in 1..(Len(ring) + 2) :
             (ring \o <<e, f>>)[i] = IF i <= Len(ring) THEN ring[i] ELSE <<e, f>>[i - Len(ring)]
    BY <2>2, ConcatProperties
  <2>4. \A i \in 1..n : (ring \o <<e, f>>)[i] \in Events
    <3> TAKE i \in 1..n
    <3>1. i \in 1..Len(ring \o <<e, f>>)
      BY <2>1, <2>2, <2>3
    <3> QED
      BY <2>3, <3>1, ElementOfSeq
  <2> HIDE DEF ring
  <2>5. /\ m_event_rb' \in Seq(Events) /\ Len(m_event_rb') = n
        /\ \A i \in 1..n : m_event_rb'[i] = (ring \o <<e, f>>)[i]
    BY <2>1, <2>2, <2>4, SubSeqProperties
  <2>6. DOMAIN m_event_rb' = 1..n /\ DOMAIN ring = 1..Len(ring)
    BY <2>2, <2>5
  <2>7. \A i \in 1..Len(ring) : i \in 1..n /\ m_event_rb'[i] = ring[i]
    BY <2>1, <2>2, <2>3, <2>5
  <2>8. Len(ring) + 1 \in 1..n /\ m_event_rb'[Len(ring) + 1] = e
    BY <2>1, <2>2, <2>3, <2>5
  <2> QED
    BY <2>6, <2>7, <2>8 DEF Due, ring
<1> QED
  BY <1>1, <1>2, <1>3, DelegatedAll

\* What waits after the next event was handled.
LEMMA DueHandled ==
  ASSUME TypeOK, RoomLeft, NEW in, NEW event, Handle(in, event)
  PROVE  /\ event \in Due
         /\ UNCHANGED m_event_rb \/ Delegate(<<>>) => Due \ {event} \subseteq Due'
         /\ \A e \in Events : Delegate(<<e>>) => Due \ {event} \subseteq Due' /\ e \in Due'
<1>1. /\ batch \in Seq(Events) /\ batch # <<>> /\ Head(batch) = event /\ batch' = Tail(batch)
  BY DEF Handle, TypeOK
<1>2. /\ Len(batch) \in Nat /\ Len(batch) # 0 /\ DOMAIN batch = 1..Len(batch)
      /\ batch[1] = event
      /\ Len(batch') = Len(batch) - 1 /\ batch' \in Seq(Events)
      /\ \A i \in 1..Len(batch') : batch'[i] = batch[i + 1]
  BY <1>1, HeadTailProperties, EmptySeq
<1>3. DOMAIN batch' = 1..(Len(batch) - 1)
  BY <1>2
<1>4. ASSUME NEW i \in DOMAIN batch, batch[i] # event
      PROVE  \E j \in DOMAIN batch' : batch'[j] = batch[i]
  <2>1. i - 1 \in 1..(Len(batch) - 1) /\ (i - 1) + 1 = i
    BY <1>2, <1>4
  <2>2. batch'[i - 1] = batch[i]
    BY <1>2, <2>1
  <2> QED
    BY <1>3, <2>1, <2>2
<1>5. event \in Due
  BY <1>2 DEF Due
<1>6. ASSUME \A e \in {m_event_rb[i] : i \in DOMAIN m_event_rb} :
               e \in {m_event_rb'[i] : i \in DOMAIN m_event_rb'}
      PROVE  Due \ {event} \subseteq Due'
  BY <1>4, <1>6 DEF Due
<1>7. ASSUME NEW e \in Events, Delegate(<<e>>)
      PROVE  /\ e \in Due'
             /\ \A f \in {m_event_rb[i] : i \in DOMAIN m_event_rb} :
                  f \in {m_event_rb'[i] : i \in DOMAIN m_event_rb'}
  <2>1. m_event_rb' = Append(m_event_rb, e) /\ m_event_rb \in Seq(Events)
    BY <1>7, DelegatedAll DEF TypeOK
  <2>2. /\ Len(m_event_rb') = Len(m_event_rb) + 1 /\ m_event_rb' \in Seq(Events)
        /\ \A i \in 1..Len(m_event_rb) : m_event_rb'[i] = m_event_rb[i]
        /\ m_event_rb'[Len(m_event_rb) + 1] = e
    BY <2>1, AppendProperties
  <2>3. /\ DOMAIN m_event_rb' = 1..(Len(m_event_rb) + 1)
        /\ DOMAIN m_event_rb = 1..Len(m_event_rb) /\ Len(m_event_rb) \in Nat
    BY <2>1, <2>2
  <2>4. \A i \in 1..Len(m_event_rb) : i \in 1..(Len(m_event_rb) + 1)
    BY <2>3
  <2>5. Len(m_event_rb) + 1 \in 1..(Len(m_event_rb) + 1)
    BY <2>3
  <2> QED
    BY <2>2, <2>3, <2>4, <2>5 DEF Due
<1> QED
  BY <1>5, <1>6, <1>7, DelegatedAll

\* The dispatch handler moves what waits.
LEMMA DueDispatched == TypeOK /\ Dispatch => Due' = Due
<1> SUFFICES ASSUME TypeOK, Dispatch PROVE Due' = Due
  OBVIOUS
<1>1. batch = <<>> /\ batch' = m_event_rb /\ m_event_rb' = <<>>
  BY DEF Dispatch
<1>2. DOMAIN <<>> = {}
  OBVIOUS
<1> QED
  BY <1>1, <1>2 DEF Due

-----------------------------------------------------------------------------
(* What a step of the machine does and does not change *)

\* What the other threads and the modem leave alone: the work queue, and what waits.
LEMMA Outside ==
  ASSUME TypeOK, RoomLeft,
         (\E c \in Callers : Caller(c)) \/ Enable \/ GnssSetEnable \/ Reconnected \/ Modem
  PROVE  UNCHANGED <<fsm, timer, context>> /\ Due \subseteq Due'
<1>1. batch' = batch =>
        /\ UNCHANGED m_event_rb \/ Delegate(<<>>) => Due' = Due
        /\ \A e \in Events : Delegate(<<e>>) => Due \subseteq Due'
        /\ \A e, f \in Events : Delegate(<<e, f>>) => Due \subseteq Due'
  BY DueDelegated
<1>2. {"SEND", "ERROR", "ENABLE", "XGPS_ENABLE", "XGPS_DISABLE", "READY", "SIMDETECTED", "REGISTERED",
       "DEREGISTERED", "CSCON_1", "CSCON_0", "XMODMSLEEP", "RESET_LOOP"} \subseteq Events
  BY DEF Events
<1>3. ASSUME NEW c \in Callers, Caller(c)
      PROVE  UNCHANGED <<fsm, timer, context>> /\ Due \subseteq Due'
  BY <1>1, <1>2, <1>3 DEF Caller, Submit, Done, GiveUp, Stopped, Stuck, Return, fsm
<1>4. CASE Enable \/ GnssSetEnable \/ Reconnected
  BY <1>1, <1>2, <1>4 DEF Enable, GnssSetEnable, Reconnected, fsm
<1>5. ASSUME NEW event \in Events, NEW changed, Line(event, changed)
      PROVE  UNCHANGED <<fsm, timer, context>> /\ Due \subseteq Due'
  BY <1>1, <1>5 DEF Line, fsm
<1>6. CASE Modem
  <2>1. CASE SocketLost
    BY <1>1, <2>1 DEF SocketLost, fsm
  <2>2. CASE ~SocketLost
    BY <1>2, <1>5, <1>6, <2>2 DEF Modem, ModemAnswers, ModemReady, SimDetected, Registered, Connected,
       Released, ModemSleeps, Deregistered, ResetLoop
  <2> QED
    BY <2>1, <2>2
<1> QED
  BY <1>3, <1>4, <1>6

\* The handlers that leave the state, and those that stay in it.
LEMMA HandlersMove ==
  ASSUME TypeOK, HandleEvent
  PROVE  /\ m_state' = m_state
         /\ step' \in States \/ step' = "idle"
         /\ \/ step' \in States
            \/ m_state \in {"DISABLED", "READY", "GNSS"}
            \/ LeaveResetLoop \/ TrackCscon \/ SimDetectedInPrepare \/ WakeupReady \/ Ignore
<1>1. "idle" \notin States
  BY DEF States
<1>2. m_state' = m_state /\ step = "idle"
  BY DEF HandleEvent, Transit, ErrorTimeout, LeaveDisabled, LeaveResetLoop, LeaveGnss, TrackCscon,
     SimDetectedInPrepare, SocketOpened, ReadySend, ReadyDeregistered, ReadyTimeout, WakeupReady,
     SendAbandoned, SendConnected, ReceiveLeft, Ignore, Handle
<1>3. /\ {"BOOT", "ERROR", "ATTACH", "READY", "CONEVAL", "SEND", "RECEIVE", "OPEN_SOCKET",
          "DISABLED"} \subseteq States
  BY DEF States
<1>4. CASE Transit
  <2>1. PICK t \in Transitions :
          /\ Handle({t[1]}, t[2])
          /\ TransitionTo(Target(t[1], t[2], t[3]))
    BY <1>4 DEF Transit
  <2>2. step' \in States
    BY <2>1, TransitionTargets DEF TransitionTo, Target, States
  <2> QED
    BY <1>2, <2>2
<1>5. CASE ErrorTimeout
  BY <1>2, <1>3, <1>5 DEF ErrorTimeout, TransitionTo, TypeOK
<1>6. CASE LeaveDisabled
  BY <1>2, <1>3, <1>6 DEF LeaveDisabled, TransitionTo, Stay, Handle
<1>7. CASE LeaveResetLoop \/ LeaveGnss
  BY <1>2, <1>3, <1>7 DEF LeaveResetLoop, LeaveGnss, TransitionTo, Stay, Failed, Handle
<1>8. CASE SimDetectedInPrepare \/ WakeupReady \/ Ignore \/ TrackCscon
  BY <1>2, <1>3, <1>8 DEF SimDetectedInPrepare, WakeupReady, Ignore, TrackCscon, TransitionTo, Stay, Failed
<1>9. CASE SocketOpened \/ ReadySend \/ ReadyDeregistered \/ ReadyTimeout
  BY <1>2, <1>3, <1>9 DEF SocketOpened, ReadySend, ReadyDeregistered, ReadyTimeout, TransitionTo, Stay, Handle
<1>10. CASE SendAbandoned \/ SendConnected \/ ReceiveLeft
  <2>1. step' \in {"READY", "ATTACH", "ERROR", "RECEIVE", "CONEVAL"}
    BY <1>10 DEF SendAbandoned, SendConnected, ReceiveLeft, Abandon, TransitionTo
  <2> QED
    BY <1>2, <1>3, <2>1
<1> QED
  BY <1>4, <1>5, <1>6, <1>7, <1>8, <1>9, <1>10 DEF HandleEvent

\* Entering a state sets it; the blocking dialogs begin in SEND and RECEIVE only.
LEMMA EnteringMoves ==
  ASSUME TypeOK, EnterState
  PROVE  /\ m_state' = step /\ step \in States \ {"DISABLED"} /\ batch' = batch
         /\ step' = "idle" \/ (step = "SEND" /\ step' = "prepare_send")
                           \/ (step = "RECEIVE" /\ step' = "receiving")
<1>1. step \in States
  <2>1. step \notin {"idle", "prepare_send", "sending", "receiving"}
    BY DEF EnterState, EnterError, EnterBoot, EnterPrepare, EnterResetLoop, EnterRetryDelay, EnterAttach,
       EnterOpenSocket, EnterReady, EnterSleep, EnterWakeup, EnterSend, EnterReceive, EnterConeval,
       EnterGnss, Enter
  <2> QED
    BY <2>1 DEF TypeOK
<1>2. CASE EnterSend
  BY <1>1, <1>2 DEF EnterSend, Enter
<1>3. CASE EnterReceive
  BY <1>1, <1>3 DEF EnterReceive, Enter
<1>4. CASE EnterState /\ ~EnterSend /\ ~EnterReceive
  BY <1>1, <1>4 DEF EnterState, EnterError, EnterBoot, EnterPrepare, EnterResetLoop, EnterRetryDelay,
     EnterAttach, EnterOpenSocket, EnterReady, EnterSleep, EnterWakeup, EnterConeval, EnterGnss, Enter
<1> QED
  BY <1>2, <1>3, <1>4

-----------------------------------------------------------------------------
(* The state machine never stops in a state that it must leave by itself *)

\* Faults of this kind are over, or never come.
CannotFail(kind) == kind \notin Faults \/ faults = 0

\* Where the state machine may stay for as long as it likes.
Resting == {"DISABLED", "READY", "SLEEP", "GNSS"}

\* The events by which each of the other states is left, or brings about one by which
\* it is left.
Waking ==
  ({"ERROR"} \X {"TIMEOUT"}) \cup
  ({"BOOT"} \X {"READY", "TIMEOUT", "ERROR"}) \cup
  ({"PREPARE"} \X {"SIMDETECTED", "RESET_LOOP", "TIMEOUT", "ERROR"}) \cup
  ({"RESET_LOOP"} \X {"TIMEOUT", "ERROR"}) \cup
  ({"RETRY_DELAY"} \X {"TIMEOUT", "ERROR"}) \cup
  ({"ATTACH"} \X {"REGISTERED", "RESET_LOOP", "TIMEOUT", "ERROR"}) \cup
  ({"OPEN_SOCKET"} \X {"SOCKET_OPENED", "DEREGISTERED", "ERROR"}) \cup
  ({"CONEVAL"} \X {"READY", "TIMEOUT", "DEREGISTERED", "ERROR"}) \cup
  ({"WAKEUP"} \X {"READY", "TIMEOUT", "ERROR"}) \cup
  ({"SEND"} \X {"CSCON_0", "CSCON_1", "SEND", "READY", "TIMEOUT", "DEREGISTERED", "ERROR"}) \cup
  ({"RECEIVE"} \X {"RECV", "READY", "TIMEOUT", "DEREGISTERED", "ERROR"})

\* The event wakes the present state.  Leaving RESET_LOOP for ERROR is not tried again.
Wakes(event) ==
  /\ <<m_state, event>> \in Waking
  /\ m_state = "RESET_LOOP" /\ event = "ERROR" => CannotFail("leave")

\* No state is entered from which nothing leads on, and the blocking dialogs are those of
\* SEND and RECEIVE, or were before ctr_lte_v2_reconnect() came.
Dialogs ==
  /\ step # "DISABLED"
  /\ m_state = "ERROR" => on_timeout_state # "DISABLED"
  /\ step \in {"prepare_send", "sending"} => m_state \in {"SEND", "DISABLED"}
  /\ step = "receiving" => m_state \in {"RECEIVE", "DISABLED"}

\* PREPARE is entered, or the next event is one for BOOT or PREPARE.
Preparing == step = "PREPARE" \/ (step = "idle" /\ m_state \in {"BOOT", "PREPARE"})

\* Where forbidden networks may be erased the UART is on, or an ERROR will soon be seen:
\* PREPARE then waits for a line that does come.
UartUp == "fplmn" \in Faults /\ Preparing => modem.uart \/ "ERROR" \in Due

\* Whoever has to leave waits for an event that wakes it, but while the state's on_leave()
\* runs in ctr_lte_v2_reconnect().
Awake ==
  step = "idle" /\ m_state \notin Resting /\ m_state # reconnecting =>
    \/ timer /\ Wakes("TIMEOUT")
    \/ \E event \in Due : Wakes(event)
    \/ "fplmn" \in Faults /\ WaitsForSim

\* Nobody reconnects where the application does not.
NeverAsked == ~Reconnects => reconnecting = "never"

LEMMA DialogsStep ==
  ASSUME TypeOK, Dialogs, [Next]_vars
  PROVE  Dialogs'
<1>1. CASE UNCHANGED vars
  BY <1>1 DEF vars, Dialogs
<1>2. CASE HandleEvent
  <2>1. m_state' = m_state /\ (step' \in States \/ step' = "idle")
    BY <1>2, HandlersMove
  <2>2. step' \notin {"prepare_send", "sending", "receiving"}
    BY <2>1 DEF States
  <2>3. m_state = "ERROR" => on_timeout_state' = on_timeout_state
    BY <1>2 DEF HandleEvent, Transit, ErrorTimeout, LeaveDisabled, LeaveResetLoop, LeaveGnss, TrackCscon,
       SimDetectedInPrepare, SocketOpened, ReadySend, ReadyDeregistered, ReadyTimeout, WakeupReady,
       SendAbandoned, SendConnected, ReceiveLeft, Abandon, Ignore, Handle, context
  <2>4. step' # "DISABLED"
    <3>1. CASE Transit
      <4>1. PICK t \in Transitions :
              /\ Handle({t[1]}, t[2])
              /\ TransitionTo(Target(t[1], t[2], t[3]))
        BY <3>1 DEF Transit
      <4> QED
        BY <4>1, TransitionTargets DEF TransitionTo, Target
    <3>2. CASE ErrorTimeout
      BY <3>2 DEF ErrorTimeout, Handle, TransitionTo, Dialogs
    <3>3. CASE LeaveDisabled \/ LeaveResetLoop \/ LeaveGnss
      BY <3>3 DEF LeaveDisabled, LeaveResetLoop, LeaveGnss, TransitionTo, Stay, Failed, Dialogs
    <3>4. CASE SimDetectedInPrepare \/ WakeupReady \/ Ignore \/ TrackCscon
      BY <3>4 DEF SimDetectedInPrepare, WakeupReady, Ignore, TrackCscon, TransitionTo, Stay, Failed, Dialogs
    <3>5. CASE SocketOpened \/ ReadySend \/ ReadyDeregistered \/ ReadyTimeout
      BY <3>5 DEF SocketOpened, ReadySend, ReadyDeregistered, ReadyTimeout, TransitionTo, Stay, Dialogs
    <3>6. CASE SendAbandoned \/ SendConnected \/ ReceiveLeft
      BY <3>6 DEF SendAbandoned, SendConnected, ReceiveLeft, Abandon, TransitionTo
    <3> QED
      BY <1>2, <3>1, <3>2, <3>3, <3>4, <3>5, <3>6 DEF HandleEvent
  <2> QED
    BY <2>1, <2>2, <2>3, <2>4 DEF Dialogs
<1>3. CASE EnterState
  <2>1. /\ m_state' = step
        /\ step' = "idle" \/ (step = "SEND" /\ step' = "prepare_send")
                          \/ (step = "RECEIVE" /\ step' = "receiving")
    BY <1>3, EnteringMoves
  <2>2. step = "ERROR" => on_timeout_state' # "DISABLED"
    BY <1>3 DEF EnterState, EnterError, EnterBoot, EnterPrepare, EnterResetLoop, EnterRetryDelay,
       EnterAttach, EnterOpenSocket, EnterReady, EnterSleep, EnterWakeup, EnterSend, EnterReceive,
       EnterConeval, EnterGnss, Enter
  <2> QED
    BY <2>1, <2>2 DEF Dialogs
<1>4. CASE Dispatch \/ TimerExpires \/ PrepareSend \/ FlowSend \/ FlowRecv
  BY <1>4 DEF Dispatch, TimerExpires, PrepareSend, FlowSend, FlowRecv, fsm, context, Dialogs
<1>5. CASE Reconnect \/ LeftToReconnect
  BY <1>5 DEF Reconnect, LeftToReconnect, context, Dialogs
<1>6. CASE (\E c \in Callers : Caller(c)) \/ Enable \/ GnssSetEnable \/ Reconnected \/ Modem
  <2>1. UNCHANGED <<m_state, step, on_timeout_state>>
    BY <1>6 DEF Caller, Submit, Done, GiveUp, Stopped, Stuck, Return, Enable, GnssSetEnable, Reconnected,
       Modem, ModemAnswers, ModemReady, SimDetected, Registered, Connected, Released, ModemSleeps,
       Deregistered, ResetLoop, SocketLost, Line, fsm, context
  <2> QED
    BY <2>1 DEF Dialogs
<1> QED
  BY <1>1, <1>2, <1>3, <1>4, <1>5, <1>6 DEF Next, WorkQueue, Api, Modem

LEMMA NeverAskedStep ==
  ASSUME TypeOK, NeverAsked, [Next]_vars
  PROVE  NeverAsked'
<1>1. Reconnects' = Reconnects
  BY SettingKept DEF Reconnects
<1>2. CASE Reconnect
  BY <1>1, <1>2 DEF Reconnect, NeverAsked
<1>3. CASE LeftToReconnect \/ Reconnected
  BY <1>1, <1>3 DEF LeftToReconnect, Reconnected, NeverAsked, SlowToLeave
<1>4. CASE ~Reconnect /\ ~LeftToReconnect /\ ~Reconnected
  <2>1. ASSUME HandleEvent PROVE reconnecting' = reconnecting
    BY <2>1 DEF HandleEvent, Transit, ErrorTimeout, LeaveDisabled, LeaveResetLoop, LeaveGnss, TrackCscon,
       SimDetectedInPrepare, SocketOpened, ReadySend, ReadyDeregistered, ReadyTimeout, WakeupReady,
       SendAbandoned, SendConnected, ReceiveLeft, Ignore, Handle
  <2>2. ASSUME EnterState PROVE reconnecting' = reconnecting
    BY <2>2 DEF EnterState, EnterError, EnterBoot, EnterPrepare, EnterResetLoop, EnterRetryDelay,
       EnterAttach, EnterOpenSocket, EnterReady, EnterSleep, EnterWakeup, EnterSend, EnterReceive,
       EnterConeval, EnterGnss, Enter
  <2>3. ASSUME Dispatch \/ TimerExpires \/ PrepareSend \/ FlowSend \/ FlowRecv
        PROVE  reconnecting' = reconnecting
    BY <2>3 DEF Dispatch, TimerExpires, PrepareSend, FlowSend, FlowRecv
  <2>4. ASSUME NEW c \in Callers, Caller(c) PROVE reconnecting' = reconnecting
    BY <2>4 DEF Caller, Submit, Done, GiveUp, Stopped, Stuck, Return
  <2>5. ASSUME Enable \/ GnssSetEnable \/ Modem PROVE reconnecting' = reconnecting
    BY <2>5 DEF Enable, GnssSetEnable, Modem, ModemAnswers, ModemReady, SimDetected, Registered, Connected,
       Released, ModemSleeps, Deregistered, ResetLoop, SocketLost, Line
  <2>6. reconnecting' = reconnecting
    BY <1>4, <2>1, <2>2, <2>3, <2>4, <2>5 DEF Next, WorkQueue, Api, Modem, vars
  <2> QED
    BY <1>1, <2>6 DEF NeverAsked
<1> QED
  BY <1>2, <1>3, <1>4

\* A handler takes one event; the others go on waiting.
LEMMA OthersWait ==
  ASSUME TypeOK, RoomLeft, HandleEvent
  PROVE  \E event \in Due : Handle({m_state}, event) /\ Due \ {event} \subseteq Due'
<1>1. /\ Delegate(<<>>) \/ Delegate(<<"ERROR">>) \/ UNCHANGED m_event_rb
      /\ \E in, event : Handle(in, event)
  <2>1. CASE Transit \/ ErrorTimeout \/ LeaveDisabled \/ LeaveResetLoop \/ LeaveGnss
    BY <2>1 DEF Transit, ErrorTimeout, LeaveDisabled, LeaveResetLoop, LeaveGnss, Failed
  <2>2. CASE TrackCscon \/ SimDetectedInPrepare \/ SocketOpened \/ ReadySend \/ ReadyDeregistered
             \/ ReadyTimeout \/ WakeupReady \/ Ignore
    BY <2>2 DEF TrackCscon, SimDetectedInPrepare, SocketOpened, ReadySend, ReadyDeregistered, ReadyTimeout,
       WakeupReady, Ignore, Failed
  <2>3. CASE SendAbandoned \/ SendConnected \/ ReceiveLeft
    BY <2>3 DEF SendAbandoned, SendConnected, ReceiveLeft, Abandon
  <2> QED
    BY <2>1, <2>2, <2>3 DEF HandleEvent
<1>2. PICK in, event : Handle(in, event)
  BY <1>1
<1>3. Handle({m_state}, event)
  BY <1>2 DEF Handle
<1>4. "ERROR" \in Events
  BY DEF Events
<1>5. event \in Due /\ Due \ {event} \subseteq Due'
  BY <1>1, <1>3, <1>4, DueHandled
<1> QED
  BY <1>3, <1>5

\* Entering a state only adds to what waits.
LEMMA EnteringAdds ==
  ASSUME TypeOK, RoomLeft, EnterState
  PROVE  Due \subseteq Due'
<1>1. batch' = batch
  BY EnteringMoves
<1>2. /\ {"ERROR", "SOCKET_OPENED", "SEND", "READY", "XGPS_ENABLE"} \subseteq Events
  BY DEF Events
<1>3. ASSUME \/ UNCHANGED m_event_rb \/ Delegate(<<>>)
             \/ \E e \in {"ERROR", "SOCKET_OPENED", "SEND", "READY", "XGPS_ENABLE"} : Delegate(<<e>>)
      PROVE  Due \subseteq Due'
  BY <1>1, <1>2, <1>3, DueDelegated
<1>4. CASE EnterError \/ EnterBoot \/ EnterPrepare \/ EnterResetLoop \/ EnterRetryDelay \/ EnterAttach
  BY <1>3, <1>4 DEF EnterError, EnterBoot, EnterPrepare, EnterResetLoop, EnterRetryDelay, EnterAttach, Start
<1>5. CASE EnterOpenSocket \/ EnterReady \/ EnterSleep \/ EnterWakeup \/ EnterConeval \/ EnterGnss
  BY <1>3, <1>5 DEF EnterOpenSocket, EnterReady, EnterSleep, EnterWakeup, EnterConeval, EnterGnss, Start
<1>6. CASE EnterSend \/ EnterReceive
  BY <1>3, <1>6 DEF EnterSend, EnterReceive
<1> QED
  BY <1>4, <1>5, <1>6 DEF EnterState

\* No event that wakes a state is ignored in it.
LEMMA WakingHandled ==
  ASSUME NEW state, NEW event, <<state, event>> \in Waking
  PROVE  event \notin Ignored(state)
<1>1. ASSUME <<state, event>> \in OtherCases PROVE event \notin Ignored(state)
  BY <1>1 DEF Ignored
<1>2. ASSUME NEW next, <<state, event, next>> \in Transitions PROVE event \notin Ignored(state)
  <2>1. PICK t \in Transitions : <<t[1], t[2]>> = <<state, event>>
    BY <1>2
  <2> QED
    BY <2>1 DEF Ignored
<1>3. ASSUME <<state, event>> \notin OtherCases
      PROVE  \E next \in {"ERROR", "PREPARE", "RESET_LOOP", "BOOT", "OPEN_SOCKET", "RETRY_DELAY", "ATTACH", "READY"} :
               <<state, event, next>> \in Transitions
  <2> USE <1>3 DEF Transitions, PlainTransitions, ErrorTransitions
  <2>1. \/ state = "BOOT" /\ event \in {"READY", "TIMEOUT", "ERROR"}
        \/ state = "PREPARE" /\ event \in {"RESET_LOOP", "TIMEOUT", "ERROR"}
        \/ state = "RETRY_DELAY" /\ event \in {"TIMEOUT", "ERROR"}
        \/ state = "ATTACH" /\ event \in {"REGISTERED", "RESET_LOOP", "TIMEOUT", "ERROR"}
        \/ state = "OPEN_SOCKET" /\ event \in {"DEREGISTERED", "ERROR"}
        \/ state = "CONEVAL" /\ event \in {"READY", "TIMEOUT", "DEREGISTERED", "ERROR"}
        \/ state = "WAKEUP" /\ event \in {"TIMEOUT", "ERROR"}
    BY DEF Waking, OtherCases
  <2>2. CASE state = "BOOT" /\ event \in {"READY", "TIMEOUT", "ERROR"}
    BY <2>2
  <2>3. CASE state = "PREPARE" /\ event \in {"RESET_LOOP", "TIMEOUT", "ERROR"}
    BY <2>3
  <2>4. CASE state = "RETRY_DELAY" /\ event \in {"TIMEOUT", "ERROR"}
    BY <2>4
  <2>5. CASE state = "ATTACH" /\ event \in {"REGISTERED", "RESET_LOOP", "TIMEOUT", "ERROR"}
    BY <2>5
  <2>6. CASE state = "OPEN_SOCKET" /\ event \in {"DEREGISTERED", "ERROR"}
    BY <2>6
  <2>7. CASE state = "CONEVAL" /\ event \in {"READY", "TIMEOUT", "DEREGISTERED", "ERROR"}
    BY <2>7
  <2>8. CASE state = "WAKEUP" /\ event \in {"TIMEOUT", "ERROR"}
    BY <2>8
  <2> QED
    BY <2>1, <2>2, <2>3, <2>4, <2>5, <2>6, <2>7, <2>8
<1> QED
  BY <1>1, <1>2, <1>3

\* ERROR is what BOOT and PREPARE are always left by, and PREPARE is entered from BOOT.
LEMMA PreparingHandles ==
  ASSUME TypeOK, NEW event, Handle({m_state}, event), HandleEvent, Preparing'
  PROVE  Preparing /\ event # "ERROR" /\ modem'.uart = modem.uart
<1>1. step = "idle" /\ m_state' = m_state /\ batch # <<>> /\ Head(batch) = event
  BY DEF Handle
<1>2. ASSUME step' = "PREPARE" PROVE m_state = "BOOT"
  <2>1. Transit
    BY <1>2, HandlersMove DEF HandleEvent, ErrorTimeout, LeaveDisabled, LeaveResetLoop, LeaveGnss,
       TrackCscon, SimDetectedInPrepare, SocketOpened, ReadySend, ReadyDeregistered, ReadyTimeout,
       WakeupReady, SendAbandoned, SendConnected, ReceiveLeft, Abandon, Ignore, TransitionTo, Stay, Failed,
       Handle, TypeOK
  <2>2. PICK t \in Transitions :
          Handle({t[1]}, t[2]) /\ TransitionTo(Target(t[1], t[2], t[3]))
    BY <2>1 DEF Transit
  <2>3. t[3] = "PREPARE"
    BY <1>2, <2>2 DEF TransitionTo, Target
  <2>4. t[1] = "BOOT"
    BY <2>3 DEF Transitions, PlainTransitions, ErrorTransitions
  <2> QED
    BY <2>2, <2>4 DEF Handle
<1>3. m_state \in {"BOOT", "PREPARE"} /\ Preparing
  BY <1>1, <1>2 DEF Preparing
<1>4. Transit \/ SimDetectedInPrepare \/ Ignore
  BY <1>3 DEF HandleEvent, Transit, ErrorTimeout, LeaveDisabled, LeaveResetLoop, LeaveGnss,
     TrackCscon, Cscon0Seen, Cscon1Seen, SocketOpened, ReadySend, ReadyDeregistered, ReadyTimeout,
     WakeupReady, SendAbandoned, SendConnected, ReceiveLeft, Handle
<1>5. modem'.uart = modem.uart
  <2>1. CASE Transit \/ Ignore
    BY <2>1 DEF Transit, Ignore
  <2>2. CASE SimDetectedInPrepare
    BY <2>2 DEF SimDetectedInPrepare, Offline, TypeOK, ModemFlags
  <2> QED
    BY <1>4, <2>1, <2>2
<1>6. ASSUME event = "ERROR" PROVE FALSE
  <2>1. CASE Transit
    <3>1. PICK t \in Transitions :
            Handle({t[1]}, t[2]) /\ TransitionTo(Target(t[1], t[2], t[3]))
      BY <2>1 DEF Transit
    <3>2. t[2] = "ERROR"
      BY <1>1, <1>6, <3>1 DEF Handle
    <3>3. t[3] = "ERROR"
      BY <3>2 DEF Transitions, PlainTransitions, ErrorTransitions
    <3>4. step' = "ERROR"
      BY <3>1, <3>3 DEF TransitionTo, Target
    <3> QED
      BY <3>4 DEF Preparing
  <2>2. CASE SimDetectedInPrepare
    BY <1>1, <1>6, <2>2 DEF SimDetectedInPrepare, Handle
  <2>3. CASE Ignore
    <3>1. PICK e \in Ignored(m_state) : Handle({m_state}, e)
      BY <2>3 DEF Ignore
    <3>2. e = "ERROR"
      BY <1>1, <1>6, <3>1 DEF Handle
    <3>3. <<m_state, "ERROR">> \in Waking
      BY <1>3 DEF Waking
    <3> QED
      BY <3>1, <3>2, <3>3, WakingHandled
  <2> QED
    BY <1>4, <2>1, <2>2, <2>3
<1> QED
  BY <1>3, <1>5, <1>6

LEMMA UartUpStep ==
  ASSUME \A s \in Settings : s.reconnects => "fplmn" \notin s.faults,
         TypeOK, RoomLeft, NeverAsked, Dialogs, UartUp, [Next]_vars
  PROVE  UartUp'
<1> SUFFICES ASSUME "fplmn" \in Faults', Preparing', "ERROR" \notin Due'
             PROVE  modem'.uart
  BY DEF UartUp
<1>1. "fplmn" \in Faults /\ ~Reconnects
  BY SettingKept DEF Faults, Reconnects, TypeOK
<1>2. ASSUME Preparing, Due \subseteq Due', modem'.uart = modem.uart
      PROVE  modem'.uart
  BY <1>1, <1>2 DEF UartUp
<1>3. CASE UNCHANGED vars
  BY <1>2, <1>3 DEF vars, Due, Preparing
<1>4. CASE HandleEvent
  <2>1. PICK event \in Due : Handle({m_state}, event) /\ Due \ {event} \subseteq Due'
    BY <1>4, OthersWait
  <2>2. Preparing /\ event # "ERROR" /\ modem'.uart = modem.uart
    BY <1>4, <2>1, PreparingHandles
  <2> QED
    BY <1>1, <2>1, <2>2 DEF UartUp
<1>5. CASE EnterState
  <2>1. m_state' = step /\ step' # "PREPARE" /\ Due \subseteq Due' /\ batch' = batch
    BY <1>5, EnteringMoves, EnteringAdds
  <2>2. step \in {"BOOT", "PREPARE"}
    BY <2>1 DEF Preparing
  <2>3. EnterBoot \/ EnterPrepare
    BY <1>5, <2>2 DEF EnterState, EnterError, EnterResetLoop, EnterRetryDelay, EnterAttach,
       EnterOpenSocket, EnterReady, EnterSleep, EnterWakeup, EnterSend, EnterReceive,
       EnterConeval, EnterGnss, Enter
  <2>4. ~Delegate(<<"ERROR">>)
    BY <2>1, DueDelegated DEF Events
  <2>5. CASE EnterBoot
    BY <2>4, <2>5 DEF EnterBoot, Offline, TypeOK, ModemFlags
  <2>6. CASE EnterPrepare
    <3>1. step = "PREPARE" /\ modem'.uart = modem.uart
      BY <2>4, <2>6 DEF EnterPrepare, Enter, TypeOK, ModemFlags
    <3> QED
      BY <1>2, <2>1, <3>1 DEF Preparing
  <2> QED
    BY <2>3, <2>5, <2>6
<1>6. CASE Dispatch
  BY <1>2, <1>6, DueDispatched DEF Dispatch, Preparing
<1>7. CASE TimerExpires
  BY <1>2, <1>7, DueDelegated DEF TimerExpires, Preparing, fsm, Events
<1>8. CASE PrepareSend \/ FlowSend \/ FlowRecv
  BY <1>8 DEF PrepareSend, FlowSend, FlowRecv, Preparing, Dialogs
<1>9. CASE Reconnect \/ LeftToReconnect \/ Reconnected
  BY <1>1, <1>9 DEF Reconnect, LeftToReconnect, Reconnected, NeverAsked, SlowToLeave
<1>10. CASE (\E c \in Callers : Caller(c)) \/ Enable \/ GnssSetEnable \/ Modem
  <2>1. UNCHANGED fsm /\ Due \subseteq Due'
    BY <1>10, Outside
  <2>2. modem'.uart = modem.uart
    BY <1>10 DEF Caller, Submit, Done, GiveUp, Stopped, Stuck, Return, Enable, GnssSetEnable,
       Modem, ModemAnswers, ModemReady, SimDetected, Registered, Connected, Released, ModemSleeps,
       Deregistered, ResetLoop, SocketLost, Line, TypeOK, ModemFlags
  <2> QED
    BY <1>2, <2>1, <2>2 DEF Preparing, fsm
<1> QED
  BY <1>3, <1>4, <1>5, <1>6, <1>7, <1>8, <1>9, <1>10 DEF Next, WorkQueue, Api, Modem

\* A step that handles no event that wakes the state, and goes on in the same state.
LEMMA AwakeKeeps ==
  ASSUME TypeOK, [Next]_vars, Awake,
         UNCHANGED <<m_state, step>>,
         m_state # reconnecting' => m_state # reconnecting,
         \A event \in Due : Wakes(event) => event \in Due',
         timer => timer' \/ "TIMEOUT" \in Due',
         "fplmn" \in Faults /\ WaitsForSim => WaitsForSim' \/ "SIMDETECTED" \in Due'
  PROVE  Awake'
<1>1. Faults' = Faults /\ faults \in Nat /\ faults' \in Nat /\ faults' <= faults
  BY SettingKept DEF Faults
<1>2. \A event : Wakes(event) => Wakes(event)'
  BY <1>1 DEF Wakes, CannotFail
<1>3. SUFFICES ASSUME step = "idle" /\ m_state \notin Resting /\ m_state # reconnecting
               PROVE  \/ timer' /\ Wakes("TIMEOUT")'
                      \/ \E event \in Due' : Wakes(event)'
                      \/ "fplmn" \in Faults' /\ WaitsForSim'
  BY DEF Awake
<1>4. CASE timer /\ Wakes("TIMEOUT")
  BY <1>2, <1>4
<1>5. ASSUME NEW event \in Due, Wakes(event) PROVE \E e \in Due' : Wakes(e)'
  BY <1>2, <1>5
<1>6. CASE "fplmn" \in Faults /\ WaitsForSim
  <2>1. CASE "SIMDETECTED" \in Due'
    <3>1. Wakes("SIMDETECTED")
      BY <1>6 DEF WaitsForSim, Wakes, Waking
    <3> QED
      BY <1>2, <2>1, <3>1
  <2> QED
    BY <1>1, <1>6, <2>1
<1> QED
  BY <1>3, <1>4, <1>5, <1>6 DEF Awake

\* The handlers.
LEMMA AwakeHandled ==
  ASSUME \A s \in Settings : "leave" \in s.faults => s.maxfaults <= 1,
         TypeOK, RoomLeft, UartUp, Awake, HandleEvent
  PROVE  Awake'
<1>1. m_state' = m_state /\ (step' \in States \/ step' = "idle")
  BY HandlersMove
<1>2. SUFFICES ASSUME step' = "idle", m_state \notin Resting PROVE Awake'
  BY <1>1 DEF Awake
<1>3. step = "idle" /\ "idle" \notin States
  BY DEF HandleEvent, Transit, ErrorTimeout, LeaveDisabled, LeaveResetLoop, LeaveGnss, TrackCscon,
     SimDetectedInPrepare, SocketOpened, ReadySend, ReadyDeregistered, ReadyTimeout, WakeupReady,
     SendAbandoned, SendConnected, ReceiveLeft, Ignore, Handle, States
<1>4. LeaveResetLoop \/ TrackCscon \/ SimDetectedInPrepare \/ WakeupReady \/ Ignore
  BY <1>2, <1>3, HandlersMove DEF Resting
<1>5. PICK event \in Due : Handle({m_state}, event) /\ Due \ {event} \subseteq Due'
  BY OthersWait
<1>6. [Next]_vars /\ "ERROR" \in Events /\ "TIMEOUT" \in Events
  BY DEF Next, WorkQueue, Events
<1>7. Faults' = Faults /\ faults \in Nat /\ faults' \in Nat /\ faults' <= faults
  BY <1>6, SettingKept DEF Faults
<1>8. ASSUME NEW e \in Due', Wakes(e)' PROVE Awake'
  BY <1>8 DEF Awake
<1>9. CASE LeaveResetLoop
  <2>1. PICK t \in {<<"TIMEOUT", "ATTACH">>, <<"ERROR", "ERROR">>} : LeaveResetLoop!(t)
    BY <1>9 DEF LeaveResetLoop
  <2>2. /\ t[1] = event /\ m_state = "RESET_LOOP" /\ Stay /\ Fault("leave")
        /\ Delegate(IF t[2] = "ERROR" THEN <<>> ELSE <<"ERROR">>)
    BY <1>2, <1>5, <2>1 DEF Handle, TransitionTo
  <2>3. "leave" \in Faults /\ faults = 1 /\ faults' = 0
    BY <1>7, <2>2, LteAssumption DEF Fault, Faults, TypeOK, Setting
  <2>4. CASE t[1] = "TIMEOUT"
    <3>1. "ERROR" \in Due'
      BY <1>5, <1>6, <2>2, <2>4, DueHandled
    <3>2. Wakes("ERROR")'
      BY <1>1, <2>2, <2>3 DEF Wakes, Waking, CannotFail
    <3> QED
      BY <1>8, <3>1, <3>2
  <2>5. CASE t[1] = "ERROR"
    <3>1. ~Wakes("ERROR")
      BY <2>2, <2>3 DEF Wakes, CannotFail
    <3> QED
      BY <1>1, <1>2, <1>3, <1>5, <1>6, <2>2, <2>5, <3>1, AwakeKeeps DEF WaitsForSim, Handle, Stay
  <2> QED
    BY <2>4, <2>5
<1>10. CASE TrackCscon
  <2>1. ~Wakes(event) /\ UNCHANGED <<timer, modem>>
    BY <1>2, <1>5, <1>10 DEF TrackCscon, Handle, Stay, Wakes, Waking, Cscon0Seen, Cscon1Seen
  <2> QED
    BY <1>1, <1>2, <1>3, <1>5, <1>6, <2>1, AwakeKeeps DEF WaitsForSim, Handle
<1>11. CASE SimDetectedInPrepare
  <2>1. m_state = "PREPARE" /\ event = "SIMDETECTED" /\ step' # "ATTACH"
    BY <1>2, <1>5, <1>11 DEF SimDetectedInPrepare, Handle
  <2>2. Wakes("ERROR")'
    BY <1>1, <2>1 DEF Wakes, Waking
  <2>3. CASE Fault("at") /\ Delegate(<<"ERROR">>)
    <3>1. "ERROR" \in Due'
      BY <1>5, <1>6, <2>3, DueHandled
    <3> QED
      BY <1>8, <2>2, <3>1
  <2>4. CASE Fault("fplmn") /\ modem' = [Offline EXCEPT !.lte = TRUE, !.sim = TRUE]
    <3>1. "fplmn" \in Faults /\ modem'.sim /\ modem'.uart = modem.uart
      BY <2>4 DEF Fault, Offline, TypeOK, ModemFlags
    <3>2. modem.uart \/ "ERROR" \in Due
      BY <1>3, <2>1, <3>1 DEF UartUp, Preparing
    <3>3. CASE modem.uart
      BY <1>1, <1>7, <2>1, <3>1, <3>3 DEF Awake, WaitsForSim
    <3>4. CASE "ERROR" \in Due
      BY <1>5, <1>8, <2>1, <2>2, <3>4
    <3> QED
      BY <3>2, <3>3, <3>4
  <2> QED
    BY <1>11, <2>1, <2>3, <2>4 DEF SimDetectedInPrepare
<1>12. CASE WakeupReady
  <2>1. m_state = "WAKEUP" /\ Delegate(<<"ERROR">>)
    BY <1>2, <1>12 DEF WakeupReady, Handle, TransitionTo, Failed
  <2>2. "ERROR" \in Due' /\ Wakes("ERROR")'
    BY <1>1, <1>5, <1>6, <2>1, DueHandled DEF Wakes, Waking
  <2> QED
    BY <1>8, <2>2
<1>13. CASE Ignore
  <2>1. PICK e \in Ignored(m_state) : Handle({m_state}, e)
    BY <1>13 DEF Ignore
  <2>2. e = event
    BY <1>5, <2>1 DEF Handle
  <2>3. ~Wakes(event)
    BY <2>1, <2>2, WakingHandled DEF Wakes
  <2>4. UNCHANGED <<timer, modem>>
    BY <1>13 DEF Ignore, Stay
  <2> QED
    BY <1>1, <1>2, <1>3, <1>5, <1>6, <2>3, <2>4, AwakeKeeps DEF WaitsForSim, Handle
<1> QED
  BY <1>4, <1>9, <1>10, <1>11, <1>12, <1>13

\* Every state that must be left starts a timer when it is entered, or delegates an event.
LEMMA AwakeEntered ==
  ASSUME \A s \in Settings : "leave" \in s.faults => s.maxfaults <= 1,
         TypeOK, RoomLeft, EnterState
  PROVE  Awake'
<1>1. m_state' = step /\ batch' = batch
  BY EnteringMoves
<1>2. SUFFICES ASSUME step' = "idle", m_state' \notin Resting PROVE Awake'
  BY DEF Awake
<1>3. ASSUME NEW e \in {"ERROR", "SOCKET_OPENED", "READY"}, Delegate(<<e>>), Wakes(e)'
      PROVE  Awake'
  <2>1. e \in Due'
    BY <1>1, <1>3, DueDelegated DEF Events
  <2> QED
    BY <1>3, <2>1 DEF Awake
<1>4. ASSUME timer', Wakes("TIMEOUT")' PROVE Awake'
  BY <1>4 DEF Awake
<1>5. [Next]_vars
  BY DEF Next, WorkQueue
<1>6. Faults' = Faults /\ faults \in Nat /\ faults' \in Nat /\ faults' <= faults
  BY <1>5, SettingKept DEF Faults
<1>7. CASE EnterError
  BY <1>1, <1>4, <1>7 DEF EnterError, Enter, Start, Wakes, Waking
<1>8. CASE EnterBoot
  BY <1>1, <1>3, <1>4, <1>8 DEF EnterBoot, Enter, Start, Wakes, Waking
<1>9. CASE EnterPrepare
  BY <1>1, <1>3, <1>4, <1>9 DEF EnterPrepare, Enter, Start, Wakes, Waking
<1>10. CASE EnterRetryDelay
  BY <1>1, <1>3, <1>4, <1>10 DEF EnterRetryDelay, Enter, Start, Wakes, Waking
<1>11. CASE EnterAttach
  BY <1>1, <1>4, <1>11 DEF EnterAttach, Enter, Start, Wakes, Waking
<1>12. CASE EnterOpenSocket
  BY <1>1, <1>3, <1>12 DEF EnterOpenSocket, Enter, Wakes, Waking
<1>13. CASE EnterWakeup
  BY <1>1, <1>3, <1>4, <1>13 DEF EnterWakeup, Enter, Start, Wakes, Waking
<1>14. CASE EnterConeval
  BY <1>1, <1>3, <1>14 DEF EnterConeval, Enter, Wakes, Waking
<1>15. CASE EnterSend
  BY <1>1, <1>2, <1>3, <1>15 DEF EnterSend, Enter, Wakes, Waking
<1>16. CASE EnterReceive
  BY <1>1, <1>2, <1>3, <1>16 DEF EnterReceive, Enter, Wakes, Waking
<1>17. CASE EnterResetLoop
  <2>1. CASE Start
    BY <1>1, <1>4, <1>17, <2>1 DEF EnterResetLoop, Enter, Start, Wakes, Waking
  <2>2. CASE Fault("at") /\ Delegate(<<"ERROR">>)
    <3>1. CannotFail("leave")'
      BY <1>6, <2>2, LteAssumption DEF Fault, Faults, CannotFail, TypeOK, Setting
    <3> QED
      BY <1>1, <1>3, <1>17, <2>2, <3>1 DEF EnterResetLoop, Enter, Wakes, Waking
  <2> QED
    BY <1>17, <2>1, <2>2 DEF EnterResetLoop
<1>18. CASE EnterReady \/ EnterSleep \/ EnterGnss
  BY <1>1, <1>2, <1>18 DEF EnterReady, EnterSleep, EnterGnss, Enter, Resting
<1> QED
  BY <1>7, <1>8, <1>9, <1>10, <1>11, <1>12, <1>13, <1>14, <1>15, <1>16, <1>17, <1>18 DEF EnterState

LEMMA AwakeStep ==
  ASSUME \A s \in Settings : /\ s.reconnects => "fplmn" \notin s.faults
                             /\ "leave" \in s.faults => s.maxfaults <= 1,
         TypeOK, RoomLeft, NeverAsked, Dialogs, UartUp, Awake, [Next]_vars
  PROVE  Awake'
<1>1. CASE UNCHANGED vars
  BY <1>1, AwakeKeeps DEF vars, Due, WaitsForSim
<1>2. CASE HandleEvent
  BY <1>2, AwakeHandled
<1>3. CASE EnterState
  BY <1>3, AwakeEntered
<1>4. CASE Dispatch
  BY <1>4, AwakeKeeps, DueDispatched DEF Dispatch, WaitsForSim
<1>5. CASE TimerExpires
  BY <1>5, AwakeKeeps, DueDelegated DEF TimerExpires, WaitsForSim, fsm, Events
<1>6. CASE PrepareSend
  BY <1>6 DEF PrepareSend, Awake
<1>7. CASE FlowSend \/ FlowRecv
  <2>1. m_state' = m_state /\ batch' = batch
    BY <1>7 DEF FlowSend, FlowRecv
  <2>2. CASE m_state \in Resting
    BY <2>1, <2>2 DEF Awake
  <2>3. CASE FlowSend /\ m_state = "SEND" /\ timer'
    BY <2>1, <2>3 DEF Awake, Wakes, Waking
  <2>4. ASSUME NEW e \in {"ERROR", "RECV"}, Delegate(<<e>>), Wakes(e)' PROVE Awake'
    <3>1. e \in Due'
      BY <2>1, <2>4, DueDelegated DEF Events
    <3> QED
      BY <2>4, <3>1 DEF Awake
  <2>5. CASE FlowSend /\ m_state = "SEND" /\ Delegate(<<"ERROR">>)
    BY <2>1, <2>4, <2>5 DEF Wakes, Waking
  <2>6. CASE FlowRecv /\ m_state = "RECEIVE"
    BY <2>1, <2>4, <2>6 DEF FlowRecv, Wakes, Waking
  <2> QED
    BY <1>7, <2>2, <2>3, <2>5, <2>6 DEF FlowSend, FlowRecv, Dialogs, Resting
<1>8. CASE Reconnect
  BY <1>8 DEF Reconnect, Awake, Resting
<1>10. CASE LeftToReconnect
  <2>1. CASE m_state' = "DISABLED"
    BY <2>1 DEF Awake, Resting
  <2>2. CASE m_state' # "DISABLED"
    <3>1. /\ Fault("leave") /\ Delegate(<<"ERROR", "ENABLE">>)
          /\ UNCHANGED <<m_state, step, batch, timer>>
      BY <1>10, <2>2 DEF LeftToReconnect
    <3>2. Due \cup {"ERROR"} \subseteq Due'
      BY <3>1, DueDelegated DEF Events
    <3>3. CASE m_state = reconnecting
      <4>1. m_state \in SlowToLeave
        BY <1>10, <3>3 DEF LeftToReconnect
      <4>2. CannotFail("leave")'
        <5>1. setting \in Setting /\ setting' = setting /\ faults \in 0..setting.maxfaults
          BY SettingKept, LteAssumption DEF TypeOK
        <5> QED
          BY <3>1, <5>1 DEF Fault, CannotFail, Faults, TypeOK, Setting
      <4>3. Wakes("ERROR")' \/ m_state' \in Resting
        BY <3>1, <4>1, <4>2 DEF SlowToLeave, Wakes, Waking, Resting
      <4> QED
        BY <3>2, <4>3 DEF Awake
    <3>4. CASE m_state # reconnecting
      <4>1. "fplmn" \notin Faults
        BY <1>10 DEF LeftToReconnect, NeverAsked, SlowToLeave, Reconnects, Faults, TypeOK
      <4> QED
        BY <3>1, <3>2, <3>4, <4>1, AwakeKeeps
    <3> QED
      BY <3>3, <3>4
  <2> QED
    BY <2>1, <2>2
<1>9. CASE (\E c \in Callers : Caller(c)) \/ Enable \/ GnssSetEnable \/ Reconnected \/ Modem
  <2>1. UNCHANGED <<m_state, step, timer>> /\ Due \subseteq Due'
    BY <1>9, Outside DEF fsm
  <2>2. "fplmn" \in Faults /\ WaitsForSim => WaitsForSim' \/ "SIMDETECTED" \in Due'
    <3> SUFFICES ASSUME "fplmn" \in Faults, WaitsForSim PROVE WaitsForSim' \/ "SIMDETECTED" \in Due'
      OBVIOUS
    <3>1. ~Reconnected
      BY DEF Reconnected, NeverAsked, Reconnects, Faults, TypeOK
    <3>2. CASE SimDetected
      <4>1. Delegate(<<"SIMDETECTED">>) /\ batch' = batch
        BY <3>2 DEF SimDetected, Line, fsm
      <4> QED
        BY <4>1, DueDelegated DEF Events
    <3>3. CASE ~SimDetected
      <4>1. modem'.sim = modem.sim /\ modem'.uart = modem.uart
        BY <1>9, <3>1, <3>3 DEF Caller, Submit, Done, GiveUp, Stopped, Stuck, Return, Enable, GnssSetEnable,
           Modem, ModemAnswers, ModemReady, Registered, Connected, Released, ModemSleeps,
           Deregistered, ResetLoop, SocketLost, Line, TypeOK, ModemFlags
      <4> QED
        BY <2>1, <4>1 DEF WaitsForSim
    <3> QED
      BY <3>2, <3>3
  <2>3. m_state # reconnecting' => m_state # reconnecting
    BY <1>9 DEF Caller, Submit, Done, GiveUp, Stopped, Stuck, Return, Enable, GnssSetEnable, Reconnected,
       Modem, ModemAnswers, ModemReady, SimDetected, Registered, Connected, Released, ModemSleeps,
       Deregistered, ResetLoop, SocketLost, Line, TypeOK, States
  <2> QED
    BY <2>1, <2>2, <2>3, AwakeKeeps
<1> QED
  BY <1>1, <1>2, <1>3, <1>4, <1>5, <1>6, <1>7, <1>8, <1>9, <1>10 DEF Next, WorkQueue, Api, Modem

\* The conditions under which the state machine cannot be left waiting: on_leave_reset_loop()
\* does not fail twice, and nobody reconnects where forbidden networks are erased.
NoStallBySetting ==
  \A s \in Settings : /\ s.reconnects => "fplmn" \notin s.faults
                      /\ "leave" \in s.faults => s.maxfaults <= 1

Running == TypeOK /\ NeverAsked /\ Dialogs /\ UartUp /\ Awake

LEMMA RunningInit == Init => Running
<1> SUFFICES ASSUME Init PROVE Running
  OBVIOUS
<1>1. TypeOK
  BY TypedInit
<1> QED
  BY <1>1 DEF Init, Running, NeverAsked, Dialogs, UartUp, Preparing, Awake, Resting

LEMMA RunningStep == NoStallBySetting /\ Running /\ RoomLeft /\ [Next]_vars => Running'
BY TypedStep, NeverAskedStep, DialogsStep, UartUpStep, AwakeStep DEF Running, NoStallBySetting

LEMMA RunningNeverStalls == Running => NeverStalls
<1> SUFFICES ASSUME Running, step = "idle", m_state \notin Resting, m_state # reconnecting
             PROVE  Busy \/ WaitsForSim
  BY DEF NeverStalls, Busy, Resting
<1>1. ASSUME NEW event \in Due PROVE batch # <<>> \/ m_event_rb # <<>>
  BY <1>1 DEF Due
<1> QED
  BY <1>1 DEF Running, Awake, Busy

\* As long as the ring of events has room, no handler, on_leave() or on_enter() leaves the
\* machine in a state it must leave by itself without an event or a timer; but for the line
\* of the SIM that PREPARE may wait for.
THEOREM MachineNeverStalls ==
  ASSUME NoStallBySetting
  PROVE  Spec /\ []RoomLeft => []NeverStalls
BY RunningInit, RunningStep, RunningNeverStalls, PTL DEF Spec

-----------------------------------------------------------------------------
(* The socket behind the connected bit *)

\* The modem has its socket, or has lost it in one of the two ways without a message.
Behind == modem.socket \/ modem.spared

\* A SOCKET_OPENED that still waits when the socket is to be opened anew, because the
\* DEREGISTERED and REGISTERED of one batch were handled in between, is still true.
OldNewsTrue ==
  step = "OPEN_SOCKET" /\ "SOCKET_OPENED" \in Due /\ reconnecting = "never" => Behind

\* Who is connected, or is about to be told so, has the socket.
Told ==
  reconnecting = "never" =>
    /\ "CONNECTED" \in bits => Behind
    /\ m_state = "OPEN_SOCKET" /\ step = "idle" /\ "SOCKET_OPENED" \in Due => Behind

\* A step that delegates one event at most adds nothing else to what waits.
LEMMA DueAdded ==
  ASSUME TypeOK, NEW e \in Events,
         UNCHANGED m_event_rb \/ Delegate(<<>>) \/ Delegate(<<e>>),
         batch' = batch \/ (batch # <<>> /\ batch' = Tail(batch))
  PROVE  Due' \subseteq Due \cup {e}
<1>1. \A i \in DOMAIN batch' : \E j \in DOMAIN batch : batch'[i] = batch[j]
  <2>1. CASE batch # <<>> /\ batch' = Tail(batch)
    <3>1. /\ batch \in Seq(Events) /\ Len(batch) \in Nat
          /\ batch' \in Seq(Events) /\ Len(batch') = Len(batch) - 1
          /\ \A i \in 1..Len(batch') : batch'[i] = batch[i + 1]
      BY <2>1, HeadTailProperties DEF TypeOK
    <3>2. DOMAIN batch' = 1..(Len(batch) - 1) /\ DOMAIN batch = 1..Len(batch)
      BY <3>1
    <3>3. \A i \in 1..(Len(batch) - 1) : i + 1 \in 1..Len(batch)
      BY <3>1
    <3> QED
      BY <3>1, <3>2, <3>3
  <2> QED
    BY <2>1
<1>2. ASSUME NEW events \in {<<>>, <<e>>}, Delegate(events), NEW i \in DOMAIN m_event_rb'
      PROVE  m_event_rb'[i] = e \/ \E j \in DOMAIN m_event_rb : m_event_rb'[i] = m_event_rb[j]
  <2> DEFINE all == m_event_rb \o events
             n == IF Len(all) < RingSize THEN Len(all) ELSE RingSize
  <2>1. /\ m_event_rb \in Seq(Events) /\ events \in Seq(Events) /\ Len(m_event_rb) \in Nat
        /\ RingSize \in Nat /\ Len(events) \in {0, 1} /\ (Len(events) = 1 => events[1] = e)
    <3>1. <<e>> \in Seq(Events) /\ Len(<<e>>) = 1 /\ <<e>>[1] = e /\ Len(<<>>) = 0
      OBVIOUS
    <3>2. <<>> \in Seq(Events)
      BY EmptySeq
    <3>3. m_event_rb \in Seq(Events) /\ Len(m_event_rb) \in Nat /\ RingSize \in Nat
      BY LteAssumption DEF TypeOK
    <3>4. CASE events = <<>>
      BY <3>1, <3>2, <3>3, <3>4
    <3>5. CASE events = <<e>>
      BY <3>1, <3>3, <3>5
    <3> QED
      BY <1>2, <3>4, <3>5
  <2>2. /\ all \in Seq(Events) /\ Len(all) = Len(m_event_rb) + Len(events)
        /\ \A k \in 1..Len(all) :
             all[k] = IF k <= Len(m_event_rb) THEN m_event_rb[k] ELSE events[k - Len(m_event_rb)]
    BY <2>1, ConcatProperties
  <2>3. n \in Nat /\ n <= Len(all) /\ Len(all) \in Nat
    BY <2>1, <2>2
  <2> HIDE DEF all, n
  <2>4. \A k \in 1..n : k \in 1..Len(all)
    BY <2>3
  <2>5. \A k \in 1..n : all[k] \in Events
    BY <2>2, <2>4, ElementOfSeq
  <2>6. m_event_rb' = SubSeq(all, 1, n)
    BY <1>2 DEF Delegate, Delegated, all, n
  <2>7. /\ m_event_rb' \in Seq(Events) /\ Len(m_event_rb') = n
        /\ \A k \in 1..n : m_event_rb'[k] = all[k]
    BY <2>3, <2>5, <2>6, SubSeqProperties
  <2>8. i \in 1..n
    BY <1>2, <2>7
  <2>9. m_event_rb'[i] = all[i] /\ i \in 1..Len(all) /\ i \in Nat
    BY <2>4, <2>7, <2>8
  <2>10. CASE i <= Len(m_event_rb)
    BY <2>1, <2>2, <2>9, <2>10
  <2>11. CASE i > Len(m_event_rb)
    <3>1. i - Len(m_event_rb) = 1 /\ Len(events) = 1
      BY <2>1, <2>2, <2>9, <2>11
    <3> QED
      BY <2>1, <2>2, <2>9, <2>11, <3>1
  <2> QED
    BY <2>1, <2>9, <2>10, <2>11
<1> QED
  BY <1>1, <1>2 DEF Due

\* A step that takes nothing away and tells nothing new.
LEMMA ToldKeeps ==
  ASSUME Told,
         reconnecting' = "never" => reconnecting = "never",
         Behind => Behind',
         "CONNECTED" \in bits' => "CONNECTED" \in bits,
         m_state' = "OPEN_SOCKET" /\ step' = "idle" /\ "SOCKET_OPENED" \in Due' =>
           m_state = "OPEN_SOCKET" /\ step = "idle" /\ "SOCKET_OPENED" \in Due
  PROVE  Told'
BY DEF Told

\* The handlers.
LEMMA ToldHandled ==
  ASSUME TypeOK, Attached, Told, HandleEvent
  PROVE  Told'
<1>1. m_state' = m_state /\ reconnecting' = reconnecting /\ step = "idle"
  BY DEF HandleEvent, Transit, ErrorTimeout, LeaveDisabled, LeaveResetLoop, LeaveGnss, TrackCscon,
     SimDetectedInPrepare, SocketOpened, ReadySend, ReadyDeregistered, ReadyTimeout, WakeupReady,
     SendAbandoned, SendConnected, ReceiveLeft, Ignore, Handle
<1>2. ASSUME reconnecting = "never", "CONNECTED" \in bits PROVE m_state \notin Off
  BY <1>2 DEF Attached
<1>3. CASE LeaveResetLoop
  BY <1>1, <1>2, <1>3 DEF LeaveResetLoop, Handle, Off, Told
<1>4. CASE SimDetectedInPrepare
  BY <1>1, <1>2, <1>4 DEF SimDetectedInPrepare, Handle, Off, Told
<1>5. CASE SocketOpened
  <2>1. /\ m_state = "OPEN_SOCKET" /\ "SOCKET_OPENED" \in Due /\ modem' = modem /\ step' # "idle"
    <3>1. /\ m_state = "OPEN_SOCKET" /\ modem' = modem /\ step' # "idle"
          /\ batch \in Seq(Events) /\ batch # <<>> /\ Head(batch) = "SOCKET_OPENED"
      BY <1>5 DEF SocketOpened, Handle, TransitionTo, TypeOK
    <3>2. 1 \in DOMAIN batch /\ batch[1] = "SOCKET_OPENED"
      BY <3>1, EmptySeq
    <3> QED
      BY <3>1, <3>2 DEF Due
  <2> QED
    BY <1>1, <2>1 DEF Told, Behind
<1>6. CASE HandleEvent /\ ~LeaveResetLoop /\ ~SimDetectedInPrepare /\ ~SocketOpened
  <2>1. "CONNECTED" \in bits' => "CONNECTED" \in bits
    <3>1. CASE SendAbandoned \/ SendConnected \/ ReceiveLeft
      BY <3>1 DEF SendAbandoned, SendConnected, ReceiveLeft, Abandon, Answered
    <3>2. CASE Transit \/ ErrorTimeout \/ LeaveDisabled \/ LeaveGnss \/ TrackCscon
      BY <3>2 DEF Transit, ErrorTimeout, LeaveDisabled, LeaveGnss, TrackCscon
    <3>3. CASE ReadySend \/ ReadyDeregistered \/ ReadyTimeout \/ WakeupReady \/ Ignore
      BY <3>3 DEF ReadySend, ReadyDeregistered, ReadyTimeout, WakeupReady, Ignore
    <3> QED
      BY <1>6, <3>1, <3>2, <3>3 DEF HandleEvent
  <2>2. Behind => Behind'
    <3>1. CASE ReadyTimeout
      BY <3>1 DEF ReadyTimeout, Behind, Spared, Offline, TypeOK, ModemFlags
    <3>2. CASE WakeupReady
      BY <3>2 DEF WakeupReady, Behind, TypeOK, ModemFlags
    <3>3. CASE LeaveGnss
      BY <3>3 DEF LeaveGnss, GnssLeft, Behind, TypeOK, ModemFlags
    <3>4. CASE ~ReadyTimeout /\ ~WakeupReady /\ ~LeaveGnss
      BY <1>6, <3>4 DEF HandleEvent, Transit, ErrorTimeout, LeaveDisabled, TrackCscon, ReadySend,
         ReadyDeregistered, SendAbandoned, SendConnected, ReceiveLeft, Ignore, Abandon, Behind
    <3> QED
      BY <3>1, <3>2, <3>3, <3>4
  <2>3. m_state = "OPEN_SOCKET" /\ step' = "idle" => Due' \subseteq Due
    <3> SUFFICES ASSUME m_state = "OPEN_SOCKET", step' = "idle" PROVE Due' \subseteq Due
      OBVIOUS
    <3>1. TrackCscon \/ Ignore
      BY <1>1, <1>6, HandlersMove DEF HandleEvent, LeaveDisabled, LeaveGnss, ReadySend, ReadyDeregistered,
         ReadyTimeout, WakeupReady, Handle, States
    <3>2. PICK event \in Events : Handle({m_state}, event)
      <4>1. PICK in, event : Handle(in, event)
        BY <3>1 DEF TrackCscon, Ignore
      <4> QED
        BY <4>1, HandleTyped DEF Handle
    <3>3. Due' \subseteq Due \cup {event} /\ event \in Due
      <4>1. batch # <<>> /\ batch' = Tail(batch) /\ UNCHANGED m_event_rb
        BY <3>1, <3>2 DEF TrackCscon, Ignore, Handle
      <4>2. batch \in Seq(Events) /\ Head(batch) = event
        BY <3>2 DEF Handle, TypeOK
      <4>3. 1 \in DOMAIN batch /\ batch[1] = event
        BY <4>1, <4>2, EmptySeq
      <4> QED
        BY <4>1, <4>3, DueAdded DEF Due
    <3> QED
      BY <3>3
  <2> QED
    BY <1>1, <2>1, <2>2, <2>3, ToldKeeps
<1> QED
  BY <1>3, <1>4, <1>5, <1>6

\* Entering a state: the radio goes off in states in which the bit is not set.
LEMMA ToldEntered ==
  ASSUME TypeOK, OldNewsTrue, Attached, Attached', Told, EnterState
  PROVE  Told'
<1>1. m_state' = step /\ step \in States /\ reconnecting' = reconnecting /\ batch' = batch
  <2>1. reconnecting' = reconnecting
    BY DEF EnterState, EnterError, EnterBoot, EnterPrepare, EnterResetLoop, EnterRetryDelay, EnterAttach,
       EnterOpenSocket, EnterReady, EnterSleep, EnterWakeup, EnterSend, EnterReceive, EnterConeval,
       EnterGnss, Enter
  <2> QED
    BY <2>1, EnteringMoves
<1>2. SUFFICES ASSUME reconnecting = "never" PROVE Told'
  BY <1>1 DEF Told
<1>3. CASE EnterBoot \/ EnterPrepare \/ EnterResetLoop \/ EnterRetryDelay
  <2>1. step \in Off
    BY <1>3 DEF EnterBoot, EnterPrepare, EnterResetLoop, EnterRetryDelay, Enter, Off
  <2> QED
    BY <1>1, <1>2, <2>1 DEF Attached, Told, Off
<1>4. CASE EnterOpenSocket
  <2>1. step = "OPEN_SOCKET" /\ "CONNECTED" \notin bits'
    BY <1>4 DEF EnterOpenSocket, Enter
  <2>2. CASE modem' = [modem EXCEPT !.socket = TRUE, !.spared = FALSE]
    BY <2>1, <2>2 DEF Told, Behind, TypeOK, ModemFlags
  <2>3. CASE Delegate(<<"ERROR">>) /\ modem' \in {modem, [modem EXCEPT !.socket = @ \/ Check # "down"]}
    <3>1. Due' \subseteq Due \cup {"ERROR"}
      BY <1>1, <2>3, DueAdded DEF Events
    <3>2. Behind => Behind'
      BY <2>3 DEF Behind, TypeOK, ModemFlags
    <3> QED
      BY <1>2, <2>1, <3>1, <3>2 DEF Told, OldNewsTrue
  <2> QED
    BY <1>4, <2>2, <2>3 DEF EnterOpenSocket
<1>5. CASE EnterState /\ ~EnterBoot /\ ~EnterPrepare /\ ~EnterResetLoop /\ ~EnterRetryDelay /\ ~EnterOpenSocket
  <2>1. m_state' # "OPEN_SOCKET" /\ ("CONNECTED" \in bits' => "CONNECTED" \in bits)
    BY <1>5 DEF EnterState, EnterError, EnterAttach, EnterReady, EnterSleep, EnterWakeup, EnterSend,
       EnterReceive, EnterConeval, EnterGnss, Enter
  <2>2. Behind => Behind'
    <3>1. CASE EnterError \/ EnterSleep \/ EnterWakeup
      BY <3>1 DEF EnterError, EnterSleep, EnterWakeup, Behind, TypeOK, ModemFlags
    <3>2. CASE EnterGnss
      BY <3>2 DEF EnterGnss, Behind, Spared, Offline, TypeOK, ModemFlags
    <3>3. CASE EnterAttach \/ EnterReady \/ EnterSend \/ EnterReceive \/ EnterConeval
      BY <3>3 DEF EnterAttach, EnterReady, EnterSend, EnterReceive, EnterConeval, Behind
    <3> QED
      BY <1>5, <3>1, <3>2, <3>3 DEF EnterState
  <2> QED
    BY <1>1, <2>1, <2>2, ToldKeeps
<1> QED
  BY <1>3, <1>4, <1>5 DEF EnterState

\* The work queue between two states, and the other threads.
LEMMA ToldStep ==
  ASSUME TypeOK, Dialogs, OldNewsTrue, Attached, Attached', Told, [Next]_vars
  PROVE  Told'
<1>1. CASE UNCHANGED vars
  BY <1>1, ToldKeeps DEF vars, Due, Behind
<1>2. CASE HandleEvent
  BY <1>2, ToldHandled
<1>3. CASE EnterState
  BY <1>3, ToldEntered
<1>4. CASE Dispatch
  BY <1>4, DueDispatched, ToldKeeps DEF Dispatch, Behind
<1>5. CASE TimerExpires
  <2>1. Due' \subseteq Due \cup {"TIMEOUT"}
    BY <1>5, DueAdded DEF TimerExpires, fsm, Events
  <2> QED
    BY <1>5, <2>1, ToldKeeps DEF TimerExpires, fsm, Behind
<1>6. CASE PrepareSend
  BY <1>6, ToldKeeps DEF PrepareSend, Behind
<1>7. CASE FlowSend \/ FlowRecv
  <2>2. Behind => Behind'
    BY <1>7 DEF FlowSend, FlowRecv, Behind, TypeOK, ModemFlags
  <2>3. /\ "CONNECTED" \in bits' => "CONNECTED" \in bits
        /\ m_state' = m_state /\ reconnecting' = reconnecting
    BY <1>7 DEF FlowSend, FlowRecv, Answered
  <2>4. m_state # "OPEN_SOCKET"
    BY <1>7 DEF FlowSend, FlowRecv, Dialogs
  <2> QED
    BY <2>2, <2>3, <2>4, ToldKeeps
<1>8. ASSUME NEW c \in Callers, Caller(c) PROVE Told'
  <2>1. \E e \in {"SEND", "ERROR"} : Due' \subseteq Due \cup {e}
    BY <1>8, DueAdded DEF Caller, Submit, Done, GiveUp, Stopped, Stuck, Return, fsm, Events
  <2>2. /\ "CONNECTED" \in bits' => "CONNECTED" \in bits
        /\ UNCHANGED <<m_state, step, reconnecting, modem>>
    BY <1>8 DEF Caller, Submit, Done, GiveUp, Stopped, Stuck, Return, fsm
  <2> QED
    BY <2>1, <2>2, ToldKeeps DEF Behind
<1>9. CASE Reconnect \/ LeftToReconnect \/ Reconnected
  BY <1>9 DEF Reconnect, LeftToReconnect, Reconnected, Told, SlowToLeave
<1>10. CASE Enable \/ GnssSetEnable
  <2>1. \E e \in {"ENABLE", "XGPS_ENABLE", "XGPS_DISABLE"} : Due' \subseteq Due \cup {e}
    BY <1>10, DueAdded DEF Enable, GnssSetEnable, fsm, Events
  <2> QED
    BY <1>10, <2>1, ToldKeeps DEF Enable, GnssSetEnable, fsm, Behind
<1>11. CASE Modem
  <2>1. UNCHANGED <<m_state, step, bits, reconnecting, batch>>
    BY <1>11 DEF Modem, ModemAnswers, ModemReady, SimDetected, Registered, Connected, Released,
       ModemSleeps, Deregistered, ResetLoop, SocketLost, Line, fsm
  <2>2. Behind => Behind'
    BY <1>11 DEF Modem, ModemAnswers, ModemReady, SimDetected, Registered, Connected, Released,
       ModemSleeps, Deregistered, ResetLoop, SocketLost, Line, Behind, TypeOK, ModemFlags
  <2>3. "SOCKET_OPENED" \in Due' => "SOCKET_OPENED" \in Due
    <3>1. ASSUME NEW event \in Events \ {"SOCKET_OPENED"}, NEW changed, Line(event, changed)
          PROVE  "SOCKET_OPENED" \in Due' => "SOCKET_OPENED" \in Due
      BY <2>1, <3>1, DueAdded DEF Line
    <3>2. CASE SocketLost
      BY <3>2 DEF SocketLost, fsm, Due
    <3>3. {"READY", "SIMDETECTED", "REGISTERED", "DEREGISTERED", "CSCON_1", "CSCON_0",
           "XMODMSLEEP", "RESET_LOOP"} \subseteq Events \ {"SOCKET_OPENED"}
      BY DEF Events
    <3> QED
      BY <1>11, <3>1, <3>2, <3>3 DEF Modem, ModemAnswers, ModemReady, SimDetected, Registered,
         Connected, Released, ModemSleeps, Deregistered, ResetLoop
  <2> QED
    BY <2>1, <2>2, <2>3, ToldKeeps
<1> QED
  BY <1>1, <1>2, <1>3, <1>4, <1>5, <1>6, <1>7, <1>8, <1>9, <1>10, <1>11
     DEF Next, WorkQueue, Api, Modem

\* The connected bit of ctr_lte_v2 has a socket behind it, but for one that the network has
\* closed or that was closed to save power, until the first ctr_lte_v2_reconnect(): whatever
\* fails and whatever the machine races with, as long as no SOCKET_OPENED from before a
\* restart of the modem is handled after it.
THEOREM ConnectedBehindSocket == Spec /\ []OldNewsTrue => []ConnectedHasSocket
<1>1. Init => Dialogs /\ Attached /\ Told
  BY DEF Init, Dialogs, Attached, Told
<1>2. Told => ConnectedHasSocket
  BY DEF Told, Behind, ConnectedHasSocket
<1>3. TypeOK /\ Dialogs /\ OldNewsTrue /\ Attached /\ Told /\ [Next]_vars => Dialogs' /\ Attached' /\ Told'
  BY DialogsStep, AttachedStep, ToldStep
<1> QED
  BY <1>1, <1>2, <1>3, TypedInit, TypedStep, PTL DEF Spec

-----------------------------------------------------------------------------
(* ctr_lte_v2_reconnect() *)

\* Once ctr_lte_v2_reconnect() is through an ENABLE event waits while the machine is in
\* DISABLED, or, when on_leave_disabled() has failed, an ERROR event that will do as well.
Resumes ==
  m_state = "DISABLED" /\ reconnecting = "done" /\ step \in Working \cup {"idle"} =>
    "ENABLE" \in Due \/ ("ERROR" \in Due /\ CannotFail("rfmux"))

\* A step that handles neither event.
LEMMA ResumesKeeps ==
  ASSUME TypeOK, [Next]_vars, Resumes,
         m_state' = "DISABLED" => m_state = "DISABLED",
         reconnecting' = reconnecting,
         step' \in Working \cup {"idle"} => step \in Working \cup {"idle"},
         Due \cap {"ENABLE", "ERROR"} \subseteq Due'
  PROVE  Resumes'
<1>1. Faults' = Faults /\ faults \in Nat /\ faults' \in Nat /\ faults' <= faults
  BY SettingKept DEF Faults
<1> QED
  BY <1>1 DEF Resumes, CannotFail, Working

\* on_leave_disabled() is tried once for ENABLE and once more for ERROR.
LEMMA ResumesHandled ==
  ASSUME \A s \in Settings : s.reconnects /\ "rfmux" \in s.faults => s.maxfaults <= 1,
         TypeOK, RoomLeft, NeverAsked, Resumes, HandleEvent
  PROVE  Resumes'
<1>1. m_state' = m_state /\ (step' \in States \/ step' = "idle")
  BY HandlersMove
<1>2. PICK event \in Due : Handle({m_state}, event) /\ Due \ {event} \subseteq Due'
  BY OthersWait
<1>3. step = "idle" /\ reconnecting' = reconnecting /\ batch # <<>> /\ Head(batch) = event
  BY <1>2 DEF Handle
<1>4. SUFFICES ASSUME m_state = "DISABLED", reconnecting = "done", step' = "idle"
               PROVE  "ENABLE" \in Due' \/ ("ERROR" \in Due' /\ CannotFail("rfmux")')
  BY <1>1, <1>3 DEF Resumes, Working, States
<1>5. "ENABLE" \in Due \/ ("ERROR" \in Due /\ CannotFail("rfmux"))
  BY <1>3, <1>4 DEF Resumes
<1>6. [Next]_vars
  BY DEF Next, WorkQueue
<1>7. Faults' = Faults /\ faults \in Nat /\ faults' \in Nat /\ faults' <= faults
  BY <1>6, SettingKept DEF Faults
<1>8. CASE LeaveDisabled
  <2>1. PICK t \in {<<"ENABLE", "BOOT">>, <<"ERROR", "ERROR">>} : LeaveDisabled!(t)
    BY <1>8 DEF LeaveDisabled
  <2>2. /\ t[1] = event /\ Fault("rfmux")
        /\ Delegate(IF t[2] = "ERROR" THEN <<>> ELSE <<"ERROR">>)
    BY <1>3, <1>4, <2>1 DEF Handle, TransitionTo
  <2>3. ~CannotFail("rfmux") /\ CannotFail("rfmux")'
    <3>1. Reconnects
      BY <1>4 DEF NeverAsked
    <3>2. "rfmux" \in Faults /\ faults = 1 /\ faults' = 0
      BY <1>7, <2>2, <3>1, LteAssumption DEF Fault, Faults, Reconnects, TypeOK, Setting
    <3> QED
      BY <1>7, <3>2 DEF CannotFail
  <2>4. CASE event = "ENABLE"
    <3>1. "ERROR" \in Due'
      BY <1>2, <2>1, <2>2, <2>4, DueHandled DEF Events
    <3> QED
      BY <2>3, <3>1
  <2>5. CASE event = "ERROR"
    BY <1>2, <1>5, <2>3, <2>5
  <2> QED
    BY <2>1, <2>2, <2>4, <2>5
<1>9. CASE Ignore
  <2>1. PICK e \in Ignored(m_state) : Handle({m_state}, e)
    BY <1>9 DEF Ignore
  <2>2. e = event
    BY <1>3, <2>1 DEF Handle
  <2>3. event \notin {"ENABLE", "ERROR"}
    BY <1>4, <2>1, <2>2 DEF Ignored, OtherCases
  <2> QED
    BY <1>2, <1>5, <1>7, <2>3 DEF CannotFail
<1>10. CASE Transit
  <2>1. PICK t \in Transitions : Handle({t[1]}, t[2])
    BY <1>10 DEF Transit
  <2>2. t[1] = "DISABLED"
    BY <1>4, <2>1 DEF Handle
  <2> QED
    BY <2>2 DEF Transitions, PlainTransitions, ErrorTransitions
<1>11. CASE HandleEvent /\ ~LeaveDisabled /\ ~Ignore /\ ~Transit
  BY <1>4, <1>11 DEF HandleEvent, ErrorTimeout, LeaveResetLoop, LeaveGnss, TrackCscon, Cscon0Seen,
     Cscon1Seen, SimDetectedInPrepare, SocketOpened, ReadySend, ReadyDeregistered, ReadyTimeout,
     WakeupReady, SendAbandoned, SendConnected, ReceiveLeft, Handle
<1> QED
  BY <1>8, <1>9, <1>10, <1>11

LEMMA ResumesStep ==
  ASSUME \A s \in Settings : s.reconnects /\ "rfmux" \in s.faults => s.maxfaults <= 1,
         TypeOK, RoomLeft, NeverAsked, Resumes, [Next]_vars
  PROVE  Resumes'
<1>1. CASE UNCHANGED vars
  BY <1>1, ResumesKeeps DEF vars, Due
<1>2. CASE HandleEvent
  BY <1>2, ResumesHandled
<1>3. CASE EnterState
  BY <1>3, EnteringMoves DEF Resumes
<1>4. CASE Dispatch
  BY <1>4, ResumesKeeps, DueDispatched DEF Dispatch
<1>5. CASE TimerExpires
  BY <1>5, ResumesKeeps, DueDelegated DEF TimerExpires, fsm, Events
<1>6. CASE PrepareSend \/ FlowSend \/ FlowRecv
  <2>1. Due \subseteq Due'
    BY <1>6, DueDelegated DEF PrepareSend, FlowSend, FlowRecv, Events
  <2> QED
    BY <1>6, <2>1, ResumesKeeps DEF PrepareSend, FlowSend, FlowRecv, Working
<1>7. CASE Reconnect
  BY <1>7 DEF Reconnect, Resumes, SlowToLeave, TypeOK, States
<1>8. CASE LeftToReconnect \/ Reconnected
  <2>1. CASE Reconnected /\ Delegate(<<"ENABLE">>)
    BY <2>1, DueDelegated DEF Reconnected, Resumes, fsm, Events
  <2>2. CASE LeftToReconnect /\ reconnecting' = "now"
    BY <2>2 DEF Resumes
  <2>3. ASSUME NEW kind, Fault(kind), Delegate(<<"ERROR", "ENABLE">>), batch' = batch
        PROVE  Resumes'
    <3>1. "ERROR" \in Due'
      BY <2>3, DueDelegated DEF Events
    <3>2. Reconnects
      BY <1>8 DEF LeftToReconnect, Reconnected, NeverAsked, SlowToLeave
    <3>3. CannotFail("rfmux")'
      <4>1. setting \in Setting /\ setting' = setting /\ faults \in 0..setting.maxfaults
        BY SettingKept, LteAssumption DEF TypeOK
      <4>2. faults > 0 /\ faults' = faults - 1
        BY <2>3 DEF Fault
      <4>3. CASE "rfmux" \in Faults
        <5>1. setting.maxfaults \in Nat /\ setting.maxfaults <= 1
          BY <3>2, <4>1, <4>3 DEF Faults, Reconnects, TypeOK, Setting
        <5>2. faults = 1
          BY <4>1, <4>2, <5>1
        <5> QED
          BY <4>2, <5>2 DEF CannotFail
      <4>4. CASE "rfmux" \notin Faults
        BY <4>1, <4>4 DEF CannotFail, Faults
      <4> QED
        BY <4>3, <4>4
    <3> QED
      BY <3>1, <3>3 DEF Resumes
  <2> QED
    BY <1>8, <2>1, <2>2, <2>3 DEF LeftToReconnect, Reconnected, fsm
<1>9. CASE (\E c \in Callers : Caller(c)) \/ Enable \/ GnssSetEnable \/ Modem
  <2>1. UNCHANGED <<m_state, step>> /\ Due \subseteq Due'
    BY <1>9, Outside DEF fsm
  <2>2. reconnecting' = reconnecting
    BY <1>9 DEF Caller, Submit, Done, GiveUp, Stopped, Stuck, Return, Enable, GnssSetEnable, Modem,
       ModemAnswers, ModemReady, SimDetected, Registered, Connected, Released, ModemSleeps, Deregistered,
       ResetLoop, SocketLost, Line
  <2> QED
    BY <2>1, <2>2, ResumesKeeps
<1> QED
  BY <1>1, <1>2, <1>3, <1>4, <1>5, <1>6, <1>7, <1>8, <1>9 DEF Next, WorkQueue, Api, Modem

\* ctr_lte_v2_reconnect() never leaves the modem switched off, whatever batch, timer, line or
\* call it races with: as long as the ring has room, and the RF multiplexer that
\* on_leave_disabled() needs does not fail twice.
THEOREM ReconnectNeverLost ==
  ASSUME \A s \in Settings : s.reconnects /\ "rfmux" \in s.faults => s.maxfaults <= 1
  PROVE  Spec /\ []RoomLeft => []ReconnectResumes
<1>1. Init => NeverAsked /\ Resumes
  BY DEF Init, NeverAsked, Resumes
<1>2. Resumes => ReconnectResumes
  <2> SUFFICES ASSUME Resumes, m_state = "DISABLED", reconnecting = "done", step = "idle"
               PROVE  batch # <<>> \/ m_event_rb # <<>>
    BY DEF ReconnectResumes, Busy
  <2>1. Due # {}
    BY DEF Resumes
  <2> QED
    BY <2>1 DEF Due
<1>3. TypeOK /\ NeverAsked /\ Resumes /\ RoomLeft /\ [Next]_vars => NeverAsked' /\ Resumes'
  BY NeverAskedStep, ResumesStep
<1> QED
  BY <1>1, <1>2, <1>3, TypedInit, TypedStep, PTL DEF Spec

-----------------------------------------------------------------------------
(* Requests are remembered *)

\* A request that nobody has answered is worked on from READY and from SLEEP: the event that
\* sends it waits, or an ERROR after which READY is entered anew.  In flight mode, which
\* READY itself has asked for, it waits for the modem to sleep.
Remembered ==
  m_send_recv_param # NoCaller /\ "DONE" \notin bits /\ step = "idle" =>
    /\ m_state = "READY" => "CFUN4" \in m_flag \/ "SEND" \in Due \/ "ERROR" \in Due
    /\ m_state = "SLEEP" => "SEND" \in Due

LEMMA RememberedStep ==
  ASSUME \A s \in Settings : ~s.timeout /\ ~s.gnss /\ "uart" \notin s.faults,
         TypeOK, RoomLeft, Owned, Dialogs, Remembered, [Next]_vars
  PROVE  Remembered'
<1>1. ~Gnss /\ "uart" \notin Faults /\ ~FiniteTimeout
  BY DEF Gnss, Faults, FiniteTimeout, TypeOK
<1>2. ASSUME UNCHANGED <<m_state, step, m_send_recv_param>>,
             "CFUN4" \in m_flag => "CFUN4" \in m_flag',
             "DONE" \in bits => "DONE" \in bits',
             Due \subseteq Due'
      PROVE  Remembered'
  BY <1>2 DEF Remembered
<1>3. CASE UNCHANGED vars
  BY <1>2, <1>3 DEF vars, Due
<1>4. CASE HandleEvent
  <2>1. m_state' = m_state /\ (step' \in States \/ step' = "idle")
    BY <1>4, HandlersMove
  <2>2. PICK event \in Due : Handle({m_state}, event) /\ Due \ {event} \subseteq Due'
    BY <1>4, OthersWait
  <2>3. step = "idle" /\ batch # <<>> /\ Head(batch) = event
    BY <2>2 DEF Handle
  <2>4. SUFFICES ASSUME m_state \in {"READY", "SLEEP"}, step' = "idle",
                        m_send_recv_param' # NoCaller, "DONE" \notin bits'
                 PROVE  /\ m_state = "READY" =>
                             "CFUN4" \in m_flag' \/ "SEND" \in Due' \/ "ERROR" \in Due'
                        /\ m_state = "SLEEP" => "SEND" \in Due'
    BY <2>1 DEF Remembered
  <2>5. "idle" \notin States /\ "ERROR" \in Events
    BY DEF States, Events
  <2>6. TrackCscon \/ ReadySend \/ ReadyDeregistered \/ ReadyTimeout \/ Ignore
    <3>1. ~Transit
      <4> SUFFICES ASSUME Transit PROVE FALSE
        OBVIOUS
      <4>1. PICK t \in Transitions :
              Handle({t[1]}, t[2]) /\ TransitionTo(Target(t[1], t[2], t[3]))
        BY DEF Transit
      <4>2. step' \in States
        BY <4>1, TransitionTargets DEF TransitionTo, Target, States
      <4> QED
        BY <2>4, <2>5, <4>2
    <3> QED
      BY <1>4, <2>4, <3>1 DEF HandleEvent, ErrorTimeout, LeaveDisabled, LeaveResetLoop, LeaveGnss,
         SimDetectedInPrepare, SocketOpened, WakeupReady, SendAbandoned, SendConnected, ReceiveLeft, Handle
  <2>7. m_send_recv_param # NoCaller /\ "DONE" \notin bits
    BY <2>4, <2>6 DEF TrackCscon, ReadySend, ReadyDeregistered, ReadyTimeout, Ignore, request
  <2>8. /\ m_state = "READY" => "CFUN4" \in m_flag \/ "SEND" \in Due \/ "ERROR" \in Due
        /\ m_state = "SLEEP" => "SEND" \in Due
    BY <2>3, <2>7 DEF Remembered
  <2>9. CASE TrackCscon
    <3>1. event \in {"CSCON_0", "CSCON_1"} /\ ("CFUN4" \in m_flag => "CFUN4" \in m_flag')
      BY <2>3, <2>9 DEF TrackCscon, Handle
    <3> QED
      BY <2>2, <2>8, <3>1
  <2>10. CASE ReadySend
    <3>1. m_state = "READY" /\ ("CFUN4" \in m_flag' \/ Delegate(<<"ERROR">>))
      BY <2>4, <2>10 DEF ReadySend, Handle
    <3> QED
      BY <2>2, <2>5, <3>1, DueHandled
  <2>11. CASE ReadyDeregistered
    BY <2>4, <2>11 DEF ReadyDeregistered, TransitionTo, Handle
  <2>12. CASE ReadyTimeout
    <3>1. m_state = "READY" /\ ("CFUN4" \in m_flag' \/ Delegate(<<"ERROR">>))
      BY <2>4, <2>12 DEF ReadyTimeout, TransitionTo, Handle
    <3> QED
      BY <2>2, <2>5, <3>1, DueHandled
  <2>13. CASE Ignore
    <3>1. PICK e \in Ignored(m_state) : Handle({m_state}, e)
      BY <2>13 DEF Ignore
    <3>2. e = event
      BY <2>3, <3>1 DEF Handle
    <3>3. m_state = "READY" => event \notin {"SEND", "ERROR"}
      <4>1. <<"READY", "SEND">> \in OtherCases
        BY DEF OtherCases
      <4>2. <<"READY", "ERROR", "ERROR">> \in Transitions
        BY DEF Transitions, ErrorTransitions
      <4> QED
        BY <3>1, <3>2, <4>1, <4>2 DEF Ignored
    <3>4. m_state = "SLEEP" => event # "SEND"
      <4>1. <<"SLEEP", "SEND", "WAKEUP">> \in Transitions
        BY DEF Transitions, PlainTransitions
      <4> QED
        BY <3>1, <3>2, <4>1 DEF Ignored
    <3>5. m_flag' = m_flag
      BY <2>13 DEF Ignore
    <3> QED
      BY <2>2, <2>8, <3>3, <3>4, <3>5
  <2> QED
    BY <2>6, <2>9, <2>10, <2>11, <2>12, <2>13
<1>5. CASE EnterState
  <2>1. m_state' = step /\ batch' = batch
    BY <1>5, EnteringMoves
  <2>2. Delegate(<<"SEND">>) => "SEND" \in Due'
    BY <2>1, DueDelegated DEF Events
  <2>3. CASE EnterReady
    BY <2>1, <2>2, <2>3 DEF EnterReady, Enter, Remembered, request
  <2>4. CASE EnterSleep
    BY <1>1, <2>1, <2>2, <2>4 DEF EnterSleep, Enter, Fault, Remembered, request
  <2>5. CASE ~EnterReady /\ ~EnterSleep
    <3>1. step \notin {"READY", "SLEEP"}
      BY <1>5, <2>5 DEF EnterState, EnterError, EnterBoot, EnterPrepare, EnterResetLoop, EnterRetryDelay,
         EnterAttach, EnterOpenSocket, EnterWakeup, EnterSend, EnterReceive, EnterConeval, EnterGnss, Enter
    <3> QED
      BY <2>1, <3>1 DEF Remembered
  <2> QED
    BY <2>3, <2>4, <2>5
<1>6. CASE Dispatch
  BY <1>2, <1>6, DueDispatched DEF Dispatch, request
<1>7. CASE TimerExpires
  BY <1>2, <1>7, DueDelegated DEF TimerExpires, fsm, request, Events
<1>8. CASE PrepareSend \/ FlowSend \/ FlowRecv
  BY <1>8 DEF PrepareSend, FlowSend, FlowRecv, Dialogs, Remembered
<1>9. CASE Reconnect
  BY <1>9 DEF Reconnect, Remembered, SlowToLeave
<1>12. CASE LeftToReconnect
  <2>1. CASE m_state' = "DISABLED"
    BY <2>1 DEF Remembered
  <2>2. CASE m_state' # "DISABLED"
    <3>1. Due \subseteq Due'
      BY <1>12, <2>2, DueDelegated DEF LeftToReconnect, Events
    <3> QED
      BY <1>2, <1>12, <2>2, <3>1 DEF LeftToReconnect, request
  <2> QED
    BY <2>1, <2>2
<1>10. ASSUME NEW c \in Callers, Caller(c) PROVE Remembered'
  <2>1. CASE Submit(c)
    <3>1. Delegate(<<"SEND">>) /\ batch' = batch
      BY <2>1 DEF Submit, fsm
    <3>2. "SEND" \in Due'
      BY <3>1, DueDelegated DEF Events
    <3> QED
      BY <3>2 DEF Remembered
  <2>2. CASE Done(c)
    BY <2>2 DEF Done, Return, Remembered
  <2>3. ~GiveUp(c) /\ ~Stopped(c) /\ ~Stuck(c)
    BY <1>1 DEF GiveUp, Stopped, Stuck, Owned
  <2> QED
    BY <1>10, <2>1, <2>2, <2>3 DEF Caller
<1>11. CASE Enable \/ GnssSetEnable \/ Reconnected \/ Modem
  <2>1. UNCHANGED <<m_state, step>> /\ Due \subseteq Due'
    BY <1>11, Outside DEF fsm
  <2>2. UNCHANGED <<m_send_recv_param, m_flag, bits>>
    BY <1>1, <1>11 DEF Enable, GnssSetEnable, Reconnected, Modem, ModemAnswers, ModemReady, SimDetected,
       Registered, Connected, Released, ModemSleeps, Deregistered, ResetLoop, SocketLost, Line, request
  <2> QED
    BY <1>2, <2>1, <2>2
<1> QED
  BY <1>3, <1>4, <1>5, <1>6, <1>7, <1>8, <1>9, <1>10, <1>11, <1>12
     DEF Next, WorkQueue, Api, Modem

\* A request that nobody has answered is never forgotten, through whatever detours the state
\* machine takes: as long as the ring has room, the machine does not stall, callers wait
\* for ever, there is no GNSS and the UART can be stopped in SLEEP.
THEOREM RequestsRemembered ==
  ASSUME NoStallBySetting,
         \A s \in Settings : ~s.timeout /\ ~s.gnss /\ "uart" \notin s.faults
  PROVE  Spec /\ []RoomLeft => []RequestNotForgotten
<1>1. Init => Remembered
  BY DEF Init, Remembered
<1>2. Running /\ Owned /\ Remembered => RequestNotForgotten
  <2> SUFFICES ASSUME Running, Owned, Remembered, NEW c \in Callers,
                      pc[c] = "waiting", "DONE" \notin bits, m_state # "DISABLED",
                      step = "idle"
               PROVE  Busy \/ WaitsForSim \/ (m_state = "READY" /\ "CFUN4" \in m_flag)
    BY DEF RequestNotForgotten, Busy
  <2>1. m_send_recv_param = c /\ c # NoCaller
    BY LteAssumption DEF Owned
  <2>2. Due # {} => Busy
    BY DEF Due, Busy
  <2>3. m_state # "GNSS"
    BY DEF Running, TypeOK, States, Gnss
  <2>4. CASE m_state \in {"READY", "SLEEP"}
    BY <2>1, <2>2, <2>4 DEF Remembered
  <2>5. CASE m_state \notin {"READY", "SLEEP"}
    BY <2>3, <2>5, RunningNeverStalls DEF NeverStalls
  <2> QED
    BY <2>4, <2>5
<1>3. Running /\ Owned /\ Remembered /\ RoomLeft /\ [Next]_vars => Owned' /\ Remembered'
  <2> SUFFICES ASSUME Running, Owned, Remembered, RoomLeft, [Next]_vars
               PROVE  Owned' /\ Remembered'
    OBVIOUS
  <2>1. TypeOK /\ Dialogs /\ ~FiniteTimeout
    BY DEF Running, TypeOK, FiniteTimeout
  <2> QED
    BY <2>1, OwnedStep, RememberedStep
<1> QED
  BY <1>1, <1>2, <1>3, RunningInit, RunningStep, OwnedInit, PTL DEF Spec
=============================================================================
