---------------------------- MODULE CtrLrwProofs ----------------------------
(***************************************************************************)
(* Theorems about CtrLrw, for every set of messages, mode of activation,   *)
(* length of the queues, number of attempts, set of faults and bound.      *)
(***************************************************************************)
EXTENDS CtrLrw, TLAPS

-----------------------------------------------------------------------------
(* Type correctness *)

Attempting == {"enable", "once", "talk", "listen", "answer", "verdict", "disable"}

\* TypeOK is not inductive: what the network confirms asked for it, an attempt is
\* one of those left, and the dispatcher takes from queues that have something.
Typed ==
  /\ TypeOK
  /\ modem.busy \in Confirmed \cup {"join", Idle}
  /\ pc \in Attempting => tries > 0
  /\ pc = "command" => cmd_msgq # <<>>
  /\ also /\ (pc \in {"command", "message"} \/ (op # "send" /\ pc \notin {"poll", "failure"}))
       => send_msgq # <<>>

LEMMA TypedInit == Init => Typed
<1> SUFFICES ASSUME Init PROVE Typed
  OBVIOUS
<1> USE LrwAssumption DEF Init, Operations, Lines, Attempting
<1>1. cmd_msgq \in Seq({"start", "join"}) /\ Len(cmd_msgq) <= CommandItems
  <2>1. CommandItems \in Nat /\ CommandItems >= 1
    OBVIOUS
  <2>2. cmd_msgq = <<"start">> /\ Len(<<"start">>) = 1
    OBVIOUS
  <2> QED
    BY <2>1, <2>2
<1>2. send_msgq \in Seq(Messages) /\ Len(send_msgq) <= SendItems /\ wire \in Seq(Lines)
  OBVIOUS
<1>3. modem \in [joined : {"yes", "no", "lost"}, busy : Messages \cup {"join", Idle}]
        /\ modem.busy = Idle
  BY DEF AfterReset
<1>4. signal \in [{"boot", "join", "send"} -> {"none", "ok", "err"}]
  OBVIOUS
<1>5. answer \in [Messages -> {"none", "pending", "refused", "expired", "send_ok", "send_err"}]
  OBVIOUS
<1>6. /\ faults \in 0..MaxFaults /\ calls \in 0..MaxCalls
      /\ tries \in 0..Retries /\ step \in 0..SetupLength
  OBVIOUS
<1>7. mode \in Modes /\ item \in Messages \cup {Idle} /\ acked \subseteq Confirmed
  OBVIOUS
<1>8. TypeOK
  BY <1>1, <1>2, <1>3, <1>4, <1>5, <1>6, <1>7 DEF TypeOK
<1> QED
  BY <1>3, <1>8 DEF Typed

\* What the actions have in common.
LEMMA TypedFault ==
  ASSUME Typed, NEW kind, Fault(kind)
  PROVE  faults' \in 0..MaxFaults /\ calls' = calls
BY LrwAssumption DEF Fault, Typed, TypeOK

LEMMA TypedSays ==
  ASSUME Typed, NEW line \in Lines, Says(line)
  PROVE  wire' \in Seq(Lines)
BY DEF Says, Typed, TypeOK

LEMMA TypedReceive ==
  ASSUME Typed, wire # <<>>
  PROVE  Head(wire) \in Lines /\ Tail(wire) \in Seq(Lines)
BY DEF Typed, TypeOK

LEMMA TypedTell ==
  ASSUME Typed, NEW m, Tell(m, "pending") \/ Tell(m, "refused") \/ Tell(m, "expired")
                         \/ Tell(m, "send_ok") \/ Tell(m, "send_err")
  PROVE  answer' \in [Messages -> {"none", "pending", "refused", "expired", "send_ok",
                                   "send_err"}]
BY DEF Tell, Typed, TypeOK

LEMMA TypedRaise ==
  ASSUME Typed, NEW which \in {"boot", "join", "send"}, NEW result \in {"none", "ok", "err"},
         Raise(which, result)
  PROVE  signal' \in [{"boot", "join", "send"} -> {"none", "ok", "err"}]
BY DEF Raise, Typed, TypeOK

LEMMA TypedCommands ==
  ASSUME Typed, NEW q \in Seq({"start", "join"}), Len(q) <= CommandItems
  PROVE  /\ PutStart(q) \in Seq({"start", "join"}) /\ Len(PutStart(q)) <= CommandItems
         /\ PutJoin(q) \in Seq({"start", "join"}) /\ Len(PutJoin(q)) <= CommandItems
         /\ q # <<>> => PutStart(q) # <<>> /\ PutJoin(q) # <<>>
BY LrwAssumption DEF PutStart, PutJoin, Put


\* What the callers, the modem and its lines do.
LEMMA TypedOutside ==
  ASSUME Typed,
         \/ \E m \in Messages : Send(m)
         \/ Command \/ CommandUart
         \/ ModemJoins \/ ModemDelivers \/ ModemReboots \/ LineGarbled
         \/ ReceiveAnswer \/ ReceiveUrc
  PROVE  Typed'
<1> USE LrwAssumption, TypedFault, TypedSays, TypedReceive
    DEF Typed, TypeOK, Operations, Lines, Attempting
<1>1. ASSUME NEW m \in Messages, Send(m) PROVE Typed'
  <2>1. answer' \in [Messages -> {"none", "pending", "refused", "expired", "send_ok", "send_err"}]
    BY <1>1, TypedTell DEF Send
  <2>2. send_msgq' \in Seq(Messages) /\ Len(send_msgq') <= SendItems
          /\ (send_msgq # <<>> => send_msgq' # <<>>)
    <3>1. CASE Len(send_msgq) < SendItems
      <4>1. send_msgq' = Append(send_msgq, m)
        BY <1>1, <3>1 DEF Send
      <4>2. send_msgq \in Seq(Messages) /\ SendItems \in Nat
        OBVIOUS
      <4> HIDE DEF Typed, TypeOK
      <4> QED
        BY <3>1, <4>1, <4>2
    <3>2. CASE ~(Len(send_msgq) < SendItems)
      BY <1>1, <3>2 DEF Send
    <3> QED
      BY <3>1, <3>2
  <2> QED
    BY <1>1, <2>1, <2>2 DEF Send, work, attempt, talk, outside
<1>2. CASE Command
  <2>1. cmd_msgq' \in Seq({"start", "join"}) /\ Len(cmd_msgq') <= CommandItems
          /\ (cmd_msgq # <<>> => cmd_msgq' # <<>>)
    BY <1>2, TypedCommands DEF Command
  <2> QED
    BY <1>2, <2>1 DEF Command, work, attempt, talk, outside
<1>3. CASE CommandUart
  <2>1. faults' \in 0..MaxFaults /\ calls' = calls
    BY <1>3 DEF CommandUart
  <2>2. UNCHANGED <<mode, work, pc, attempt, api, signal, talk, outside>> /\ enabled' \in BOOLEAN
    BY <1>3 DEF CommandUart
  <2> QED
    BY <2>1, <2>2 DEF work, attempt, api, talk, outside
<1>4. CASE ModemJoins
  <2>1. wire' \in Seq(Lines)
    BY <1>4 DEF ModemJoins
  <2>2. modem' \in [joined : {"yes", "no", "lost"}, busy : Messages \cup {"join", Idle}]
          /\ modem'.busy = Idle
    BY <1>4 DEF ModemJoins
  <2>3. faults' \in 0..MaxFaults /\ calls' = calls
    BY <1>4 DEF ModemJoins, budget
  <2>4. UNCHANGED <<mode, work, pc, attempt, api, signal, enabled, talk, acked, stale>>
    BY <1>4 DEF ModemJoins
  <2> QED
    BY <2>1, <2>2, <2>3, <2>4 DEF work, attempt, api, talk
<1>5. CASE ModemDelivers
  <2>1. wire' \in Seq(Lines) /\ acked' \subseteq Confirmed
    BY <1>5 DEF ModemDelivers
  <2>2. modem' \in [joined : {"yes", "no", "lost"}, busy : Messages \cup {"join", Idle}]
          /\ modem'.busy = Idle
    BY <1>5 DEF ModemDelivers
  <2>3. faults' \in 0..MaxFaults /\ calls' = calls
    BY <1>5 DEF ModemDelivers, budget
  <2>4. UNCHANGED <<mode, work, pc, attempt, api, signal, enabled, talk, stale>>
    BY <1>5 DEF ModemDelivers
  <2> QED
    BY <2>1, <2>2, <2>3, <2>4 DEF work, attempt, api, talk
<1>6. CASE ModemReboots
  <2>1. modem' \in [joined : {"yes", "no", "lost"}, busy : Messages \cup {"join", Idle}]
          /\ modem'.busy = Idle
    BY <1>6 DEF ModemReboots
  <2>2. wire' \in Seq(Lines) /\ faults' \in 0..MaxFaults /\ calls' = calls
    BY <1>6 DEF ModemReboots
  <2> QED
    BY <1>6, <2>1, <2>2 DEF ModemReboots, work, attempt, api, talk
<1>7. CASE LineGarbled
  BY <1>7 DEF LineGarbled, work, attempt, api, talk
<1>8. CASE ReceiveAnswer
  <2>1. faults' \in 0..MaxFaults /\ calls' = calls
    BY <1>8 DEF ReceiveAnswer, budget
  <2> QED
    BY <1>8, <2>1 DEF ReceiveAnswer, work, attempt, api
<1>9. CASE ReceiveUrc
  <2>1. signal' \in [{"boot", "join", "send"} -> {"none", "ok", "err"}]
    BY <1>9, TypedRaise DEF ReceiveUrc
  <2> QED
    BY <1>9, <2>1 DEF ReceiveUrc, work, attempt, api, talk, budget
<1> QED
  BY <1>1, <1>2, <1>3, <1>4, <1>5, <1>6, <1>7, <1>8, <1>9

\* What the dispatcher does between two operations.
LEMMA TypedQueues ==
  ASSUME Typed, PollQueues \/ TakeCommand \/ TakeMessage \/ NoMessage
  PROVE  Typed'
<1> USE LrwAssumption, TypedFault DEF Typed, TypeOK, Operations, Lines, Attempting
<1>1. CASE PollQueues
  <2>1. also' \in BOOLEAN /\ (also' => send_msgq # <<>>)
    BY <1>1 DEF PollQueues
  <2>2. pc' \in {"command", "message"} /\ (pc' = "command" => cmd_msgq # <<>>)
    BY <1>1 DEF PollQueues, Goto
  <2> QED
    BY <1>1, <2>1, <2>2 DEF PollQueues, attempt, api, talk, outside, budget
<1>2. CASE TakeCommand
  <2>1. cmd_msgq' \in Seq({"start", "join"}) /\ Len(cmd_msgq') <= CommandItems
    BY <1>2 DEF TakeCommand
  <2>2. faults' \in 0..MaxFaults /\ calls' = calls /\ initialized' \in BOOLEAN
    BY <1>2 DEF TakeCommand, budget
  <2>3. /\ pc' \in {"enable", "over", "message"} /\ (pc' = "enable" => tries' > 0)
        /\ op' \in {"boot", "join", op} /\ tries' \in 0..Retries
        /\ step' = step /\ ret' \in {ret, "error"}
    BY <1>2 DEF TakeCommand, Begin, Goto, attempt
  <2> QED
    BY <1>2, <2>1, <2>2, <2>3 DEF TakeCommand, talk, outside
<1>3. CASE TakeMessage
  <2>1. send_msgq # <<>> /\ Head(send_msgq) \in Messages /\ send_msgq' \in Seq(Messages)
          /\ Len(send_msgq') <= SendItems
    BY <1>3 DEF TakeMessage
  <2>2. CASE item' = Head(send_msgq) /\ Begin("send") /\ UNCHANGED answer
    BY <1>3, <2>1, <2>2 DEF TakeMessage, Begin, Goto, talk, outside, budget
  <2>3. CASE /\ Head(send_msgq) \in Expiring
             /\ Tell(Head(send_msgq), "expired")
             /\ Goto("poll") /\ UNCHANGED <<item, attempt>>
    <3>1. answer' \in [Messages -> {"none", "pending", "refused", "expired", "send_ok",
                                    "send_err"}]
      BY <2>3, TypedTell
    <3> QED
      BY <1>3, <2>1, <2>3, <3>1 DEF TakeMessage, Goto, attempt, talk, outside, budget
  <2> QED
    BY <1>3, <2>2, <2>3 DEF TakeMessage
<1>4. CASE NoMessage
  BY <1>4 DEF NoMessage, Goto, work, attempt, api, talk, outside, budget
<1> QED
  BY <1>1, <1>2, <1>3, <1>4

\* The steps of one attempt.
LEMMA TypedAttempt ==
  ASSUME Typed,
         \/ Enable \/ BootOnce \/ TalkOnce \/ Talk \/ Listen \/ Answered \/ NotAnswered
         \/ Verdict \/ NoVerdict \/ Disable
  PROVE  Typed'
<1> USE LrwAssumption, TypedFault, TypedSays, TypedRaise
    DEF Typed, TypeOK, Operations, Lines, Attempting
<1>1. CASE Enable
  <2>1. faults' \in 0..MaxFaults /\ calls' = calls /\ enabled' \in BOOLEAN
    BY <1>1 DEF Enable, budget
  <2>2. pc' \in {"once", "over"} /\ ret' \in {ret, "error"}
    BY <1>1 DEF Enable, Goto
  <2> QED
    BY <1>1, <2>1, <2>2 DEF Enable, work, api, talk, outside
<1>2. CASE BootOnce
  <2>1. modem' \in [joined : {"yes", "no", "lost"}, busy : Messages \cup {"join", Idle}]
          /\ modem'.busy \in {Idle, modem.busy}
    BY <1>2 DEF BootOnce, AfterReset
  <2>2. wire' \in Seq(Lines)
    BY <1>2 DEF BootOnce
  <2>3. faults' \in 0..MaxFaults /\ calls' = calls
    BY <1>2 DEF BootOnce, budget
  <2>4. signal' \in [{"boot", "join", "send"} -> {"none", "ok", "err"}]
    BY <1>2 DEF BootOnce
  <2>5. pc' \in {"verdict", "disable"} /\ ret' \in {ret, "error"}
    BY <1>2 DEF BootOnce, Goto
  <2>6. stale' \in BOOLEAN /\ acked' = acked /\ tries > 0
    BY <1>2 DEF BootOnce
  <2> QED
    BY <1>2, <2>1, <2>2, <2>3, <2>4, <2>5, <2>6 DEF BootOnce, work, api, talk
<1>3. CASE TalkOnce
  <2>1. signal' \in [{"boot", "join", "send"} -> {"none", "ok", "err"}]
    BY <1>3 DEF TalkOnce
  <2>2. 1 \in 0..SetupLength
    OBVIOUS
  <2>3. pc' \in {"talk", "disable"} /\ ret' \in {ret, "error"}
    BY <1>3 DEF TalkOnce, Goto
  <2> QED
    BY <1>3, <2>1, <2>2, <2>3 DEF TalkOnce, work, api, talk, outside, budget
<1>4. CASE Talk
  <2>1. modem' \in [joined : {"yes", "no", "lost"}, busy : Messages \cup {"join", Idle}]
          /\ modem'.busy \in {modem.busy, "join"} \cup Confirmed
    BY <1>4 DEF Talk, Takes
  <2>2. wire' \in Seq(Lines)
    BY <1>4 DEF Talk
  <2>3. faults' \in 0..MaxFaults /\ calls' = calls
    BY <1>4 DEF Talk, budget
  <2>4. stale' \in BOOLEAN
    BY <1>4 DEF Talk
  <2>5. pc' \in {"listen", "disable"} /\ ret' \in {ret, "error"}
    BY <1>4 DEF Talk, Goto
  <2> QED
    BY <1>4, <2>1, <2>2, <2>3, <2>4, <2>5 DEF Talk, work, api, talk
<1>5. CASE Listen
  <2>1. handler' \in BOOLEAN /\ response' \in BOOLEAN /\ pc' = "answer"
    BY <1>5 DEF Listen, Goto
  <2> QED
    BY <1>5, <2>1 DEF Listen, work, attempt, api, outside, budget
<1>6. CASE Answered
  <2>1. signal' \in [{"boot", "join", "send"} -> {"none", "ok", "err"}]
    BY <1>6 DEF Answered
  <2>2. pc' \in {"talk", "disable", "verdict"} /\ ret' \in {ret, "ok"}
    BY <1>6 DEF Answered, Goto
  <2>3. step' \in 0..SetupLength /\ handler' \in BOOLEAN
    <3>1. step' \in {step, step + 1} /\ (step' = step + 1 => step < SetupLength)
      BY <1>6 DEF Answered
    <3>2. handler' = FALSE
      BY <1>6 DEF Answered
    <3>3. step \in 0..SetupLength /\ SetupLength \in Nat
      OBVIOUS
    <3>4. step' \in 0..SetupLength
      <4> HIDE DEF Typed, TypeOK
      <4> QED
        BY <3>1, <3>3
    <3> QED
      BY <3>2, <3>4
  <2> QED
    BY <1>6, <2>1, <2>2, <2>3 DEF Answered, work, api, outside, budget
<1>7. CASE NotAnswered
  <2>1. faults' \in 0..MaxFaults /\ calls' = calls /\ handler' \in BOOLEAN
    BY <1>7 DEF NotAnswered, budget
  <2> QED
    BY <1>7, <2>1 DEF NotAnswered, Goto, work, api, outside
<1>8. CASE Verdict
  BY <1>8 DEF Verdict, Goto, work, api, talk, outside, budget
<1>9. CASE NoVerdict
  <2>1. faults' \in 0..MaxFaults /\ calls' = calls
    BY <1>9 DEF NoVerdict, budget
  <2> QED
    BY <1>9, <2>1 DEF NoVerdict, Goto, work, api, talk, outside
<1>10. CASE Disable
  <2>1. faults' \in 0..MaxFaults /\ calls' = calls /\ enabled' \in BOOLEAN
    BY <1>10 DEF Disable, budget
  <2>2. /\ pc' \in {"over", "enable"} /\ ret' \in {ret, "error"}
        /\ tries' \in 0..Retries /\ (pc' = "enable" => tries' > 0)
    BY <1>10 DEF Disable, Goto
  <2> QED
    BY <1>10, <2>1, <2>2 DEF Disable, work, api, talk, outside
<1> QED
  BY <1>1, <1>2, <1>3, <1>4, <1>5, <1>6, <1>7, <1>8, <1>9, <1>10

\* The end of an operation.
LEMMA TypedEnd ==
  ASSUME Typed, Booted \/ Started \/ Joined \/ Sent \/ Fails \/ ReportFailure
  PROVE  Typed'
<1> USE LrwAssumption DEF Typed, TypeOK, Operations, Lines, Attempting
<1>1. CASE Booted
  BY <1>1 DEF Booted, Begin, Goto, work, api, talk, outside, budget
<1>2. CASE Started
  <2>1. cmd_msgq' \in Seq({"start", "join"}) /\ Len(cmd_msgq') <= CommandItems
    BY <1>2, TypedCommands DEF Started
  <2> QED
    BY <1>2, <2>1 DEF Started, Goto, attempt, talk, outside, budget
<1>3. CASE Joined
  BY <1>3 DEF Joined, Goto, work, attempt, api, talk, outside, budget
<1>4. CASE Sent
  <2>1. answer' \in [Messages -> {"none", "pending", "refused", "expired", "send_ok", "send_err"}]
    BY <1>4, TypedTell DEF Sent
  <2> QED
    BY <1>4, <2>1 DEF Sent, Goto, attempt, talk, outside, budget
<1>5. CASE Fails
  <2>1. answer' \in [Messages -> {"none", "pending", "refused", "expired", "send_ok", "send_err"}]
    BY <1>5, TypedTell DEF Fails
  <2>2. <<>> \in Seq({"start", "join"}) /\ Len(<<>>) = 0 /\ CommandItems \in Nat
    OBVIOUS
  <2> QED
    BY <1>5, <2>1, <2>2 DEF Fails, Goto, attempt, talk, outside, budget
<1>6. CASE ReportFailure
  <2>1. cmd_msgq' \in Seq({"start", "join"}) /\ Len(cmd_msgq') <= CommandItems
    BY <1>6, TypedCommands DEF ReportFailure
  <2> QED
    BY <1>6, <2>1 DEF ReportFailure, Goto, work, attempt, talk, outside, budget
<1> QED
  BY <1>1, <1>2, <1>3, <1>4, <1>5, <1>6

LEMMA TypedStep == Typed /\ [Next]_vars => Typed'
<1> SUFFICES ASSUME Typed, [Next]_vars PROVE Typed'
  OBVIOUS
<1>1. CASE Next
  BY <1>1, TypedOutside, TypedQueues, TypedAttempt, TypedEnd
     DEF Next, Dispatcher, Receive, Modem
<1>2. CASE UNCHANGED vars
  BY <1>2 DEF Typed, TypeOK, vars, work, attempt, api, talk, outside, budget
<1> QED
  BY <1>1, <1>2

\* Every variable of the dispatcher keeps its type: no attempt is begun without one
\* left, no queue is longer than its message queue, and the network confirms nothing
\* that did not ask for it.
THEOREM TypeCorrect == Spec => []TypeOK
<1>1. Typed => TypeOK
  BY DEF Typed
<1> QED
  BY <1>1, TypedInit, TypedStep, PTL DEF Spec
-----------------------------------------------------------------------------
(* A confirmed message is reported as sent only when it was confirmed *)

\* The message being sent asked for a confirmation, the modem works on no other, and
\* no confirmation of another one comes after the line of this index.
Meant == op = "send" /\ item \in Confirmed
OnlyItem == modem.busy \in Messages => modem.busy = item
NoneAfter(i) == \A j \in DOMAIN wire : j > i /\ wire[j] = "ack" => item \in acked

\* A verdict on an earlier message is in front of the modem's +OK, because the modem
\* takes a message only when it is idle, and the signal is cleared after the +OK.
\* That the +OK is the one of this attempt rests on the empty wire at its beginning.
Acks ==
  /\ SendOkMeansAcked
  /\ Meant /\ pc \in {"once", "talk"} => \A i \in DOMAIN wire : wire[i] # "ok"
  /\ Meant /\ pc \in {"listen", "answer"} =>
       \A i \in DOMAIN wire : wire[i] = "ok" => OnlyItem /\ NoneAfter(i)
  /\ Meant /\ pc = "answer" /\ response => OnlyItem /\ NoneAfter(0)
  /\ Meant /\ pc = "verdict" =>
       OnlyItem /\ NoneAfter(0) /\ (signal.send = "ok" => item \in acked)
  /\ Meant /\ pc \in {"disable", "over"} /\ ret = "ok" => item \in acked

LEMMA AcksInit == Init => Acks
BY LrwAssumption DEF Init, Acks, SendOkMeansAcked, Meant, Idle

\* What is said later does not come before an earlier line.
LEMMA LaterLine ==
  ASSUME Typed, NEW line \in Lines, Says(line)
  PROVE  /\ \A i \in DOMAIN wire' : \/ i \in DOMAIN wire /\ wire'[i] = wire[i]
                                    \/ wire'[i] = line /\ i = Len(wire) + 1
         /\ \A i \in DOMAIN wire : i \in Nat /\ i <= Len(wire)
<1>1. wire \in Seq(Lines)
  BY DEF Typed, TypeOK
<1>2. DOMAIN wire = 1..Len(wire) /\ Len(wire) \in Nat
  BY <1>1
<1>3. CASE wire' = wire
  BY <1>2, <1>3
<1>4. CASE wire' = Append(wire, line)
  <2>1. DOMAIN wire' = 1..(Len(wire) + 1)
    BY <1>1, <1>4
  <2>2. \A i \in DOMAIN wire' : wire'[i] = IF i \in 1..Len(wire) THEN wire[i] ELSE line
    BY <1>1, <1>2, <1>4, <2>1
  <2> QED
    BY <1>2, <2>1, <2>2
<1> QED
  BY <1>3, <1>4 DEF Says

\* The line at the head of the wire goes, the others move up.
LEMMA LinesMoveUp ==
  ASSUME Typed, wire # <<>>, wire' = Tail(wire)
  PROVE  /\ 1 \in DOMAIN wire /\ Head(wire) = wire[1]
         /\ \A i \in DOMAIN wire' : i \in Nat /\ i + 1 \in DOMAIN wire /\ i > 0
                                    /\ wire'[i] = wire[i + 1]
BY DEF Typed, TypeOK

LEMMA AcksOutside ==
  ASSUME Typed, Acks,
         \/ \E m \in Messages : Send(m)
         \/ Command \/ CommandUart
         \/ ModemJoins \/ ModemDelivers \/ ModemReboots \/ LineGarbled
         \/ ReceiveAnswer \/ ReceiveUrc
  PROVE  Acks'
<1> USE LrwAssumption DEF Acks, Meant, OnlyItem, NoneAfter, SendOkMeansAcked
<1>1. ASSUME NEW m \in Messages, Send(m) PROVE Acks'
  <2>1. \A n \in Messages : answer'[n] = "send_ok" => answer[n] = "send_ok"
    BY <1>1 DEF Send, Tell, Typed, TypeOK
  <2> QED
    BY <1>1, <2>1 DEF Send, work, attempt, talk, outside
<1>2. CASE Command
  BY <1>2 DEF Command, work, attempt, talk, outside
<1>3. CASE CommandUart
  BY <1>3 DEF CommandUart, work, attempt, api, talk, outside
<1>4. CASE ModemJoins
  <2>1. PICK line \in {"join_ok", "join_err"} : Says(line)
    BY <1>4 DEF ModemJoins
  <2>2. modem'.busy = Idle /\ Idle \notin Messages
    BY <1>4 DEF ModemJoins
  <2> QED
    BY <1>4, <2>1, <2>2, LaterLine DEF ModemJoins, Lines, work, attempt, api, talk
<1>5. CASE ModemDelivers
  <2>1. modem'.busy = Idle /\ Idle \notin Messages
    BY <1>5 DEF ModemDelivers, Typed, TypeOK
  <2>2. CASE acked' = acked \cup {modem.busy} /\ Says("ack")
    BY <1>5, <2>1, <2>2, LaterLine DEF ModemDelivers, Lines, work, attempt, api, talk
  <2>3. CASE acked' = acked /\ Says("noack")
    BY <1>5, <2>1, <2>3, LaterLine DEF ModemDelivers, Lines, work, attempt, api, talk
  <2> QED
    BY <1>5, <2>2, <2>3 DEF ModemDelivers
<1>6. CASE ModemReboots
  <2>1. modem'.busy = Idle /\ Idle \notin Messages
    BY <1>6 DEF ModemReboots
  <2> QED
    BY <1>6, <2>1, LaterLine DEF ModemReboots, Lines, work, attempt, api, talk
<1>7. CASE LineGarbled
  BY <1>7, LinesMoveUp DEF LineGarbled, work, attempt, api, talk
<1>8. CASE ReceiveAnswer
  BY <1>8, LinesMoveUp DEF ReceiveAnswer, work, attempt, api
<1>9. CASE ReceiveUrc
  <2>1. signal'.send = "ok" => signal.send = "ok" \/ wire[1] = "ack"
    <3>1. Head(wire) = wire[1]
      BY <1>9, LinesMoveUp DEF ReceiveUrc
    <3>2. signal \in [{"boot", "join", "send"} -> {"none", "ok", "err"}]
      BY DEF Typed, TypeOK
    <3>3. \/ Head(wire) = "ack"
          \/ Raise("send", "err")
          \/ \E result \in {"ok", "err"} : Raise("join", result)
          \/ Raise("boot", "ok")
      BY <1>9, TypedReceive DEF ReceiveUrc, Lines
    <3> QED
      BY <3>1, <3>2, <3>3 DEF Raise
  <2> QED
    BY <1>9, <2>1, LinesMoveUp DEF ReceiveUrc, work, attempt, api, talk
<1> QED
  BY <1>1, <1>2, <1>3, <1>4, <1>5, <1>6, <1>7, <1>8, <1>9

LEMMA AcksQueues ==
  ASSUME Typed, Acks, PollQueues \/ TakeCommand \/ TakeMessage \/ NoMessage
  PROVE  Acks'
<1> USE LrwAssumption DEF Acks, Meant, OnlyItem, NoneAfter, SendOkMeansAcked
<1>1. CASE PollQueues
  BY <1>1 DEF PollQueues, Goto, attempt, api, talk, outside, budget
<1>2. CASE TakeCommand
  BY <1>2 DEF TakeCommand, Begin, Goto, attempt, talk, outside
<1>3. CASE TakeMessage
  <2>1. \A n \in Messages : answer'[n] = "send_ok" => answer[n] = "send_ok"
    BY <1>3 DEF TakeMessage, Tell, Typed, TypeOK
  <2> QED
    BY <1>3, <2>1 DEF TakeMessage, Begin, Goto, attempt, talk, outside
<1>4. CASE NoMessage
  BY <1>4 DEF NoMessage, Goto, work, attempt, api, talk, outside, budget
<1> QED
  BY <1>1, <1>2, <1>3, <1>4

LEMMA AcksAttempt ==
  ASSUME Typed, Acks,
         \/ Enable \/ BootOnce \/ TalkOnce \/ Talk \/ Listen \/ Answered \/ NotAnswered
         \/ Verdict \/ NoVerdict \/ Disable
  PROVE  Acks'
<1> USE LrwAssumption DEF Acks, Meant, OnlyItem, NoneAfter, SendOkMeansAcked
<1>1. CASE Enable
  BY <1>1 DEF Enable, Goto, work, api, talk, outside
<1>2. CASE BootOnce
  BY <1>2 DEF BootOnce, Goto, work, api, talk
<1>3. CASE TalkOnce
  BY <1>3 DEF TalkOnce, Goto, work, api, talk, outside, budget
<1>4. CASE Talk
  <2>1. CASE ~Refuses /\ Takes /\ Says("ok") /\ Goto("listen")
    <3>1. Meant => modem'.busy = item
      BY <2>1 DEF Takes, Typed, TypeOK
    <3> QED
      BY <1>4, <2>1, <3>1, LaterLine DEF Talk, Goto, Lines, work, api, talk
  <2>2. CASE UNCHANGED <<modem, wire>> /\ Goto("listen")
    BY <1>4, <2>2 DEF Talk, Goto, work, api, talk
  <2>3. CASE UNCHANGED <<modem, wire>> /\ Goto("disable") /\ ret' = "error"
    BY <1>4, <2>3 DEF Talk, Goto, work, api, talk
  <2> QED
    BY <1>4, <2>1, <2>2, <2>3 DEF Talk
<1>5. CASE Listen
  BY <1>5 DEF Listen, Goto, work, attempt, api, outside, budget
<1>6. CASE Answered
  <2>1. Meant => signal'.send = "none" /\ pc' = "verdict"
    BY <1>6 DEF Answered, Raise, Goto, Typed, TypeOK
  <2> QED
    BY <1>6, <2>1 DEF Answered, Goto, work, api, outside, budget
<1>7. CASE NotAnswered
  BY <1>7 DEF NotAnswered, Goto, work, api, outside
<1>8. CASE Verdict
  BY <1>8 DEF Verdict, Waited, Goto, work, api, talk, outside, budget
<1>9. CASE NoVerdict
  BY <1>9 DEF NoVerdict, Goto, work, api, talk, outside
<1>10. CASE Disable
  BY <1>10 DEF Disable, Goto, work, api, talk, outside
<1> QED
  BY <1>1, <1>2, <1>3, <1>4, <1>5, <1>6, <1>7, <1>8, <1>9, <1>10

LEMMA AcksEnd ==
  ASSUME Typed, Acks, Booted \/ Started \/ Joined \/ Sent \/ Fails \/ ReportFailure
  PROVE  Acks'
<1> USE LrwAssumption DEF Acks, Meant, OnlyItem, NoneAfter, SendOkMeansAcked
<1>1. CASE Booted
  BY <1>1 DEF Booted, Begin, Goto, work, api, talk, outside, budget
<1>2. CASE Started
  BY <1>2 DEF Started, Goto, attempt, talk, outside, budget
<1>3. CASE Joined
  BY <1>3 DEF Joined, Goto, work, attempt, api, talk, outside, budget
<1>4. CASE Sent
  <2>1. \A n \in Messages : answer'[n] = "send_ok" =>
          answer[n] = "send_ok" \/ (n = item /\ ret = "ok")
    BY <1>4 DEF Sent, Tell, Typed, TypeOK
  <2> QED
    BY <1>4, <2>1 DEF Sent, Goto, attempt, talk, outside, budget
<1>5. CASE Fails
  <2>1. \A n \in Messages : answer'[n] = "send_ok" => answer[n] = "send_ok"
    BY <1>5 DEF Fails, Tell, Typed, TypeOK
  <2> QED
    BY <1>5, <2>1 DEF Fails, Goto, attempt, talk, outside, budget
<1>6. CASE ReportFailure
  BY <1>6 DEF ReportFailure, Goto, work, attempt, talk, outside, budget
<1> QED
  BY <1>1, <1>2, <1>3, <1>4, <1>5, <1>6

LEMMA AcksStep == Typed /\ Acks /\ [Next]_vars => Acks'
<1> SUFFICES ASSUME Typed, Acks, [Next]_vars PROVE Acks'
  OBVIOUS
<1>1. CASE Next
  BY <1>1, AcksOutside, AcksQueues, AcksAttempt, AcksEnd
     DEF Next, Dispatcher, Receive, Modem
<1>2. CASE UNCHANGED vars
  BY <1>2 DEF Acks, Meant, OnlyItem, NoneAfter, SendOkMeansAcked, vars, work, attempt,
              api, talk, outside, budget
<1> QED
  BY <1>1, <1>2

\* CTR_LRW_EVENT_SEND_OK for a message of ctr_lrw_send() that asked for a confirmation
\* means that the network has confirmed this message, whatever lines are lost, late or
\* come from a modem that has restarted.
THEOREM SendOkIsAck == Spec => []SendOkMeansAcked
<1>1. Acks => SendOkMeansAcked
  BY DEF Acks
<1> QED
  BY <1>1, TypedInit, TypedStep, AcksInit, AcksStep, PTL DEF Spec

--------------------------------------------------------------
(* A modem that was not joined is being joined, or will be, as long as the  *)
(* application's JOIN finds room in the queue of commands.                  *)

HasJoin(q) == \E i \in DOMAIN q : q[i] = "join"
Engaged == pc \in Attempting \cup {"over"}
Starting == op \in {"boot", "setup"} /\ Engaged

\* ctr_lrw_join() of app_handler_lrw() finds room, whatever was typed and sent before.
JoinFindsRoom == pc = "over" /\ op = "setup" /\ ret = "ok" => Len(cmd_msgq) < CommandItems

\* The modem is ready and not joined, and not because of a late verdict.
Left == m_state = "ready" /\ modem.joined = "no" /\ ~stale

\* The verdict on the last attempt to join is true.
Coming ==
  /\ Starting => m_state # "ready"
  /\ mode = "abp" => /\ modem.joined = "yes" /\ modem.busy # "join"
                     /\ ~HasJoin(cmd_msgq) /\ op # "join"
  /\ modem.busy = "join" => modem.joined = "no"
  /\ Left => \/ HasJoin(cmd_msgq)
             \/ op = "join" /\ Engaged
             \/ pc = "over" /\ ret = "error"
  /\ op = "join" /\ pc \in {"listen", "answer", "verdict"} /\ ~stale
       /\ (signal.join = "ok" \/ \E i \in DOMAIN wire : wire[i] = "join_ok")
       => modem.joined # "no"
  /\ op = "join" /\ pc \in {"disable", "over"} /\ ~stale /\ ret = "ok"
       => modem.joined # "no"

\* What k_msgq_put() and the dispatcher do to the queue.
LEMMA PutKeeps ==
  ASSUME NEW q \in Seq({"start", "join"}), NEW x \in {"start", "join"}
  PROVE  /\ Len(Put(q, x)) \in Nat /\ Len(Put(q, x)) <= Len(q) + 1
         /\ HasJoin(q) => HasJoin(Put(q, x))
         /\ HasJoin(Put(q, x)) => HasJoin(q) \/ x = "join"
         /\ Len(q) < CommandItems => HasJoin(Put(q, "join"))
<1> USE LrwAssumption
<1>1. Len(q) \in Nat /\ DOMAIN q = 1..Len(q)
  OBVIOUS
<1>2. ASSUME NEW y \in {"start", "join"}
      PROVE  /\ Len(Append(q, y)) = Len(q) + 1
             /\ DOMAIN Append(q, y) = 1..(Len(q) + 1)
             /\ \A i \in 1..Len(q) : Append(q, y)[i] = q[i]
             /\ Append(q, y)[Len(q) + 1] = y
  BY <1>1
<1> QED
  BY <1>1, <1>2 DEF Put, HasJoin

\* Taking a command removes no JOIN but the one that is taken.
LEMMA TailKeeps ==
  ASSUME NEW q \in Seq({"start", "join"}), q # <<>>
  PROVE  /\ Len(Tail(q)) = Len(q) - 1 /\ Len(q) \in Nat
         /\ HasJoin(Tail(q)) => HasJoin(q)
         /\ HasJoin(q) => HasJoin(Tail(q)) \/ Head(q) = "join"
         /\ Head(q) = "join" => HasJoin(q)
<1>1. /\ Len(q) \in Nat \ {0} /\ DOMAIN q = 1..Len(q)
      /\ Len(Tail(q)) = Len(q) - 1 /\ DOMAIN Tail(q) = 1..(Len(q) - 1)
      /\ \A i \in 1..(Len(q) - 1) : Tail(q)[i] = q[i + 1]
      /\ Head(q) = q[1]
  OBVIOUS
<1>2. ASSUME NEW i \in DOMAIN q, i # 1
      PROVE  i - 1 \in DOMAIN Tail(q) /\ Tail(q)[i - 1] = q[i]
  BY <1>1, <1>2
<1>3. ASSUME NEW i \in DOMAIN Tail(q) PROVE i + 1 \in DOMAIN q /\ Tail(q)[i] = q[i + 1]
  BY <1>1
<1>4. HasJoin(Tail(q)) => HasJoin(q)
  BY <1>3 DEF HasJoin
<1>5. ASSUME HasJoin(q), Head(q) # "join" PROVE HasJoin(Tail(q))
  <2>1. PICK i \in DOMAIN q : q[i] = "join"
    BY <1>5 DEF HasJoin
  <2>2. i # 1
    BY <1>1, <1>5, <2>1
  <2> QED
    BY <1>2, <2>1, <2>2 DEF HasJoin
<1>6. Head(q) = "join" => HasJoin(q)
  BY <1>1 DEF HasJoin
<1> QED
  BY <1>1, <1>4, <1>5, <1>6

\* The queue begins with one START.
LEMMA ComingInit == Init => Coming
<1> SUFFICES ASSUME Init PROVE Coming
  OBVIOUS
<1>1. Len(cmd_msgq) = 1 /\ cmd_msgq[1] = "start" /\ DOMAIN cmd_msgq = 1..1
  BY DEF Init
<1> QED
  BY <1>1, LrwAssumption
     DEF Init, Coming, Starting, Engaged, Attempting, HasJoin, Left, AfterReset,
         Idle

\* What the callers, the modem and its lines do: only a JOIN that worked says join_ok.
LEMMA ComingOutside ==
  ASSUME Typed, Coming,
         \/ \E m \in Messages : Send(m)
         \/ Command \/ CommandUart
         \/ ModemJoins \/ ModemDelivers \/ ModemReboots \/ LineGarbled
         \/ ReceiveAnswer \/ ReceiveUrc
  PROVE  Coming'
<1> USE LrwAssumption DEF Coming, Starting, Engaged, Left
<1>1. ASSUME NEW m \in Messages, Send(m) PROVE Coming'
  BY <1>1 DEF Send, work, attempt, talk, outside, HasJoin, Typed, TypeOK
<1>2. CASE Command
  <2>1. cmd_msgq \in Seq({"start", "join"})
    BY DEF Typed, TypeOK
  <2>2. /\ HasJoin(cmd_msgq) => HasJoin(cmd_msgq')
        /\ HasJoin(cmd_msgq') => HasJoin(cmd_msgq) \/ mode = "otaa"
    BY <1>2, <2>1, PutKeeps DEF Command, PutStart, PutJoin
  <2>3. UNCHANGED <<mode, m_state, op, pc, ret, signal, modem, wire, stale>>
    BY <1>2 DEF Command, work, attempt, outside
  <2> QED
    BY <2>2, <2>3 DEF HasJoin
<1>3. CASE CommandUart
  BY <1>3 DEF CommandUart, Fault, work, attempt, api, talk, outside, HasJoin
<1>4. CASE ModemJoins
  <2>1. PICK line \in {"join_ok", "join_err"} : Says(line)
           /\ modem'.joined = (IF line = "join_ok" THEN "yes" ELSE "no")
           /\ modem'.busy = Idle
    BY <1>4 DEF ModemJoins
  <2>2. Idle # "join"
    BY DEF Idle
  <2>3. \A i \in DOMAIN wire' : wire'[i] = "join_ok" =>
        line = "join_ok" \/ (i \in DOMAIN wire /\ wire[i] = "join_ok")
    BY <2>1, LaterLine DEF Lines
  <2> QED
    BY <1>4, <2>1, <2>2, <2>3 DEF ModemJoins, work, attempt, api, talk, HasJoin
<1>5. CASE ModemDelivers
  <2>1. PICK line \in {"ack", "noack"} : Says(line)
    BY <1>5 DEF ModemDelivers
  <2>2. modem'.joined = modem.joined /\ modem'.busy = Idle /\ Idle # "join"
    BY <1>5 DEF ModemDelivers, Typed, TypeOK, Idle
  <2>3. \A i \in DOMAIN wire' : wire'[i] = "join_ok" =>
        (i \in DOMAIN wire /\ wire[i] = "join_ok")
    BY <2>1, LaterLine DEF Lines
  <2> QED
    BY <1>5, <2>2, <2>3 DEF ModemDelivers, work, attempt, api, talk, HasJoin
<1>6. CASE ModemReboots
  <2>1. \A i \in DOMAIN wire' : wire'[i] = "join_ok" =>
        (i \in DOMAIN wire /\ wire[i] = "join_ok")
    BY <1>6, LaterLine DEF ModemReboots, Lines
  <2>2. /\ modem'.joined = (IF mode = "abp" THEN "yes" ELSE "lost")
        /\ modem'.busy = Idle /\ Idle # "join"
    BY <1>6 DEF ModemReboots, Idle
  <2> QED
    BY <1>6, <2>1, <2>2 DEF ModemReboots, Fault, work, attempt, api, talk, HasJoin
<1>7. CASE LineGarbled
  BY <1>7, LinesMoveUp DEF LineGarbled, Fault, work, attempt, api, talk, HasJoin
<1>8. CASE ReceiveAnswer
  BY <1>8, LinesMoveUp DEF ReceiveAnswer, Fault, work, attempt, api, budget, HasJoin
<1>9. CASE ReceiveUrc
  <2>1. signal'.join = "ok" => signal.join = "ok" \/ wire[1] = "join_ok"
    <3>1. Head(wire) = wire[1]
      BY <1>9, LinesMoveUp DEF ReceiveUrc
    <3>2. signal \in [{"boot", "join", "send"} -> {"none", "ok", "err"}]
      BY DEF Typed, TypeOK
    <3>3. \/ Head(wire) = "join_ok"
          \/ Raise("join", "err")
          \/ \E result \in {"ok", "err"} : Raise("send", result)
          \/ Raise("boot", "ok")
      BY <1>9, TypedReceive DEF ReceiveUrc, Lines
    <3> QED
      BY <3>1, <3>2, <3>3 DEF Raise
  <2> QED
    BY <1>9, <2>1, LinesMoveUp DEF ReceiveUrc, work, attempt, api, talk, budget, HasJoin
<1> QED
  BY <1>1, <1>2, <1>3, <1>4, <1>5, <1>6, <1>7, <1>8, <1>9

\* A JOIN is either begun or, when the modem is not ready, made up for by Started.
LEMMA ComingQueues ==
  ASSUME Typed, Coming, PollQueues \/ TakeCommand \/ TakeMessage \/ NoMessage
  PROVE  Coming'
<1> USE LrwAssumption DEF Coming, Starting, Engaged, Attempting, Left
<1>1. CASE PollQueues
  BY <1>1 DEF PollQueues, Goto, attempt, api, talk, outside, budget, HasJoin
<1>2. CASE TakeCommand
  <2>1. cmd_msgq \in Seq({"start", "join"}) /\ cmd_msgq # <<>>
    BY <1>2 DEF TakeCommand, Typed, TypeOK
  <2>2. cmd_msgq' = Tail(cmd_msgq)
    BY <1>2 DEF TakeCommand
  <2>3. /\ HasJoin(cmd_msgq') => HasJoin(cmd_msgq)
        /\ HasJoin(cmd_msgq) => HasJoin(cmd_msgq') \/ Head(cmd_msgq) = "join"
        /\ Head(cmd_msgq) = "join" => HasJoin(cmd_msgq)
    BY <2>1, <2>2, TailKeeps
  <2>4. UNCHANGED <<mode, m_state, signal, modem, wire, stale>> /\ pc = "command"
    BY <1>2 DEF TakeCommand, outside
  <2>5. CASE /\ Head(cmd_msgq) = "start" /\ m_state # "ready"
             /\ op' = "boot" /\ pc' \in {"enable", "over"}
    BY <2>1, <2>2, <2>3, <2>4, <2>5 DEF HasJoin
  <2>6. CASE Head(cmd_msgq) = "join" /\ m_state = "ready" /\ op' = "join" /\ pc' = "enable"
    BY <2>1, <2>2, <2>3, <2>4, <2>6 DEF HasJoin
  <2>7. CASE /\ ~(Head(cmd_msgq) = "join" /\ m_state = "ready")
             /\ pc' = "message" /\ UNCHANGED <<op, ret>>
    BY <2>1, <2>2, <2>3, <2>4, <2>7 DEF HasJoin
  <2> QED
    BY <1>2, <2>5, <2>6, <2>7 DEF TakeCommand, Begin, Goto, attempt
<1>3. CASE TakeMessage
  BY <1>3 DEF TakeMessage, Begin, Goto, attempt, talk, outside, budget, HasJoin
<1>4. CASE NoMessage
  BY <1>4 DEF NoMessage, Goto, work, attempt, api, talk, outside, budget, HasJoin
<1> QED
  BY <1>1, <1>2, <1>3, <1>4

\* An attempt to join begins with no verdict around, or is marked as stale.
LEMMA ComingAttempt ==
  ASSUME Typed, Coming,
         \/ Enable \/ BootOnce \/ TalkOnce \/ Talk \/ Listen \/ Answered \/ NotAnswered
         \/ Verdict \/ NoVerdict \/ Disable
  PROVE  Coming'
<1> USE LrwAssumption DEF Coming, Starting, Engaged, Attempting, Left
<1>1. CASE Enable
  BY <1>1 DEF Enable, Goto, Fault, work, api, talk, outside, budget, HasJoin
<1>2. CASE BootOnce
  <2>1. m_state # "ready"
    BY <1>2 DEF BootOnce
  <2>2. \/ modem' = modem
        \/ /\ modem'.joined = (IF mode = "abp" THEN "yes" ELSE "no")
           /\ modem'.busy # "join"
    BY <1>2 DEF BootOnce, AfterReset, Idle
  <2> QED
    BY <1>2, <2>1, <2>2 DEF BootOnce, Goto, work, api, talk, HasJoin
<1>3. CASE TalkOnce
  <2>1. op = "join" => signal'.join = "none"
    BY <1>3 DEF TalkOnce, Raise, Typed, TypeOK
  <2> QED
    BY <1>3, <2>1 DEF TalkOnce, Goto, work, api, talk, outside, budget, HasJoin
<1>4. CASE Talk
  <2>2. op = "join" /\ ~stale' =>
        signal.join = "none" /\ ~stale /\ \A i \in DOMAIN wire : wire[i] # "join_ok"
    BY <1>4 DEF Talk, InWire, Typed, TypeOK
  <2>3. ~stale' => ~stale
    BY <1>4 DEF Talk
  <2>4. CASE ~Refuses /\ Takes /\ Says("ok") /\ Goto("listen") /\ UNCHANGED ret
    <3>1. \A i \in DOMAIN wire' : wire'[i] = "join_ok" =>
          (i \in DOMAIN wire /\ wire[i] = "join_ok")
      BY <2>4, LaterLine DEF Lines
    <3>2. /\ op = "join" => modem'.joined = "no" /\ modem'.busy = "join"
          /\ op # "join" =>
                /\ modem'.joined = modem.joined
                /\ modem'.busy \in {modem.busy} \cup Messages
      BY <2>4 DEF Takes, Typed, TypeOK
    <3>3. "join" \notin Messages
      OBVIOUS
    <3> QED
      BY <1>4, <2>2, <2>3, <2>4, <3>1, <3>2, <3>3
         DEF Talk, Goto, work, api, talk, HasJoin
  <2>5. CASE /\ UNCHANGED <<modem, wire>>
             /\ Goto("listen") \/ (Goto("disable") /\ ret' = "error")
    BY <1>4, <2>2, <2>3, <2>5 DEF Talk, Goto, work, api, talk, HasJoin
  <2> QED
    BY <1>4, <2>4, <2>5 DEF Talk
<1>5. CASE Listen
  BY <1>5 DEF Listen, Goto, work, attempt, api, outside, budget, HasJoin
<1>6. CASE Answered
  <2>1. op = "join" => signal' = signal /\ pc' = "verdict"
    BY <1>6 DEF Answered, Goto
  <2>2. pc' \in {"talk", "disable", "verdict"} /\ pc = "answer"
    BY <1>6 DEF Answered, Goto
  <2> QED
    BY <1>6, <2>1, <2>2 DEF Answered, Goto, work, api, outside, budget, HasJoin
<1>7. CASE NotAnswered
  BY <1>7 DEF NotAnswered, Goto, Fault, work, api, outside, budget, HasJoin
<1>8. CASE Verdict
  BY <1>8 DEF Verdict, Waited, Goto, work, api, talk, outside, budget, HasJoin
<1>9. CASE NoVerdict
  BY <1>9 DEF NoVerdict, Goto, Fault, work, api, talk, outside, budget, HasJoin
<1>10. CASE Disable
  BY <1>10 DEF Disable, Goto, Fault, work, api, talk, outside, budget, HasJoin
<1> QED
  BY <1>1, <1>2, <1>3, <1>4, <1>5, <1>6, <1>7, <1>8, <1>9, <1>10

\* The application's JOIN is put into the queue.
LEMMA ComingEnd ==
  ASSUME Typed, Coming, JoinFindsRoom,
         Booted \/ Started \/ Joined \/ Sent \/ Fails \/ ReportFailure
  PROVE  Coming'
<1> USE LrwAssumption DEF Coming, Starting, Engaged, Attempting, Left
<1>0. cmd_msgq \in Seq({"start", "join"}) /\ mode \in {"otaa", "abp"}
  BY DEF Typed, TypeOK
<1>1. CASE Booted
  BY <1>1 DEF Booted, Begin, Goto, work, api, talk, outside, budget, HasJoin
<1>2. CASE Started
  <2>1. Len(cmd_msgq) < CommandItems
    BY <1>2 DEF Started, JoinFindsRoom
  <2>2. /\ mode = "otaa" => HasJoin(cmd_msgq')
        /\ mode = "abp" => ~HasJoin(cmd_msgq')
    BY <1>0, <1>2, <2>1, PutKeeps DEF Started, PutJoin
  <2> QED
    BY <1>0, <1>2, <2>2 DEF Started, Goto, attempt, talk, outside, budget, HasJoin
<1>3. CASE Joined
  BY <1>3 DEF Joined, Goto, work, attempt, api, talk, outside, budget, HasJoin
<1>4. CASE Sent
  BY <1>4 DEF Sent, Goto, attempt, talk, outside, budget, HasJoin
<1>5. CASE Fails
  <2>1. ~HasJoin(cmd_msgq')
    BY <1>5 DEF Fails, HasJoin
  <2> QED
    BY <1>0, <1>5, <2>1 DEF Fails, Goto, attempt, talk, outside, budget
<1>6. CASE ReportFailure
  <2>1. HasJoin(cmd_msgq) <=> HasJoin(cmd_msgq')
    BY <1>0, <1>6, PutKeeps DEF ReportFailure, PutStart
  <2> QED
    BY <1>0, <1>6, <2>1 DEF ReportFailure, Goto, work, attempt, talk, outside, budget
<1> QED
  BY <1>1, <1>2, <1>3, <1>4, <1>5, <1>6

\* All steps together.
LEMMA ComingStep ==
  Typed /\ Coming /\ JoinFindsRoom /\ [Next]_vars => Coming'
<1> SUFFICES ASSUME Typed, Coming, JoinFindsRoom, [Next]_vars PROVE Coming'
  OBVIOUS
<1>1. CASE Next
  BY <1>1, ComingOutside, ComingQueues, ComingAttempt, ComingEnd
     DEF Next, Dispatcher, Receive, Modem
<1>2. CASE UNCHANGED vars
  BY <1>2 DEF Coming, Starting, Engaged, Left, HasJoin, vars, work, attempt,
              api, talk, outside, budget
<1> QED
  BY <1>1, <1>2

\* A modem that is ready and was not joined since it was started is being joined,
\* has a join coming, or is about to be started again, in every run in which the JOIN
\* that follows a setup finds room in the queue, however many messages are sent and
\* commands are typed.
THEOREM JoinIsComing == Spec /\ []JoinFindsRoom => []JoinComing
<1>1. Coming => JoinComing
  BY DEF Coming, JoinComing, Left, HasJoin, Engaged, Attempting
<1>2. Typed /\ Coming /\ JoinFindsRoom /\ [Next]_vars => Coming'
  BY ComingStep
<1> QED
  BY <1>1, <1>2, TypedInit, TypedStep, ComingInit, PTL DEF Spec
=============================================================================
