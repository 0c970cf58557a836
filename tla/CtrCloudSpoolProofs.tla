------------------------ MODULE CtrCloudSpoolProofs -------------------------
(***************************************************************************)
(* Theorems about CtrCloudSpool, for every size of the spool, number of    *)
(* messages, number of faults and number of foreign files.                 *)
(***************************************************************************)
EXTENDS CtrCloudSpool, FiniteSetTheorems, WellFoundedInduction, TLAPS

-----------------------------------------------------------------------------
(* The oldest file *)

\* ctr_cloud_spool_peek() finds a file whenever there is one, and no other
\* file has a smaller name.
LEMMA OldestIsLeast ==
  ASSUME DOMAIN files \subseteq Nat, DOMAIN files # {},
         IsFiniteSet(DOMAIN files)
  PROVE  Oldest \in DOMAIN files /\ \A j \in DOMAIN files : Oldest <= j
<1> DEFINE D == DOMAIN files
           Below(i) == {j \in D : j < i}
           T == {Below(i) : i \in D}
<1>1. T \subseteq FiniteSubsetsOf(D) /\ T # {}
  <2>1. ASSUME NEW i \in D PROVE Below(i) \in FiniteSubsetsOf(D)
    <3>1. Below(i) \in SUBSET D
      OBVIOUS
    <3>2. IsFiniteSet(Below(i))
      BY <3>1, FS_Subset
    <3> QED
      BY <3>1, <3>2 DEF FiniteSubsetsOf
  <2> QED
    BY <2>1
<1>2. PICK S \in T : \A U \in T : <<U, S>> \notin StrictSubsetOrdering(D)
  BY <1>1, FS_StrictSubsetOrderingWellFounded, WFMin
<1>3. PICK i \in D : S = Below(i)
  BY <1>2
<1>4. ASSUME NEW j \in D, j < i PROVE FALSE
  <2>1. Below(j) \subseteq Below(i) /\ j \in Below(i) /\ j \notin Below(j)
    BY <1>4
  <2>2. <<Below(j), S>> \in StrictSubsetOrdering(D)
    BY <2>1, <1>3 DEF StrictSubsetOrdering
  <2> QED
    BY <1>2, <2>2
<1>5. \A j \in D : i <= j
  BY <1>4
<1> QED
  BY <1>5 DEF Oldest

-----------------------------------------------------------------------------
(* Type correctness *)

\* TypeOK is not inductive: that the number of files stays a number needs the
\* guard of the loop that makes room, and that the cloud gets only numbered
\* messages needs the numbers of the frames on disk and in RAM.
Typed ==
  /\ TypeOK
  /\ IsFiniteSet(DOMAIN files)
  /\ \A i \in DOMAIN files : files[i].msg \in 1..MaxMessages
  /\ \A t \in Threads :
       /\ pc[t] \notin {"idle", "clear"} => frame[t].msg \in 1..MaxMessages
       /\ pc[t] \in {"room", "drop"} => SpoolSize > 0
       /\ pc[t] = "drop" => count[t] >= SpoolSize
       /\ pc[t] = "write" => handle[t] \in {id[t], NoFile}

LEMMA CallerIsThread == "caller" \in Threads
BY DEF Threads

LEMMA TypedInit == Init => Typed
<1> SUFFICES ASSUME Init PROVE Typed
  OBVIOUS
<1>1. DOMAIN files = {} /\ files \in [DOMAIN files -> Frame]
  BY DEF Init
<1>2. TypeOK
  <2>1. frame \in [Threads -> Frame] /\ pc \in [Threads -> Step]
    BY DEF Init, Frame, Step
  <2>2. spooled \in BOOLEAN /\ torn \in BOOLEAN /\ clean \in BOOLEAN
    BY DEF Init
  <2> QED
    BY <1>1, <2>1, <2>2, SpoolAssumption DEF Init, TypeOK, NoFile
<1>3. IsFiniteSet(DOMAIN files)
  BY <1>1, FS_EmptySet
<1> QED
  BY <1>1, <1>2, <1>3 DEF Init, Typed

\* What every action of one thread has in common.
LEMMA TypedNewMessage ==
  ASSUME Typed, NEW t \in Threads, NewMessage(t),
         clock' \in Nat, clean' \in BOOLEAN, result' \in {"none", "ok", "error"}
  PROVE  Typed'
BY SpoolAssumption
   DEF Typed, TypeOK, NewMessage, At, Goto, Frame, Step, NoFile, disk, cloud

LEMMA TypedUnlink ==
  ASSUME Typed, NEW i, Unlink(i)
  PROVE  /\ DOMAIN files' \subseteq Nat
         /\ IsFiniteSet(DOMAIN files')
         /\ files' \in [DOMAIN files' -> Frame]
         /\ \A j \in DOMAIN files' : files'[j].msg \in 1..MaxMessages
         /\ handle' \in [Threads -> Nat \cup {NoFile}]
         /\ \A t \in Threads : handle'[t] \in {handle[t], NoFile}
BY FS_RemoveElement DEF Typed, TypeOK, Unlink

LEMMA TypedPut ==
  ASSUME Typed, NEW i \in Nat, NEW f \in Frame, f.msg \in 1..MaxMessages,
         files' = Put(i, f)
  PROVE  /\ DOMAIN files' \subseteq Nat
         /\ IsFiniteSet(DOMAIN files')
         /\ files' \in [DOMAIN files' -> Frame]
         /\ \A j \in DOMAIN files' : files'[j].msg \in 1..MaxMessages
BY FS_AddElement DEF Typed, TypeOK, Put

LEMMA TypedReceived ==
  ASSUME Typed, NEW f \in Frame, f.msg \in 1..MaxMessages, Received(f)
  PROVE  /\ sent' \subseteq 1..MaxMessages
         /\ copies' \in Nat
         /\ torn' \in BOOLEAN
<1>1. CASE f.state = "whole"
  BY <1>1 DEF Typed, TypeOK, Received
<1>2. CASE f.state # "whole"
  BY <1>2 DEF Typed, TypeOK, Received
<1> QED
  BY <1>1, <1>2

LEMMA TypedFault ==
  ASSUME Typed, NEW kind, Fault(kind)
  PROVE  faults' \in 0..MaxFaults /\ clean' \in BOOLEAN
<1>1. faults' \in 0..MaxFaults
  BY SpoolAssumption DEF Fault, Typed, TypeOK
<1>2. clean' \in BOOLEAN
  BY Zenon DEF Fault
<1> QED
  BY <1>1, <1>2

LEMMA TypedUndisturbed ==
  ASSUME Typed, Undisturbed
  PROVE  faults' \in 0..MaxFaults /\ clean' \in BOOLEAN
BY DEF Undisturbed, Typed, TypeOK

LEMMA TypedSaveFailed ==
  ASSUME Typed, NEW t \in Threads, SaveFailed(t)
  PROVE  /\ spooled' \in BOOLEAN
         /\ pc' = [pc EXCEPT ![t] = IF t = "caller" THEN "send" ELSE "idle"]
<1>1. CASE t = "caller"
  BY <1>1, Zenon DEF SaveFailed, Goto
<1>2. CASE t # "caller"
  BY <1>2 DEF SaveFailed, Goto, Typed, TypeOK
<1> QED
  BY <1>1, <1>2

LEMMA TypedSaved ==
  ASSUME Typed, NEW t \in Threads, Saved(t)
  PROVE  /\ spooled' \in BOOLEAN
         /\ pc' = [pc EXCEPT ![t] = IF t = "caller" THEN "send" ELSE "idle"]
<1>1. CASE t = "caller"
  BY <1>1, Zenon DEF Saved, Goto
<1>2. CASE t # "caller"
  BY <1>2 DEF Saved, Goto, Typed, TypeOK
<1> QED
  BY <1>1, <1>2

LEMMA TypedDeleteFails ==
  ASSUME Typed, NEW t \in Threads, DeleteFails(t)
  PROVE  /\ faults' \in 0..MaxFaults /\ clean' \in BOOLEAN
         /\ UNCHANGED <<files, handle, doomed>>
BY TypedFault, TypedUndisturbed DEF DeleteFails, disk

LEMMA TypedDeleteSucceeds ==
  ASSUME Typed, NEW t \in Threads, DeleteSucceeds(t)
  PROVE  /\ faults' \in 0..MaxFaults /\ clean' \in BOOLEAN
         /\ DOMAIN files' \subseteq Nat
         /\ IsFiniteSet(DOMAIN files')
         /\ files' \in [DOMAIN files' -> Frame]
         /\ \A j \in DOMAIN files' : files'[j].msg \in 1..MaxMessages
         /\ handle' \in [Threads -> Nat \cup {NoFile}]
         /\ \A u \in Threads : handle'[u] \in {handle[u], NoFile}
         /\ UNCHANGED doomed
BY TypedUnlink, TypedUndisturbed DEF DeleteSucceeds

\* ctr_cloud_spool_peek() finds one of the files, if not the oldest, or none.
LEMMA TypedPeek ==
  ASSUME Typed, NEW t \in Threads, DOMAIN files # {}, Peek(t)
  PROVE  /\ faults' \in 0..MaxFaults /\ clean' \in BOOLEAN
         /\ \E i \in DOMAIN files : id' = [id EXCEPT ![t] = i]
<1>1. CASE id' = [id EXCEPT ![t] = Oldest] /\ Undisturbed
  BY <1>1, TypedUndisturbed, OldestIsLeast DEF Typed, TypeOK
<1>2. CASE Fault("listing") /\ \E i \in DOMAIN files : id' = [id EXCEPT ![t] = i]
  BY <1>2, TypedFault
<1> QED
  BY <1>1, <1>2 DEF Peek

LEMMA TypedFindsNothing ==
  ASSUME Typed, PeekFindsNothing
  PROVE  faults' \in 0..MaxFaults /\ clean' \in BOOLEAN
BY TypedFault, TypedUndisturbed DEF PeekFindsNothing

\* Every step of ctr_cloud_spool_save() keeps the types.
LEMMA TypedSave ==
  ASSUME Typed, NEW t \in Threads, Save(t)
  PROVE  Typed'
<1> USE SpoolAssumption, TypedFault, TypedUndisturbed, TypedSaveFailed
    DEF At, Goto, disk, cloud, Step, NoFile
<1>1. CASE SaveRefused(t)
  BY <1>1 DEF SaveRefused, Typed, TypeOK
<1>2. CASE Count(t)
  <2>1. Listed \in Nat
    BY FS_CardinalityType DEF Typed, Listed
  <2>2. faults' \in 0..MaxFaults /\ clean' \in BOOLEAN
    BY <1>2 DEF Count
  <2>3. \E n \in Nat : count' = [count EXCEPT ![t] = n]
    BY <1>2, <2>1 DEF Count
  <2> QED
    BY <1>2, <2>2, <2>3 DEF Count, Typed, TypeOK
<1>3. CASE RoomMade(t)
  <2>1. faults' \in 0..MaxFaults /\ clean' \in BOOLEAN
    BY <1>3, TypedFindsNothing DEF RoomMade
  <2> QED
    BY <1>3, <2>1 DEF RoomMade, Typed, TypeOK
<1>4. CASE PeekOldest(t)
  BY <1>4, TypedPeek DEF PeekOldest, Typed, TypeOK
<1>5. CASE Drop(t)
  BY <1>5, TypedDeleteFails, TypedDeleteSucceeds DEF Drop, Typed, TypeOK
<1>6. CASE Open(t)
  <2>1. [frame[t] EXCEPT !.state = "torn"] \in Frame
    BY DEF Typed, TypeOK, Frame
  <2> QED
    BY <1>6, <2>1, TypedPut DEF Open, Typed, TypeOK, Frame
<1>7. CASE OpenFails(t)
  BY <1>7 DEF OpenFails, Typed, TypeOK
<1>8. CASE Write(t)
  BY <1>8, TypedPut, TypedSaved DEF Write, Typed, TypeOK
<1>9. CASE WriteFails(t)
  <2>1. handle' \in [Threads -> Nat \cup {NoFile}] /\ handle'[t] = NoFile
        /\ \A u \in Threads : handle'[u] \in {handle[u], NoFile}
    BY <1>9 DEF WriteFails, Unlink, Typed, TypeOK
  <2>2. /\ DOMAIN files' \subseteq Nat
        /\ IsFiniteSet(DOMAIN files')
        /\ files' \in [DOMAIN files' -> Frame]
        /\ \A j \in DOMAIN files' : files'[j].msg \in 1..MaxMessages
    BY <1>9, TypedUnlink DEF WriteFails, Typed, TypeOK
  <2> QED
    BY <1>9, <2>1, <2>2 DEF WriteFails, Typed, TypeOK
<1> QED
  BY <1>1, <1>2, <1>3, <1>4, <1>5, <1>6, <1>7, <1>8, <1>9 DEF Save

LEMMA TypedFrameFails ==
  ASSUME Typed, frame["caller"].msg \in 1..MaxMessages, FrameFails
  PROVE  /\ sent' \subseteq 1..MaxMessages /\ copies' \in Nat
         /\ torn' \in BOOLEAN
         /\ faults' \in 0..MaxFaults /\ clean' \in BOOLEAN
<1>1. faults' \in 0..MaxFaults /\ clean' \in BOOLEAN
  BY TypedFault DEF FrameFails
<1>2. CASE UNCHANGED cloud
  BY <1>1, <1>2 DEF cloud, Typed, TypeOK
<1>3. CASE Received(frame["caller"])
  BY <1>1, <1>3, TypedReceived, CallerIsThread DEF Typed, TypeOK
<1> QED
  BY <1>2, <1>3 DEF FrameFails

LEMMA TypedFrameSent ==
  ASSUME Typed, frame["caller"].msg \in 1..MaxMessages, FrameSent
  PROVE  /\ sent' \subseteq 1..MaxMessages /\ copies' \in Nat
         /\ torn' \in BOOLEAN
         /\ faults' \in 0..MaxFaults /\ clean' \in BOOLEAN
BY TypedReceived, TypedUndisturbed, CallerIsThread DEF FrameSent, Typed, TypeOK

\* Every step of ctr_cloud_send_data() and drain_spool() keeps the types.
LEMMA TypedSend ==
  ASSUME Typed, Send \/ DeleteOwn \/ Drain
  PROVE  Typed'
<1> USE SpoolAssumption, CallerIsThread, TypedFault, TypedUndisturbed,
        TypedDeleteSucceeds, TypedDeleteFails
    DEF At, Goto, Return, disk, cloud, Step, NoFile
<1>1. CASE Send
  BY <1>1, TypedFrameSent, TypedFrameFails DEF Send, TimePasses, Typed, TypeOK
<1>2. CASE DeleteOwn
  BY <1>2 DEF DeleteOwn, Typed, TypeOK
<1>3. CASE Drained
  BY <1>3, TypedFindsNothing DEF Drained, Typed, TypeOK
<1>4. CASE NextToDrain
  BY <1>4, TypedPeek DEF NextToDrain, Typed, TypeOK
<1>5. CASE Load
  BY <1>5 DEF Load, Readable, Stored, Typed, TypeOK
<1>6. CASE Discard
  BY <1>6 DEF Discard, Typed, TypeOK
<1>7. CASE Resend
  BY <1>7, TypedFrameSent, TypedFrameFails DEF Resend, Typed, TypeOK
<1>8. CASE Release
  BY <1>8 DEF Release, Typed, TypeOK
<1> QED
  BY <1>1, <1>2, <1>3, <1>4, <1>5, <1>6, <1>7, <1>8 DEF Drain

\* So do the steps of the shell ...
LEMMA TypedShell ==
  ASSUME Typed, "shell" \in Threads, Fake \/ Clean \/ Clear
  PROVE  Typed'
<1> USE SpoolAssumption, TypedFault, TypedUndisturbed
    DEF At, Goto, disk, cloud, Step, NoFile
<1>1. CASE Fake
  BY <1>1, TypedNewMessage DEF Fake, TimePasses, Typed, TypeOK
<1>2. CASE Clean
  BY <1>2 DEF Clean, Typed, TypeOK
<1>3. CASE Clear
  <2>1. UNCHANGED <<frame, id, count, spooled, result, sent, copies, torn,
                    clock, messages>>
    BY <1>3 DEF Clear
  <2>2. pc["shell"] = "clear"
    BY <1>3 DEF Clear
  <2>3. CASE \E i \in DOMAIN files : /\ Unlink(i) /\ doomed' = doomed \ {i}
                                    /\ Undisturbed /\ UNCHANGED pc
    BY <2>1, <2>3, TypedUnlink DEF Typed, TypeOK
  <2>4. CASE \E i \in doomed : /\ doomed' = doomed \ {i} /\ Undisturbed
                              /\ UNCHANGED <<files, handle, pc>>
    BY <2>1, <2>4 DEF Typed, TypeOK
  <2>5. CASE /\ doomed' = {} /\ Goto("shell", "idle")
             /\ Undisturbed \/ Fault("unlink") \/ Fault("listing")
             /\ UNCHANGED <<files, handle>>
    BY <2>1, <2>2, <2>5 DEF Typed, TypeOK
  <2> QED
    BY <1>3, <2>3, <2>4, <2>5 DEF Clear
<1> QED
  BY <1>1, <1>2, <1>3

\* ... and those of the environment.
LEMMA TypedEnvironment ==
  ASSUME Typed, Environment
  PROVE  Typed'
<1> USE SpoolAssumption, TypedFault DEF disk, ram, cloud, Step, NoFile
<1>1. CASE Crash
  BY <1>1 DEF Crash, TimePasses, Typed, TypeOK
<1>2. CASE ClockSetBack
  BY <1>2 DEF ClockSetBack, Typed, TypeOK
<1>3. CASE Corrupt
  <2>1. PICK i \in DOMAIN files :
          files' = Put(i, [files[i] EXCEPT !.state = "unreadable"])
    BY <1>3 DEF Corrupt
  <2>2. [files[i] EXCEPT !.state = "unreadable"] \in Frame
        /\ [files[i] EXCEPT !.state = "unreadable"].msg \in 1..MaxMessages
    BY DEF Typed, TypeOK, Frame
  <2> QED
    BY <1>3, <2>1, <2>2, TypedPut DEF Corrupt, Typed, TypeOK
<1> QED
  BY <1>1, <1>2, <1>3 DEF Environment

LEMMA TypedStep == Typed /\ [Next]_vars => Typed'
<1> SUFFICES ASSUME Typed, [Next]_vars PROVE Typed'
  OBVIOUS
<1>1. CASE SendData
  BY <1>1, CallerIsThread, TypedNewMessage DEF SendData, Typed, TypeOK
<1>2. CASE Save("caller") \/ Send \/ DeleteOwn \/ Drain
  BY <1>2, CallerIsThread, TypedSave, TypedSend
<1>3. CASE Shell /\ ShellSteps
  <2>1. "shell" \in Threads
    BY <1>3 DEF Threads
  <2> QED
    BY <1>3, <2>1, TypedSave, TypedShell DEF ShellSteps
<1>4. CASE Environment
  BY <1>4, TypedEnvironment
<1>5. CASE UNCHANGED vars
  BY <1>5 DEF vars, disk, ram, cloud, budget, Typed, TypeOK
<1> QED
  BY <1>1, <1>2, <1>3, <1>4, <1>5 DEF Next, SendDataSteps

\* The variables of the spool keep their types, and a file is open only while
\* it is written, whatever the shell does and whatever fails.
THEOREM TypeCorrect == Spec => []TypeOK
<1>1. Typed => TypeOK
  BY DEF Typed
<1> QED
  BY TypedInit, TypedStep, <1>1, PTL DEF Spec

-----------------------------------------------------------------------------
(* A call that nothing disturbs empties the spool.  The shell is left out:  *)
(* it may fill and empty the directory between any two steps of the call.   *)

\* The caller works on a file that is there; it only goes on without the spool
\* after a failure, or when there is no spool and hence no file.
Alone ==
  /\ pc["caller"] \in {"drop", "load", "discard", "resend", "release",
                       "delete", "write"} => id["caller"] \in DOMAIN files
  /\ pc["caller"] = "write" => handle["caller"] = id["caller"]
  /\ pc["caller"] = "send" /\ spooled => id["caller"] \in DOMAIN files
  /\ pc["caller"] = "send" /\ ~spooled /\ clean => SpoolSize = 0
  /\ pc["caller"] \in {"open", "write"} => SpoolSize > 0
  /\ SpoolSize = 0 => DOMAIN files = {}
  /\ UndisturbedCallDrains

LEMMA AloneThreads ==
  ASSUME Shell = FALSE
  PROVE  Threads = {"caller"}
BY DEF Threads

LEMMA AloneInit == Init => Alone
<1> SUFFICES ASSUME Init PROVE Alone
  OBVIOUS
<1>1. DOMAIN files = {} /\ pc["caller"] = "idle"
  BY CallerIsThread DEF Init
<1> QED
  BY <1>1 DEF Alone, UndisturbedCallDrains

LEMMA AloneSave ==
  ASSUME Shell = FALSE, Typed, Alone, Save("caller")
  PROVE  Alone'
<1> USE SpoolAssumption, CallerIsThread, AloneThreads
    DEF Alone, UndisturbedCallDrains, At, Goto, Typed, TypeOK, disk
<1>1. CASE SaveRefused("caller")
  BY <1>1 DEF SaveRefused, SaveFailed, Fault
<1>2. CASE Count("caller")
  BY <1>2 DEF Count, Fault
<1>3. CASE RoomMade("caller")
  BY <1>3 DEF RoomMade, PeekFindsNothing, Fault
<1>4. CASE PeekOldest("caller")
  BY <1>4, OldestIsLeast DEF PeekOldest, Peek, Fault
<1>5. CASE Drop("caller")
  BY <1>5 DEF Drop, DeleteSucceeds, DeleteFails, Unlink, Stored, Fault,
              SaveFailed
<1>6. CASE Open("caller")
  BY <1>6 DEF Open, Put, Stored
<1>7. CASE OpenFails("caller")
  BY <1>7 DEF OpenFails, SaveFailed, Fault
<1>8. CASE Write("caller")
  BY <1>8 DEF Write, Put, Saved, Fault
<1>9. CASE WriteFails("caller")
  BY <1>9 DEF WriteFails, SaveFailed, Fault, Unlink
<1> QED
  BY <1>1, <1>2, <1>3, <1>4, <1>5, <1>6, <1>7, <1>8, <1>9 DEF Save

LEMMA AloneSend ==
  ASSUME Shell = FALSE, Typed, Alone, Send \/ DeleteOwn \/ Drain
  PROVE  Alone'
<1> USE SpoolAssumption, CallerIsThread, AloneThreads
    DEF Alone, UndisturbedCallDrains, At, Goto, Return, Typed, TypeOK, disk
<1>1. CASE Send
  BY <1>1 DEF Send, FrameSent, Undisturbed
<1>2. CASE DeleteOwn
  BY <1>2 DEF DeleteOwn, DeleteSucceeds, DeleteFails, Unlink, Stored, Fault
<1>3. CASE Drained
  BY <1>3 DEF Drained, PeekFindsNothing, Fault
<1>4. CASE NextToDrain
  BY <1>4, OldestIsLeast DEF NextToDrain, Peek, Fault
<1>5. CASE Load
  BY <1>5 DEF Load
<1>6. CASE Discard
  BY <1>6 DEF Discard, DeleteSucceeds, DeleteFails, Unlink, Stored, Fault
<1>7. CASE Resend
  BY <1>7 DEF Resend, FrameFails, Fault
<1>8. CASE Release
  BY <1>8 DEF Release, DeleteSucceeds, DeleteFails, Unlink, Stored, Fault
<1> QED
  BY <1>1, <1>2, <1>3, <1>4, <1>5, <1>6, <1>7, <1>8 DEF Drain

LEMMA AloneStep ==
  ASSUME Shell = FALSE, Typed, Alone, [Next]_vars
  PROVE  Alone'
<1> USE CallerIsThread, AloneThreads
<1>1. CASE SendData
  BY <1>1 DEF SendData, NewMessage, At, Goto, disk, Alone,
              UndisturbedCallDrains, Typed, TypeOK
<1>2. CASE Save("caller") \/ Send \/ DeleteOwn \/ Drain
  BY <1>2, AloneSave, AloneSend
<1>3. CASE Crash
  BY <1>3 DEF Crash, Alone, UndisturbedCallDrains
<1>4. CASE ClockSetBack
  BY <1>4 DEF ClockSetBack, Fault, disk, ram, Alone, UndisturbedCallDrains
<1>5. CASE Corrupt
  BY <1>5 DEF Corrupt, Fault, Put, ram, Alone, UndisturbedCallDrains
<1>6. CASE UNCHANGED vars
  BY <1>6 DEF vars, disk, ram, cloud, budget, Alone, UndisturbedCallDrains
<1> QED
  BY <1>1, <1>2, <1>3, <1>4, <1>5, <1>6 DEF Next, SendDataSteps, Environment

\* A call of ctr_cloud_send_data() that nothing disturbs and that returns 0
\* leaves an empty spool, whatever earlier calls, failures, resets, clock
\* changes and damaged files have left there (ctr_cloud.c:915-927).
THEOREM CallDrains ==
  ASSUME Shell = FALSE
  PROVE  Spec => []UndisturbedCallDrains
<1>1. Init => Typed /\ Alone
  BY TypedInit, AloneInit
<1>2. Typed /\ Alone /\ [Next]_vars => (Typed /\ Alone)'
  BY TypedStep, AloneStep
<1>3. Alone => UndisturbedCallDrains
  BY DEF Alone
<1> QED
  BY <1>1, <1>2, <1>3, PTL DEF Spec

-----------------------------------------------------------------------------
(* The spool keeps its promise (SpoolPromise), as long as nobody uses the   *)
(* shell, files and the directory can be read to the end and the clock is   *)
(* not set back.                                                            *)

Calm == Shell = FALSE /\ Faults \cap {"clock", "read", "unreadable", "listing"} = {}

Saving == {"count", "room", "drop", "open"}

\* A frame in RAM or on disk belongs to a message made so far; later files
\* hold later messages; a new message gets a new file; a file is removed after
\* its message was sent, or as the oldest one of a full spool.
Ordered ==
  /\ \A i \in DOMAIN files :
       /\ files[i].msg <= messages
       /\ i <= clock
       /\ files[i].state # "unreadable"
  /\ \A i, j \in DOMAIN files : i < j => files[i].msg < files[j].msg
  /\ pc["caller"] \in Saving \cup {"write", "send"} =>
       frame["caller"] = [msg |-> messages, state |-> "whole"]
  /\ pc["caller"] \in Saving => \A i \in DOMAIN files : files[i].msg < messages
  /\ pc["caller"] \notin {"write", "send"} => \A i \in DOMAIN files : i < clock
  /\ pc["caller"] \in {"room", "drop"} =>
       count["caller"] = Foreign + Cardinality(DOMAIN files)
  /\ pc["caller"] = "drop" => id["caller"] = Oldest
  /\ pc["caller"] = "write" =>
       /\ files[id["caller"]] = [msg |-> messages, state |-> "torn"]
       /\ \A i \in DOMAIN files : i <= id["caller"]
  /\ pc["caller"] = "send" /\ spooled => files[id["caller"]].msg = messages
  /\ pc["caller"] = "resend" => files[id["caller"]] = frame["caller"]
  /\ pc["caller"] \in {"delete", "release"} /\ Whole(id["caller"]) =>
       files[id["caller"]].msg \in sent
  /\ pc["caller"] # "discard"

LEMMA OrderedInit == Init => Ordered
<1> SUFFICES ASSUME Init PROVE Ordered
  OBVIOUS
<1>1. DOMAIN files = {} /\ pc["caller"] = "idle"
  BY CallerIsThread DEF Init
<1> QED
  BY <1>1 DEF Ordered, Saving

LEMMA OrderedSave ==
  ASSUME Calm, Typed, Alone, Ordered, Save("caller")
  PROVE  Ordered'
<1> USE SpoolAssumption, CallerIsThread, AloneThreads
    DEF Calm, At, Goto, Typed, TypeOK, disk, cloud, Saving, Whole, Stored
<1>1. CASE SaveRefused("caller")
  BY <1>1 DEF SaveRefused, SaveFailed, Ordered
<1>2. CASE Count("caller")
  BY <1>2 DEF Count, Fault, Listed, Ordered
<1>3. CASE RoomMade("caller")
  BY <1>3 DEF RoomMade, Ordered
<1>4. CASE PeekOldest("caller")
  BY <1>4, OldestIsLeast DEF PeekOldest, Peek, Fault, Ordered, Oldest
<1>5. CASE Drop("caller")
  <2>1. CASE DeleteFails("caller") /\ SaveFailed("caller")
    BY <1>5, <2>1 DEF Drop, DeleteFails, SaveFailed, Ordered
  <2>2. CASE DeleteSucceeds("caller") /\ Goto("caller", "room")
             /\ count' = [count EXCEPT !["caller"] = @ - 1]
    <3> DEFINE o == id["caller"]
    <3>1. /\ o \in DOMAIN files
          /\ files' = [j \in DOMAIN files \ {o} |-> files[j]]
      BY <2>2 DEF DeleteSucceeds, Unlink
    <3>2. Cardinality(DOMAIN files') = Cardinality(DOMAIN files) - 1
      BY <3>1, FS_RemoveElement
    <3>3. count'["caller"] = Foreign + Cardinality(DOMAIN files')
      BY <1>5, <2>2, <3>2, FS_CardinalityType DEF Drop, Ordered
    <3> QED
      BY <1>5, <2>2, <3>1, <3>3 DEF Drop, Ordered
  <2> QED
    BY <1>5, <2>1, <2>2 DEF Drop
<1>6. CASE Open("caller")
  BY <1>6 DEF Open, Put, Ordered
<1>7. CASE OpenFails("caller")
  BY <1>7 DEF OpenFails, SaveFailed, Ordered
<1>8. CASE Write("caller")
  <2>1. /\ pc["caller"] = "write" /\ pc' = [pc EXCEPT !["caller"] = "send"]
        /\ UNCHANGED <<frame, id, count, sent, clock, messages>>
    BY <1>8 DEF Write, Saved
  <2>2. CASE files' = files
    BY <2>1, <2>2 DEF Ordered
  <2>3. CASE files' = Put(handle["caller"], frame["caller"]) /\ handle["caller"] # NoFile
    BY <2>1, <2>3 DEF Put, Alone, Ordered
  <2> QED
    BY <1>8, <2>2, <2>3 DEF Write
<1>9. CASE WriteFails("caller")
  BY <1>9 DEF WriteFails, SaveFailed, Unlink, Ordered
<1> QED
  BY <1>1, <1>2, <1>3, <1>4, <1>5, <1>6, <1>7, <1>8, <1>9 DEF Save

LEMMA OrderedSend ==
  ASSUME Calm, Typed, Alone, Ordered, Send \/ DeleteOwn \/ Drain
  PROVE  Ordered'
<1> USE SpoolAssumption, CallerIsThread, AloneThreads
    DEF Calm, At, Goto, Return, Typed, TypeOK, disk, cloud, Saving, Whole,
        Stored
<1>1. CASE Send
  <2>1. /\ clock' = clock + 1
        /\ UNCHANGED <<files, frame, id, count, spooled, messages>>
        /\ pc["caller"] = "send"
    BY <1>1 DEF Send, TimePasses
  <2>2. CASE FrameSent /\ spooled /\ Goto("caller", "delete")
    <3>1. messages \in sent'
      BY <2>1, <2>2 DEF FrameSent, Received, Ordered
    <3> QED
      BY <2>1, <2>2, <3>1 DEF Ordered
  <2>3. CASE Goto("caller", "idle")
    BY <2>1, <2>3 DEF Ordered
  <2> QED
    BY <1>1, <2>2, <2>3 DEF Send
<1>2. CASE DeleteOwn
  BY <1>2 DEF DeleteOwn, DeleteSucceeds, DeleteFails, Unlink, Ordered
<1>3. CASE Drained
  BY <1>3 DEF Drained, Ordered
<1>4. CASE NextToDrain
  BY <1>4 DEF NextToDrain, Peek, Fault, Ordered
<1>5. CASE Load
  BY <1>5 DEF Load, Readable, Fault, Alone, Ordered
<1>6. CASE Discard
  BY <1>6 DEF Discard, Ordered
<1>7. CASE Resend
  BY <1>7 DEF Resend, FrameSent, Received, Ordered
<1>8. CASE Release
  BY <1>8 DEF Release, DeleteSucceeds, DeleteFails, Unlink, Ordered
<1> QED
  BY <1>1, <1>2, <1>3, <1>4, <1>5, <1>6, <1>7, <1>8 DEF Drain

LEMMA OrderedStep ==
  ASSUME Calm, Typed, Alone, Ordered, [Next]_vars
  PROVE  Ordered'
<1> USE CallerIsThread, AloneThreads DEF Calm, Saving, Whole, Stored
<1>1. CASE SendData
  BY <1>1 DEF SendData, NewMessage, At, Goto, disk, cloud, Ordered, Typed,
              TypeOK
<1>2. CASE Save("caller") \/ Send \/ DeleteOwn \/ Drain
  BY <1>2, OrderedSave, OrderedSend
<1>3. CASE Crash
  BY <1>3 DEF Crash, TimePasses, cloud, Ordered, Typed, TypeOK
<1>4. CASE ClockSetBack \/ Corrupt
  BY <1>4 DEF ClockSetBack, Corrupt, Fault
<1>5. CASE UNCHANGED vars
  BY <1>5 DEF vars, disk, ram, cloud, budget, Ordered, Oldest
<1> QED
  BY <1>1, <1>2, <1>3, <1>4, <1>5 DEF Next, SendDataSteps, Environment

\* The refinement mapping of CtrCloudSpool, named.
Kept == {files[i].msg : i \in {j \in DOMAIN files : Whole(j)}}
Entries == Listed

\* Removing a file removes one entry, and its message if it had one.
LEMMA UnlinkMaps ==
  ASSUME Typed, Ordered, NEW o \in DOMAIN files,
         files' = [j \in DOMAIN files \ {o} |-> files[j]]
  PROVE  /\ Entries' = Entries - 1
         /\ Kept' = IF Whole(o) THEN Kept \ {files[o].msg} ELSE Kept
<1>1. Cardinality(DOMAIN files') = Cardinality(DOMAIN files) - 1
  BY FS_RemoveElement DEF Typed
<1>2. Entries' = Entries - 1
  BY <1>1, FS_CardinalityType, SpoolAssumption DEF Entries, Listed, Typed
<1>3. \A j \in DOMAIN files : j # o => files[j].msg # files[o].msg
  <2> SUFFICES ASSUME NEW j \in DOMAIN files, j # o
               PROVE  files[j].msg # files[o].msg
    OBVIOUS
  <2>1. j < o \/ o < j
    BY DEF Typed, TypeOK
  <2> QED
    BY <2>1 DEF Ordered, Typed, TypeOK
<1>4. Kept' = IF Whole(o) THEN Kept \ {files[o].msg} ELSE Kept
  BY <1>3 DEF Kept, Whole, Stored
<1> QED
  BY <1>2, <1>4

LEMMA SameFilesMap ==
  ASSUME files' = files
  PROVE  Kept' = Kept /\ Entries' = Entries
BY DEF Kept, Entries, Listed, Whole, Stored

\* A frame that arrives is one of the messages, or none.
LEMMA ReceivedMaps ==
  ASSUME Typed, Received(frame["caller"]), files' = files,
         frame["caller"].msg \in 1..MaxMessages
  PROVE  Promise!Deliver \/ UNCHANGED <<Kept, Entries, sent>>
<1>1. Kept' = Kept /\ Entries' = Entries
  BY SameFilesMap
<1>2. CASE frame["caller"].state = "whole"
  BY <1>1, <1>2 DEF Received, Promise!Deliver, Kept, Entries
<1>3. CASE frame["caller"].state # "whole"
  BY <1>1, <1>3 DEF Received
<1> QED
  BY <1>2, <1>3

LEMMA SaveMaps ==
  ASSUME Calm, Typed, Alone, Ordered, Save("caller")
  PROVE  Promise!Next \/ UNCHANGED <<Kept, Entries, sent>>
<1> USE SpoolAssumption, CallerIsThread, AloneThreads
    DEF Calm, At, disk, cloud, Saving
<1> DEFINE o == id["caller"]
<1>1. CASE Open("caller")
  <2>1. clock \notin DOMAIN files /\ clock \in Nat
    BY <1>1 DEF Open, Ordered, Typed, TypeOK
  <2>2. /\ DOMAIN files' = DOMAIN files \cup {clock}
        /\ \A j \in DOMAIN files : files'[j] = files[j]
        /\ files'[clock].state = "torn"
    BY <1>1, <2>1 DEF Open, Stored, Put, Typed, TypeOK, Frame
  <2>3. Entries' = Entries + 1
    <3>1. IsFiniteSet(DOMAIN files) /\ Cardinality(DOMAIN files) \in Nat
      BY FS_CardinalityType DEF Typed
    <3>2. Cardinality(DOMAIN files') = Cardinality(DOMAIN files) + 1
      BY <2>1, <2>2, <3>1, FS_AddElement
    <3> QED
      BY <3>1, <3>2 DEF Entries, Listed
  <2>4. Kept' = Kept
    BY <2>1, <2>2 DEF Kept, Whole, Stored
  <2> QED
    BY <1>1, <2>3, <2>4
    DEF Open, Promise!Next, Promise!Create, Kept, Entries
<1>2. CASE Write("caller") /\ files' # files
  <2>1. /\ o \in DOMAIN files /\ ~Whole(o)
        /\ files' = Put(o, [msg |-> messages, state |-> "whole"])
    BY <1>2 DEF Write, Alone, Ordered, Whole, Typed, TypeOK, NoFile
  <2>2. /\ DOMAIN files' = DOMAIN files
        /\ \A j \in DOMAIN files : j # o => files'[j] = files[j]
        /\ files'[o] = [msg |-> messages, state |-> "whole"]
    BY <2>1 DEF Put
  <2>3. Kept' = Kept \cup {messages} /\ Entries' = Entries
    BY <2>1, <2>2 DEF Kept, Entries, Listed, Whole, Stored
  <2>4. \A k \in Kept : k < messages
    <3> SUFFICES ASSUME NEW i \in DOMAIN files, Whole(i)
                 PROVE  files[i].msg < messages
      BY DEF Kept
    <3>1. i <= o /\ i # o
      BY <1>2, <2>1 DEF Write, Ordered
    <3>2. i < o
      BY <2>1, <3>1 DEF Typed, TypeOK
    <3> QED
      BY <1>2, <2>1, <3>2 DEF Write, Ordered
  <2>5. messages \in 1..MaxMessages
    BY <1>2 DEF Write, Ordered, Typed
  <2> QED
    BY <1>2, <2>3, <2>4, <2>5
    DEF Write, Promise!Next, Promise!Keep, Kept, Entries
<1>3. CASE Drop("caller") /\ DeleteSucceeds("caller")
  <2>1. /\ o \in DOMAIN files
        /\ files' = [j \in DOMAIN files \ {o} |-> files[j]]
        /\ sent' = sent
    BY <1>3 DEF Drop, DeleteSucceeds, Unlink, Stored
  <2>2. CASE Whole(o)
    <3>1. Entries >= SpoolSize
      BY <1>3 DEF Drop, Ordered, Typed, Entries, Listed
    <3>2. files[o].msg \in Kept /\ \A k \in Kept : files[o].msg <= k
      <4> SUFFICES ASSUME NEW i \in DOMAIN files, Whole(i)
                   PROVE  files[o].msg <= files[i].msg
        BY <2>1, <2>2 DEF Kept
      <4>1. o <= i
        BY <1>3, <2>1, OldestIsLeast DEF Drop, Ordered, Typed, TypeOK
      <4>2. o < i \/ o = i
        <5>1. o \in Nat /\ i \in Nat
          BY <2>1 DEF Typed, TypeOK
        <5> QED
          BY <4>1, <5>1
      <4> QED
        BY <2>1, <4>2 DEF Ordered, Typed, TypeOK, Frame
    <3> QED
      BY <2>1, <2>2, <3>1, <3>2, UnlinkMaps
      DEF Promise!Next, Promise!DropOldest, Kept, Entries
  <2>3. CASE ~Whole(o)
    BY <2>1, <2>3, UnlinkMaps
    DEF Promise!Next, Promise!Release, Kept, Entries
  <2> QED
    BY <2>2, <2>3
<1>4. CASE WriteFails("caller") /\ Unlink(o)
  <2>1. /\ o \in DOMAIN files /\ ~Whole(o)
        /\ files' = [j \in DOMAIN files \ {o} |-> files[j]]
        /\ sent' = sent
    BY <1>4 DEF WriteFails, Unlink, Alone, Ordered, Whole
  <2> QED
    BY <2>1, UnlinkMaps DEF Promise!Next, Promise!Release, Kept, Entries
<1>5. CASE UNCHANGED <<files, sent>>
  BY <1>5, SameFilesMap
<1> QED
  BY <1>1, <1>2, <1>3, <1>4, <1>5
  DEF Save, SaveRefused, Count, RoomMade, PeekOldest, Drop, DeleteFails,
      OpenFails, Write, WriteFails

LEMMA SendMaps ==
  ASSUME Calm, Typed, Alone, Ordered, Send \/ DeleteOwn \/ Drain
  PROVE  Promise!Next \/ UNCHANGED <<Kept, Entries, sent>>
<1> USE CallerIsThread DEF Calm, At, disk
<1> DEFINE o == id["caller"]
<1>1. CASE Send \/ Resend
  <2>1. files' = files /\ frame["caller"].msg \in 1..MaxMessages
    BY <1>1 DEF Send, Resend, Typed
  <2>2. Received(frame["caller"]) \/ UNCHANGED sent
    BY <1>1 DEF Send, Resend, FrameSent, FrameFails, cloud
  <2>3. CASE Received(frame["caller"])
    BY <2>1, <2>3, ReceivedMaps DEF Promise!Next
  <2>4. CASE UNCHANGED sent
    BY <2>1, <2>4, SameFilesMap
  <2> QED
    BY <2>2, <2>3, <2>4
<1>2. CASE (DeleteOwn \/ Release) /\ DeleteSucceeds("caller")
  <2>1. /\ o \in DOMAIN files
        /\ files' = [j \in DOMAIN files \ {o} |-> files[j]]
        /\ sent' = sent
        /\ Whole(o) => files[o].msg \in sent
    BY <1>2
    DEF DeleteOwn, Release, DeleteSucceeds, Unlink, Stored, cloud, Ordered
  <2>2. Whole(o) => files[o].msg \in Kept
    BY <2>1 DEF Kept
  <2> QED
    BY <2>1, <2>2, UnlinkMaps DEF Promise!Next, Promise!Release, Kept, Entries
<1>3. CASE UNCHANGED <<files, sent>>
  BY <1>3, SameFilesMap
<1> QED
  BY <1>1, <1>2, <1>3
  DEF Drain, DeleteOwn, Drained, NextToDrain, Load, Discard, Ordered, Release,
      DeleteFails, cloud

LEMMA PromiseStep ==
  ASSUME Calm, Typed, Alone, Ordered, [Next]_vars
  PROVE  Promise!Next \/ UNCHANGED <<Kept, Entries, sent>>
<1>1. CASE Save("caller")
  BY <1>1, SaveMaps
<1>2. CASE Send \/ DeleteOwn \/ Drain
  BY <1>2, SendMaps
<1>3. CASE UNCHANGED <<files, sent>>
  BY <1>3, SameFilesMap
<1> QED
  BY <1>1, <1>2, <1>3
  DEF Calm, Next, SendDataSteps, SendData, NewMessage, Environment, Crash,
      ClockSetBack, Corrupt, Fault, vars, disk, cloud

LEMMA PromiseInit == Init => Promise!Init
<1> SUFFICES ASSUME Init PROVE Promise!Init
  OBVIOUS
<1>1. DOMAIN files = {} /\ sent = {}
  BY DEF Init
<1>2. Kept = {}
  BY <1>1 DEF Kept
<1>3. Entries \in Nat
  BY <1>1, FS_EmptySet, SpoolAssumption DEF Entries, Listed
<1> QED
  BY <1>1, <1>2, <1>3 DEF Promise!Init, Kept, Entries

\* A message that was stored leaves the spool only after the cloud has it, or
\* as the oldest one of a full spool, whatever resets the device and whichever
\* call of the file system or of the link fails (ctr_cloud.c:889-890,
\* ctr_cloud_spool.h:32-33).
THEOREM PromiseKept ==
  ASSUME Calm
  PROVE  Spec => KeepsPromise
<1> DEFINE Inv == Typed /\ Alone /\ Ordered
<1>1. Init => Inv /\ Promise!Init
  BY TypedInit, AloneInit, OrderedInit, PromiseInit
<1>2. Inv /\ [Next]_vars => Inv'
  BY TypedStep, AloneStep, OrderedStep DEF Calm
<1>3. Inv /\ [Next]_vars => [Promise!Next]_<<Kept, Entries, sent>>
  BY PromiseStep
<1>4. Inv /\ [Next]_vars =>
        [Promise!Next]_<<{files[i].msg : i \in {j \in DOMAIN files : Whole(j)}},
                         Listed, sent>>
  BY <1>3 DEF Kept, Entries
<1> QED
  BY <1>1, <1>2, <1>4, PTL DEF Spec, KeepsPromise, Promise!Spec

-----------------------------------------------------------------------------
(* The spool stays within its limit, but for the files that are made when   *)
(* the directory cannot be read while room is made.                         *)

Size == Cardinality(DOMAIN files)

\* Failures that may each have made one file too many.
Slack == IF Faults \cap {"fs", "listing"} = {} THEN 0 ELSE MaxFaults - faults

Within == Size <= Limit + Slack
Roomy == Size < Limit + Slack

\* While nothing fails the loop that makes room counts right; when it does not, a failure
\* has paid for the file that is to come.
Bounded ==
  /\ Within
  /\ pc["caller"] \in {"room", "drop"} =>
       \/ count["caller"] = Foreign + Size
       \/ Roomy /\ ~clean
  /\ pc["caller"] = "open" =>
       \/ Foreign + Size < SpoolSize \/ Size = 0
       \/ Roomy /\ ~clean
  /\ pc["caller"] = "write" /\ clean => Size <= Limit
  /\ pc["caller"] = "send" /\ spooled /\ clean => Size <= Limit

LEMMA SlackOf ==
  ASSUME Typed
  PROVE  /\ Slack \in Nat
         /\ faults' = faults => Slack' = Slack
         /\ \A kind : Fault(kind) => Slack' \in Nat /\ Slack' >= Slack /\ ~clean'
         /\ Fault("fs") \/ Fault("listing") => Slack' = Slack + 1 /\ ~clean'
<1>1. faults \in 0..MaxFaults /\ MaxFaults \in Nat
  BY SpoolAssumption DEF Typed, TypeOK
<1> QED
  BY <1>1 DEF Slack, Fault

\* How the number of files changes.
LEMMA SizeOf ==
  ASSUME Typed
  PROVE  /\ Size \in Nat
         /\ DOMAIN files = {} <=> Size = 0
         /\ files' = files => Size' = Size
         /\ \A i \in DOMAIN files : Unlink(i) => Size' = Size - 1
         /\ \A i : Unlink(i) => Size' \in Int /\ Size' <= Size
         /\ \A i, f : files' = Put(i, f) =>
              Size' = IF i \in DOMAIN files THEN Size ELSE Size + 1
<1>1. Size \in Nat /\ (DOMAIN files = {} <=> Size = 0)
  BY FS_CardinalityType, FS_EmptySet DEF Size, Typed
<1>2. ASSUME NEW i, Unlink(i)
      PROVE  Size' = IF i \in DOMAIN files THEN Size - 1 ELSE Size
  <2>1. DOMAIN files' = DOMAIN files \ {i}
    BY <1>2 DEF Unlink
  <2> QED
    BY <2>1, FS_RemoveElement DEF Size, Typed
<1>3. ASSUME NEW i, NEW f, files' = Put(i, f)
      PROVE  Size' = IF i \in DOMAIN files THEN Size ELSE Size + 1
  <2>1. DOMAIN files' = DOMAIN files \cup {i}
    BY <1>3 DEF Put
  <2> QED
    BY <2>1, FS_AddElement DEF Size, Typed
<1>4. files' = files => Size' = Size
  BY DEF Size
<1>5. \A i : Unlink(i) => Size' \in Int /\ Size' <= Size
  BY <1>1, <1>2
<1>6. \A i \in DOMAIN files : Unlink(i) => Size' = Size - 1
  BY <1>2
<1> QED
  BY <1>1, <1>3, <1>4, <1>5, <1>6

\* Fewer files, or more failures behind us, keep what was within its bounds there.
LEMMA Looser ==
  ASSUME Typed, Slack' \in Nat, Slack' >= Slack, Size' \in Int, Size' <= Size
  PROVE  (Within => Within') /\ (Roomy => Roomy')
<1>1. Limit \in Nat /\ Limit' = Limit
  BY SpoolAssumption DEF Limit
<1>2. Size \in Nat /\ Slack \in Nat
  BY SizeOf, SlackOf
<1>3. PICK k \in Nat : k = Slack'
  OBVIOUS
<1>4. PICK s \in Int : s = Size'
  OBVIOUS
<1>5. s <= Size /\ k >= Slack
  BY <1>3, <1>4, Zenon
<1>6. (Size <= Limit + Slack => s <= Limit + k) /\ (Size < Limit + Slack => s < Limit + k)
  BY <1>1, <1>2, <1>5
<1> QED
  BY <1>1, <1>3, <1>4, <1>6, Zenon DEF Within, Roomy

LEMMA BoundedInit == Init => Bounded
<1> SUFFICES ASSUME Init PROVE Bounded
  OBVIOUS
<1>1. Size = 0 /\ pc["caller"] = "idle"
  BY CallerIsThread, FS_EmptySet DEF Init, Size
<1>2. Slack \in Nat
  BY TypedInit, SlackOf
<1> QED
  BY <1>1, <1>2, SpoolAssumption DEF Bounded, Within, Limit

\* Making room.
LEMMA BoundedRoom ==
  ASSUME Shell = FALSE, Typed, Alone, Bounded,
         Count("caller") \/ RoomMade("caller") \/ PeekOldest("caller") \/ Drop("caller")
  PROVE  Bounded'
<1> USE SpoolAssumption, CallerIsThread, AloneThreads
    DEF At, Goto, disk
<1>1. Limit \in Nat /\ Limit' = Limit /\ Size \in Nat /\ Slack \in Nat
  BY SizeOf, SlackOf DEF Limit
<1>2. CASE Count("caller")
  <2>1. Size' = Size /\ pc'["caller"] = "room"
    BY SizeOf, <1>2 DEF Count, Typed, TypeOK
  <2>2. CASE count' = [count EXCEPT !["caller"] = Listed] /\ Undisturbed
    BY SizeOf, SlackOf, <1>1, <2>1, <2>2 DEF Bounded, Undisturbed, Listed, Size, Within, Typed, TypeOK
  <2>3. CASE Fault("listing")
    <3>1. Slack' = Slack + 1 /\ ~clean' /\ Slack \in Nat
      BY SlackOf, <2>3
    <3> QED
      BY <1>1, <2>1, <3>1 DEF Bounded, Within, Roomy
  <2> QED
    BY <1>2, <2>2, <2>3 DEF Count
<1>3. CASE RoomMade("caller")
  <2>1. Size' = Size /\ pc["caller"] = "room" /\ pc'["caller"] = "open"
    BY SizeOf, <1>3 DEF RoomMade, Typed, TypeOK
  <2>2. CASE count["caller"] < SpoolSize /\ Undisturbed
    BY SizeOf, SlackOf, <1>1, <2>1, <2>2 DEF Bounded, Within, Roomy, Undisturbed
  <2>3. CASE DOMAIN files = {} /\ Undisturbed
    BY SizeOf, SlackOf, <1>1, <2>1, <2>3 DEF Bounded, Within, Roomy, Undisturbed
  <2>4. CASE Fault("fs") \/ Fault("listing")
    <3>1. Slack' = Slack + 1 /\ ~clean' /\ Slack \in Nat
      BY SlackOf, <2>4
    <3> QED
      BY <1>1, <2>1, <3>1 DEF Bounded, Within, Roomy
  <2> QED
    BY <1>3, <2>2, <2>3, <2>4 DEF RoomMade, PeekFindsNothing
<1>4. CASE PeekOldest("caller")
  <2>1. /\ Size' = Size /\ pc["caller"] = "room" /\ pc'["caller"] = "drop"
        /\ count' = count
    BY SizeOf, <1>4 DEF PeekOldest, Typed, TypeOK
  <2>2. UNCHANGED <<faults, clean>> \/ Fault("listing")
    BY <1>4 DEF PeekOldest, Peek, Undisturbed
  <2>3. Slack' \in Nat /\ Slack' >= Slack /\ (clean' => clean)
    BY SlackOf, <2>2
  <2>4. (Within => Within') /\ (Roomy => Roomy')
    BY Looser, <1>1, <2>1, <2>3
  <2> QED
    BY <2>1, <2>3, <2>4 DEF Bounded
<1>5. CASE Drop("caller")
  <2>1. CASE DeleteSucceeds("caller") /\ Goto("caller", "room")
             /\ count' = [count EXCEPT !["caller"] = @ - 1]
    <3>1. Size' = Size - 1 /\ Undisturbed
      BY SizeOf, <2>1 DEF DeleteSucceeds, Stored
    <3>2. pc'["caller"] = "room" /\ count'["caller"] = count["caller"] - 1
      BY <2>1 DEF Typed, TypeOK
    <3>3. pc["caller"] = "drop" /\ count["caller"] \in Nat
      BY <1>5 DEF Drop, Typed, TypeOK
    <3> QED
      BY SizeOf, SlackOf, <1>1, <3>1, <3>2, <3>3 DEF Bounded, Within, Roomy, Undisturbed
  <2>2. CASE DeleteFails("caller") /\ SaveFailed("caller")
    <3>1. pc'["caller"] = "send" /\ Size' = Size /\ ~spooled'
      BY SizeOf, <2>2 DEF DeleteFails, SaveFailed, Typed, TypeOK
    <3>2. UNCHANGED <<faults, clean>> \/ Fault("unlink")
      BY <2>2 DEF DeleteFails, Undisturbed
    <3>3. Slack' \in Nat /\ Slack' >= Slack
      BY SlackOf, <3>2
    <3> QED
      BY Looser, <1>1, <3>1, <3>3 DEF Bounded
  <2> QED
    BY <1>5, <2>1, <2>2 DEF Drop
<1> QED
  BY <1>2, <1>3, <1>4, <1>5

\* Making the file and writing it.
LEMMA BoundedWrite ==
  ASSUME Shell = FALSE, Typed, Alone, Bounded,
         \/ Open("caller") \/ OpenFails("caller") \/ SaveRefused("caller")
         \/ Write("caller") \/ WriteFails("caller")
  PROVE  Bounded'
<1> USE SpoolAssumption, CallerIsThread, AloneThreads
    DEF At, Goto, disk
<1>1. Limit \in Nat /\ Limit' = Limit /\ Size \in Nat /\ Slack \in Nat
  BY SizeOf, SlackOf DEF Limit
<1>2. CASE Open("caller")
  <2>1. pc["caller"] = "open" /\ pc'["caller"] = "write" /\ UNCHANGED <<faults, clean>>
    BY <1>2 DEF Open, Undisturbed, Typed, TypeOK
  <2>2. Size' = Size \/ Size' = Size + 1
    BY SizeOf, <1>2 DEF Open
  <2>3. SpoolSize > 0
    BY <2>1 DEF Alone
  <2> QED
    BY SlackOf, <1>1, <2>1, <2>2, <2>3 DEF Bounded, Within, Roomy, Limit
<1>3. CASE Write("caller")
  <2>1. pc["caller"] = "write" /\ pc'["caller"] = "send"
    BY <1>3 DEF Write, Saved, Typed, TypeOK
  <2>2. Size' = Size
    BY SizeOf, <1>3, <2>1 DEF Write, Alone
  <2>3. UNCHANGED <<faults, clean>> \/ Fault("close")
    BY <1>3 DEF Write, Undisturbed
  <2>4. Slack' \in Nat /\ Slack' >= Slack /\ (UNCHANGED clean \/ ~clean')
    BY SlackOf, <2>3
  <2>5. Within => Within'
    BY Looser, <1>1, <2>2, <2>4
  <2> QED
    BY <1>1, <2>1, <2>2, <2>4, <2>5 DEF Bounded
<1>4. CASE WriteFails("caller") \/ SaveRefused("caller") \/ OpenFails("caller")
  <2>1. pc'["caller"] = "send" /\ ~spooled'
    BY <1>4 DEF WriteFails, SaveRefused, OpenFails, SaveFailed, Typed, TypeOK
  <2>2. files' = files \/ Unlink(id["caller"])
    BY <1>4 DEF WriteFails, SaveRefused, OpenFails
  <2>3. UNCHANGED <<faults, clean>> \/ \E kind : Fault(kind)
    BY <1>4 DEF WriteFails, SaveRefused, OpenFails, Undisturbed
  <2>4. Slack' \in Nat /\ Slack' >= Slack
    BY SlackOf, <2>3
  <2>5. Size' \in Int /\ Size' <= Size
    BY SizeOf, <1>1, <2>2
  <2> QED
    BY Looser, <2>1, <2>4, <2>5 DEF Bounded
<1> QED
  BY <1>2, <1>3, <1>4

\* Everything else only removes files.
LEMMA BoundedOthers ==
  ASSUME Shell = FALSE, Typed, Alone, Bounded,
         SendData \/ Send \/ DeleteOwn \/ Drain \/ Environment
  PROVE  Bounded'
<1> USE SpoolAssumption, CallerIsThread, AloneThreads
    DEF At, Goto, disk
<1>1. Limit \in Nat /\ Limit' = Limit /\ Size \in Nat /\ Slack \in Nat
  BY SizeOf, SlackOf DEF Limit
<1>2. CASE SendData \/ Send \/ DeleteOwn \/ Drain
  <2>1. files' = files \/ Unlink(id["caller"])
    BY <1>2 DEF SendData, NewMessage, Send, DeleteOwn, Drain, Drained,
                NextToDrain, Load, Discard, Resend, Release, DeleteSucceeds,
                DeleteFails
  <2>2. \E step \in Step \ {"room", "drop", "open", "write", "send"} : Goto("caller", step)
    <3> USE DEF Step, Return
    <3>1. CASE SendData \/ Send \/ DeleteOwn
      BY <3>1 DEF SendData, NewMessage, Send, DeleteOwn
    <3>2. CASE Drained \/ NextToDrain \/ Load
      BY <3>2 DEF Drained, NextToDrain, Load
    <3>3. CASE Discard \/ Resend \/ Release
      BY <3>3 DEF Discard, Resend, Release
    <3> QED
      BY <1>2, <3>1, <3>2, <3>3 DEF Drain
  <2>3. pc'["caller"] \notin {"room", "drop", "open", "write", "send"}
    BY <2>2 DEF Typed, TypeOK
  <2>4. faults' = faults \/ \E kind : Fault(kind)
    <3> USE DEF Undisturbed
    <3>1. CASE SendData \/ Send \/ DeleteOwn
      BY <3>1 DEF SendData, NewMessage, Send, DeleteOwn, FrameSent, FrameFails,
                  DeleteSucceeds, DeleteFails
    <3>2. CASE Drained \/ NextToDrain \/ Load
      BY <3>2 DEF Drained, PeekFindsNothing, NextToDrain, Peek, Load
    <3>3. CASE Discard \/ Resend \/ Release
      BY <3>3 DEF Discard, Resend, Release, FrameSent, FrameFails, DeleteSucceeds,
                  DeleteFails
    <3> QED
      BY <1>2, <3>1, <3>2, <3>3 DEF Drain
  <2>5. Slack' \in Nat /\ Slack' >= Slack
    BY SlackOf, <2>4
  <2>6. Size' \in Int /\ Size' <= Size
    BY SizeOf, <1>1, <2>1
  <2> QED
    BY Looser, <2>3, <2>5, <2>6 DEF Bounded
<1>3. CASE Environment
  <2>1. Size' = Size
    BY SizeOf, <1>3 DEF Environment, Crash, ClockSetBack, Corrupt
  <2>2. \/ UNCHANGED ram
        \/ pc' = [t \in Threads |-> "idle"]
    BY <1>3 DEF Environment, Crash, ClockSetBack, Corrupt
  <2>3. \E kind : Fault(kind)
    BY <1>3 DEF Environment, Crash, ClockSetBack, Corrupt
  <2>4. Slack' \in Nat /\ Slack' >= Slack /\ ~clean'
    BY SlackOf, <2>3
  <2> QED
    BY Looser, <1>1, <2>1, <2>2, <2>4 DEF Bounded, ram
<1> QED
  BY <1>2, <1>3

LEMMA BoundedStep ==
  ASSUME Shell = FALSE, Typed, Alone, Bounded, [Next]_vars
  PROVE  Bounded'
<1>1. CASE UNCHANGED vars
  BY <1>1, SizeOf, SlackOf DEF vars, ram, disk, budget, Bounded, Within, Roomy, Limit
<1> QED
  BY <1>1, AloneThreads, BoundedRoom, BoundedWrite, BoundedOthers
  DEF Next, SendDataSteps, Save

\* The directory never holds more files than spool-size allows, whichever writes, removals
\* and sends fail and whenever the device resets, but for one file with every failing
\* reading of the directory; a save in which nothing fails is within the limit again
\* (ctr_cloud_spool_littlefs.c:102-127).
THEOREM LimitKept ==
  ASSUME Shell = FALSE
  PROVE  Spec => []SpoolBounded
<1> DEFINE Inv == Typed /\ Alone /\ Bounded
<1>1. Init => Inv
  BY TypedInit, AloneInit, BoundedInit
<1>2. Inv /\ [Next]_vars => Inv'
  BY TypedStep, AloneStep, BoundedStep
<1>3. Inv => SpoolBounded
  BY DEF Bounded, Within, Size, Slack, SpoolBounded
<1> QED
  BY <1>1, <1>2, <1>3, PTL DEF Spec
=============================================================================
