--------------------- MODULE CtrCloudSpoolCopiesProofs ----------------------
(***************************************************************************)
(* How often the cloud receives a message of CtrCloudSpool, for every      *)
(* size of the spool, number of messages and set of faults, and with the   *)
(* shell.                                                                  *)
(***************************************************************************)
EXTENDS CtrCloudSpoolProofs

-----------------------------------------------------------------------------
(* A message is whole in one file at most *)

\* Thread t is in ctr_cloud_spool_save().
Storing(t) == pc[t] \in {"count", "room", "drop", "open", "write"}

\* A message that ctr_cloud_spool_save() still has to store is nowhere else.
New(t) ==
  /\ frame[t].msg \notin sent
  /\ \A i \in DOMAIN files : Whole(i) => files[i].msg # frame[t].msg
  /\ \A u \in Threads \ {t} :
       frame[u].state = "whole" => frame[u].msg # frame[t].msg

\* No number is used twice, and a message is whole in one file only, which is
\* the one that will be removed when the message has been sent.
Single ==
  /\ \A i \in DOMAIN files : files[i].msg <= messages
  /\ \A m \in sent : m <= messages
  /\ \A t \in Threads : frame[t].msg <= messages
  /\ \A t \in Threads : Storing(t) => New(t)
  /\ \A i, j \in DOMAIN files :
       Whole(i) /\ Whole(j) /\ files[i].msg = files[j].msg => i = j
  /\ pc["caller"] \in {"send", "resend"} /\ frame["caller"].state = "whole" =>
       \A i \in DOMAIN files :
         Whole(i) /\ files[i].msg = frame["caller"].msg =>
           /\ i = id["caller"]
           /\ pc["caller"] = "send" => spooled
  /\ pc["caller"] = "send" => frame["caller"].msg \notin sent

\* At first there is no message.
LEMMA SingleInit == Init => Single
BY CallerIsThread DEF Init, Single, Storing

\* A new message has a number above all others.
LEMMA SingleNewMessage ==
  ASSUME Typed, Single, NEW t \in Threads, NewMessage(t)
  PROVE  Single'
BY CallerIsThread, SpoolAssumption
   DEF Typed, TypeOK, Single, Storing, New, Whole, Stored,
       NewMessage, At, Goto, Frame, disk, cloud

\* Removing a file and losing its content leave fewer whole ones.
LEMMA SingleFewer ==
  ASSUME Typed, Single, DOMAIN files' \subseteq DOMAIN files,
         \A i \in DOMAIN files' : /\ files'[i].msg = files[i].msg
                                  /\ Whole(i)' => Whole(i),
         UNCHANGED <<frame, id, spooled, sent, messages>>,
         \A t \in Threads : Storing(t)' => Storing(t),
         pc["caller"]' = "resend" => pc["caller"] = "resend",
         pc["caller"]' = "send" => pc["caller"] = "send"
  PROVE  Single'
BY CallerIsThread DEF Typed, TypeOK, Single, New

\* So does giving up: the message is in no file, or in one that is not whole.
LEMMA SingleSaveFailed ==
  ASSUME Typed, Single, NEW t \in Threads, Storing(t), SaveFailed(t),
         DOMAIN files' \subseteq DOMAIN files,
         \A i \in DOMAIN files' : files'[i] = files[i],
         UNCHANGED <<frame, id, sent, messages>>
  PROVE  Single'
<1> USE CallerIsThread DEF Typed, TypeOK, Single, Storing, New, Whole, Stored
<1>1. CASE t = "caller"
  BY <1>1 DEF SaveFailed, Goto
<1>2. CASE t # "caller"
  BY <1>2 DEF SaveFailed, Goto
<1> QED
  BY <1>1, <1>2

\* A message that is stored becomes whole in one file ...
LEMMA SingleSave ==
  ASSUME Typed, Single, NEW t \in Threads, Save(t)
  PROVE  Single'
<1> USE CallerIsThread, TypedSaveFailed DEF At, Goto, disk, cloud
<1>1. CASE SaveRefused(t)
  BY <1>1, SingleSaveFailed DEF SaveRefused, Storing
<1>2. CASE Count(t)
  BY <1>2 DEF Count, Typed, TypeOK, Single, Storing, New, Whole, Stored
<1>3. CASE RoomMade(t)
  BY <1>3 DEF RoomMade, Typed, TypeOK, Single, Storing, New, Whole, Stored
<1>4. CASE PeekOldest(t)
  BY <1>4, TypedPeek
     DEF PeekOldest, Typed, TypeOK, Single, Storing, New, Whole, Stored
<1>5. CASE Drop(t)
  <2>1. CASE /\ DeleteSucceeds(t)
             /\ pc' = [pc EXCEPT ![t] = "room"] /\ UNCHANGED spooled
    BY <1>5, <2>1, SingleFewer
       DEF Drop, DeleteSucceeds, Unlink, Whole, Stored, Storing, Typed, TypeOK
  <2>2. CASE DeleteFails(t) /\ SaveFailed(t)
    BY <1>5, <2>2, TypedDeleteFails, SingleSaveFailed DEF Drop, Storing
  <2> QED
    BY <1>5, <2>1, <2>2 DEF Drop
<1>6. CASE Open(t)
  BY <1>6
     DEF Open, Put, Typed, TypeOK, Single, Storing, New, Whole, Stored, Frame
<1>7. CASE OpenFails(t)
  BY <1>7, SingleSaveFailed DEF OpenFails, Storing
<1>8. CASE Write(t)
  <2> USE DEF Typed, TypeOK, Single, Storing, New, Whole, Stored
  <2>1. CASE t = "caller"
    BY <1>8, <2>1 DEF Write, Saved, Put
  <2>2. CASE t # "caller"
    BY <1>8, <2>2 DEF Write, Saved, Put
  <2> QED
    BY <2>1, <2>2
<1>9. CASE WriteFails(t)
  BY <1>9, SingleSaveFailed DEF WriteFails, Unlink, Storing
<1> QED
  BY <1>1, <1>2, <1>3, <1>4, <1>5, <1>6, <1>7, <1>8, <1>9 DEF Save

\* The cloud learns of the message in the transfer buffer only.
LEMMA SingleReceived ==
  ASSUME Typed, pc["caller"] \in {"send", "resend"}, FrameSent \/ FrameFails
  PROVE  \/ sent' = sent
         \/ /\ frame["caller"].state = "whole"
            /\ sent' = sent \cup {frame["caller"].msg}
BY DEF FrameSent, FrameFails, Received, cloud

\* ... and neither sending nor draining makes another one.
LEMMA SingleSend ==
  ASSUME Typed, Single, Send \/ DeleteOwn \/ Drain
  PROVE  Single'
<1> USE CallerIsThread DEF At, Goto, Return, disk, cloud
<1>1. CASE Send
  BY <1>1, SingleReceived
     DEF Send, Typed, TypeOK, Single, Storing, New, Whole, Stored
<1>2. CASE DeleteOwn
  BY <1>2, TypedDeleteFails
     DEF DeleteOwn, DeleteSucceeds, Unlink, Typed, TypeOK, Single, Storing, New,
         Whole, Stored
<1>3. CASE Drained
  BY <1>3 DEF Drained, Typed, TypeOK, Single, Storing, New, Whole, Stored
<1>4. CASE NextToDrain
  BY <1>4 DEF NextToDrain, Typed, TypeOK, Single, Storing, New, Whole, Stored
<1>5. CASE Load
  BY <1>5 DEF Load, Readable, Typed, TypeOK, Single, Storing, New, Whole, Stored
<1>6. CASE Discard
  BY <1>6, TypedDeleteFails
     DEF Discard, DeleteSucceeds, Unlink, Typed, TypeOK, Single, Storing, New,
         Whole, Stored
<1>7. CASE Resend
  BY <1>7, SingleReceived
     DEF Resend, Typed, TypeOK, Single, Storing, New, Whole, Stored
<1>8. CASE Release
  BY <1>8, TypedDeleteFails
     DEF Release, DeleteSucceeds, Unlink, Typed, TypeOK, Single, Storing, New,
         Whole, Stored
<1> QED
  BY <1>1, <1>2, <1>3, <1>4, <1>5, <1>6, <1>7, <1>8 DEF Drain

\* The shell only adds new messages and removes files; a reset forgets no file.
LEMMA SingleStep == Typed /\ Single /\ [Next]_vars => Single'
<1> SUFFICES ASSUME Typed, Single, [Next]_vars PROVE Single'
  OBVIOUS
<1> USE CallerIsThread
<1>1. CASE SendData
  BY <1>1, SingleNewMessage DEF SendData
<1>2. CASE Save("caller") \/ Send \/ DeleteOwn \/ Drain
  BY <1>2, SingleSave, SingleSend
<1>3. CASE Shell /\ ShellSteps
  <2>1. "shell" \in Threads
    BY <1>3 DEF Threads
  <2>2. CASE Fake
    BY <2>1, <2>2, SingleNewMessage DEF Fake
  <2>3. CASE Clean
    BY <2>1, <2>3
       DEF Clean, At, Goto, cloud, Typed, TypeOK, Single, Storing, New, Whole,
           Stored
  <2>4. CASE Clear
    BY <2>1, <2>4, SingleFewer
       DEF Clear, At, Goto, Unlink, cloud, Whole, Stored, Storing, Typed, TypeOK
  <2> QED
    BY <1>3, <2>1, <2>2, <2>3, <2>4, SingleSave DEF ShellSteps
<1>4. CASE Crash
  BY <1>4 DEF Crash, cloud, Typed, TypeOK, Single, Storing, New, Whole, Stored
<1>5. CASE ClockSetBack
  BY <1>5
     DEF ClockSetBack, disk, ram, cloud, Typed, TypeOK, Single, Storing, New,
         Whole, Stored
<1>6. CASE Corrupt
  BY <1>6
     DEF Corrupt, Put, ram, cloud, Typed, TypeOK, Single, Storing, New, Whole,
         Stored, Frame
<1>7. CASE UNCHANGED vars
  BY <1>7
     DEF vars, disk, ram, cloud, budget, Single, Storing, New, Whole, Stored
<1> QED
  BY <1>1, <1>2, <1>3, <1>4, <1>5, <1>6, <1>7
     DEF Next, SendDataSteps, Environment

-----------------------------------------------------------------------------
(* Every copy costs a fault: a frame that the cloud has already and that is *)
(* still in a file will be a copy, unless the call that sent it removes it, *)
(* and only a fault can keep it from that.                                  *)

\* The files that would give the cloud a copy, but for the one whose removal
\* is due, and the frame that is being sent again.
Again == {i \in DOMAIN files : Whole(i) /\ files[i].msg \in sent}
Due == IF pc["caller"] \in {"resend", "delete", "release"}
       THEN {id["caller"]} ELSE {}
Resent == /\ pc["caller"] = "resend"
          /\ frame["caller"].state = "whole"
          /\ frame["caller"].msg \in sent
Counted ==
  copies + Cardinality(Again \ Due) + (IF Resent THEN 1 ELSE 0)
    <= MaxFaults - faults

\* A set without new members has no more of them, one with at most one new
\* member at most one more.
LEMMA SmallerSet ==
  ASSUME NEW S, NEW T, IsFiniteSet(T), S \subseteq T
  PROVE  /\ Cardinality(S) \in Nat /\ Cardinality(T) \in Nat
         /\ Cardinality(S) <= Cardinality(T)
BY FS_Subset, FS_CardinalityType

LEMMA OneMore ==
  ASSUME NEW S, NEW T, NEW x, IsFiniteSet(T), S \subseteq T \cup {x}
  PROVE  /\ Cardinality(S) \in Nat /\ Cardinality(T) \in Nat
         /\ Cardinality(S) <= Cardinality(T) + 1
<1>1. IsFiniteSet(T \cup {x}) /\ Cardinality(T \cup {x}) <= Cardinality(T) + 1
  <2>1. IsFiniteSet(T \cup {x}) /\ Cardinality(T) \in Nat
        /\ Cardinality(T \cup {x}) =
              IF x \in T THEN Cardinality(T) ELSE Cardinality(T) + 1
    BY FS_AddElement, FS_CardinalityType
  <2> QED
    BY <2>1
<1> QED
  BY <1>1, FS_Subset, FS_CardinalityType

\* They can be counted.
LEMMA AgainFinite == Typed => IsFiniteSet(Again) /\ IsFiniteSet(Again \ Due)
<1> SUFFICES ASSUME Typed PROVE IsFiniteSet(Again) /\ IsFiniteSet(Again \ Due)
  OBVIOUS
<1>1. Again \subseteq DOMAIN files /\ Again \ Due \subseteq DOMAIN files
  BY DEF Again
<1> QED
  BY <1>1, FS_Subset DEF Typed

\* No frame, no copy.
LEMMA CountedInit == Init => Counted
<1> SUFFICES ASSUME Init PROVE Counted
  OBVIOUS
<1>1. Again \ Due = {} /\ ~Resent
  BY CallerIsThread DEF Init, Again, Resent
<1>2. Cardinality(Again \ Due) = 0
  BY <1>1, FS_EmptySet
<1> QED
  BY <1>1, <1>2, SpoolAssumption DEF Init, Counted

\* A step without a copy that adds no file to those that would give one.
LEMMA CountedCalm ==
  ASSUME Typed, Counted, (Again \ Due)' \subseteq Again \ Due,
         copies' = copies, Resent' => Resent,
         faults' \in Int, faults' <= faults
  PROVE  Counted'
<1>1. /\ Cardinality((Again \ Due)') \in Nat
      /\ Cardinality(Again \ Due) \in Nat
      /\ Cardinality((Again \ Due)') <= Cardinality(Again \ Due)
  BY AgainFinite, SmallerSet
<1> QED
  BY <1>1, SpoolAssumption DEF Counted, Typed, TypeOK

\* A fault pays for one more.
LEMMA CountedFault ==
  ASSUME Typed, Counted, NEW x, (Again \ Due)' \subseteq (Again \ Due) \cup {x},
         copies' = copies, Resent' => Resent, faults' = faults - 1
  PROVE  Counted'
<1>1. /\ Cardinality((Again \ Due)') \in Nat
      /\ Cardinality(Again \ Due) \in Nat
      /\ Cardinality((Again \ Due)') <= Cardinality(Again \ Due) + 1
  BY AgainFinite, OneMore
<1> QED
  BY <1>1, SpoolAssumption DEF Counted, Typed, TypeOK

\* What a step says about the faults that are left.
LEMMA FaultsLeft ==
  ASSUME Typed
  PROVE  /\ Undisturbed => faults' = faults
         /\ \A kind : Fault(kind) => faults' = faults - 1
         /\ faults \in Int /\ faults - 1 \in Int /\ faults - 1 <= faults
BY DEF Undisturbed, Fault, Typed, TypeOK

\* Storing a message adds none: the file that becomes whole has a new message.
LEMMA CountedSave ==
  ASSUME Typed, Single, Counted, NEW t \in Threads, Save(t)
  PROVE  Counted'
<1> USE CallerIsThread, TypedSaveFailed, FaultsLeft, CountedCalm
    DEF At, Goto, disk, cloud
<1>1. CASE SaveRefused(t)
  BY <1>1 DEF SaveRefused, Typed, TypeOK, Again, Due, Resent, Whole, Stored
<1>2. CASE Count(t)
  BY <1>2 DEF Count, Typed, TypeOK, Again, Due, Resent, Whole, Stored
<1>3. CASE RoomMade(t)
  <2>1. faults' \in {faults, faults - 1}
    BY <1>3 DEF RoomMade, PeekFindsNothing
  <2>2. (Again \ Due)' = Again \ Due /\ (Resent' <=> Resent) /\ copies' = copies
    BY <1>3 DEF RoomMade, Typed, TypeOK, Again, Due, Resent, Whole, Stored
  <2> QED
    BY <2>1, <2>2
<1>4. CASE PeekOldest(t)
  BY <1>4, TypedPeek
     DEF PeekOldest, Peek, Typed, TypeOK, Again, Due, Resent, Whole, Stored
<1>5. CASE Drop(t)
  BY <1>5
     DEF Drop, DeleteSucceeds, DeleteFails, Unlink, Typed, TypeOK, Again, Due,
         Resent, Whole, Stored
<1>6. CASE Open(t)
  BY <1>6 DEF Open, Put, Typed, TypeOK, Again, Due, Resent, Whole, Stored, Frame
<1>7. CASE OpenFails(t)
  BY <1>7 DEF OpenFails, Typed, TypeOK, Again, Due, Resent, Whole, Stored
<1>8. CASE Write(t)
  BY <1>8, TypedSaved
     DEF Write, Put, Typed, TypeOK, Single, Storing, New, Again, Due, Resent,
         Whole, Stored
<1>9. CASE WriteFails(t)
  BY <1>9
     DEF WriteFails, Unlink, Typed, TypeOK, Again, Due, Resent, Whole, Stored
<1> QED
  BY <1>1, <1>2, <1>3, <1>4, <1>5, <1>6, <1>7, <1>8, <1>9 DEF Save

\* Removing the file that is due, or failing to.
LEMMA CountedDelete ==
  ASSUME Typed, Counted, pc["caller"] \in {"delete", "release", "discard"},
         DeleteSucceeds("caller") \/ DeleteFails("caller"),
         pc'["caller"] \in {"idle", "drain"},
         UNCHANGED <<id, sent, copies>>
  PROVE  Counted'
<1>1. ~Resent' /\ Due' = {}
  BY DEF Resent, Due
<1>2. CASE DeleteSucceeds("caller")
  BY <1>1, <1>2, CountedCalm, FaultsLeft
     DEF DeleteSucceeds, Unlink, Again, Due, Whole, Stored
<1>3. CASE ~Stored(id["caller"]) /\ Undisturbed /\ UNCHANGED disk
  BY <1>1, <1>3, CountedCalm, FaultsLeft DEF disk, Again, Due, Whole, Stored
<1>4. CASE Fault("unlink") /\ UNCHANGED disk
  BY <1>1, <1>4, CountedFault, FaultsLeft DEF disk, Again, Due, Whole, Stored
<1> QED
  BY <1>2, <1>3, <1>4 DEF DeleteFails

\* The newest message: its file is due for removal, or a fault has been paid.
LEMMA CountedSend ==
  ASSUME Typed, Single, Counted, Send
  PROVE  Counted'
<1> USE CallerIsThread, FaultsLeft DEF At, Goto, Return, disk
<1>1. frame["caller"].msg \notin sent /\ ~Resent /\ ~Resent'
  BY DEF Send, Single, Resent, Typed, TypeOK
<1>2. copies' = copies
  BY <1>1 DEF Send, FrameSent, FrameFails, Received, cloud
<1>3. Again' \subseteq Again \cup {id["caller"]} /\ Due = {}
  BY SingleReceived DEF Send, Single, Again, Due, Whole, Stored
<1>4. CASE FrameSent /\ spooled
  BY <1>1, <1>2, <1>3, <1>4, CountedCalm
     DEF Send, FrameSent, FrameFails, Due, Typed, TypeOK
<1>5. CASE FrameSent /\ ~spooled
  <2>1. Again' \subseteq Again
    BY <1>5, SingleReceived DEF Send, Single, Again, Whole, Stored
  <2> QED
    BY <1>1, <1>2, <1>3, <1>5, <2>1, CountedCalm
       DEF Send, FrameSent, Due, Typed, TypeOK
<1>6. CASE FrameFails
  BY <1>1, <1>2, <1>3, <1>6, CountedFault DEF Send, FrameFails, Due
<1> QED
  BY <1>4, <1>5, <1>6 DEF Send

\* A stored message: it has been counted if the cloud had it.
LEMMA CountedResend ==
  ASSUME Typed, Single, Counted, Resend
  PROVE  Counted'
<1> USE CallerIsThread, FaultsLeft DEF At, Goto, Return, disk
<1>1. ~Resent' /\ Due = {id["caller"]} /\ pc["caller"] = "resend"
  BY DEF Resend, Resent, Due, Typed, TypeOK
<1>2. Again' \subseteq Again \cup {id["caller"]}
  BY SingleReceived DEF Resend, Single, Again, Whole, Stored
<1>3. copies' = copies \/ (Resent /\ copies' = copies + 1)
  BY DEF Resend, FrameSent, FrameFails, Received, Resent, cloud
<1>4. CASE FrameSent
  <2>1. (Again \ Due)' \subseteq Again \ Due /\ faults' = faults
    BY <1>1, <1>2, <1>4 DEF Resend, FrameSent, FrameFails, Due, Typed, TypeOK
  <2>2. /\ Cardinality((Again \ Due)') \in Nat
        /\ Cardinality(Again \ Due) \in Nat
        /\ Cardinality((Again \ Due)') <= Cardinality(Again \ Due)
    BY <2>1, AgainFinite, SmallerSet
  <2> QED
    BY <1>1, <1>3, <2>1, <2>2, SpoolAssumption DEF Counted, Typed, TypeOK
<1>5. CASE FrameFails
  <2>1. (Again \ Due)' \subseteq (Again \ Due) \cup {id["caller"]}
    BY <1>1, <1>2 DEF Due
  <2>2. /\ Cardinality((Again \ Due)') \in Nat
        /\ Cardinality(Again \ Due) \in Nat
        /\ Cardinality((Again \ Due)') <= Cardinality(Again \ Due) + 1
    BY <2>1, AgainFinite, OneMore
  <2>3. faults' = faults - 1
    BY <1>5 DEF FrameFails
  <2> QED
    BY <1>1, <1>3, <2>2, <2>3, SpoolAssumption DEF Counted, Typed, TypeOK
<1> QED
  BY <1>4, <1>5 DEF Resend

\* Loading a frame moves its file from Again to Resent.
LEMMA CountedDrain ==
  ASSUME Typed, Single, Counted, DeleteOwn \/ Drain
  PROVE  Counted'
<1> USE CallerIsThread, FaultsLeft DEF At, Goto, Return, disk, cloud
<1>1. CASE DeleteOwn
  BY <1>1, CountedDelete DEF DeleteOwn, Typed, TypeOK
<1>2. CASE Drained
  BY <1>2, CountedCalm
     DEF Drained, PeekFindsNothing, Again, Due, Resent, Whole, Stored, Typed, TypeOK
<1>3. CASE NextToDrain
  BY <1>3, CountedCalm
     DEF NextToDrain, Peek, Again, Due, Resent, Whole, Stored, Typed, TypeOK
<1>4. CASE Load
  <2>1. CASE /\ Readable(id["caller"]) /\ pc'["caller"] = "resend"
             /\ frame'["caller"] = files[id["caller"]] /\ Undisturbed
    <3>1. /\ ~Resent /\ Due = {} /\ Due' = {id["caller"]}
          /\ Again' = Again /\ copies' = copies
      BY <1>4, <2>1 DEF Load, Resent, Due, Again, Whole, Stored
    <3>2. CASE ~Resent'
      BY <2>1, <3>1, <3>2, CountedCalm
    <3>3. CASE Resent'
      <4>1. id["caller"] \in Again
        BY <1>4, <2>1, <3>3 DEF Load, Readable, Resent, Again, Whole, Stored
      <4>2. Cardinality(Again \ {id["caller"]}) = Cardinality(Again) - 1
            /\ Cardinality(Again) \in Nat
        BY <4>1, AgainFinite, FS_RemoveElement, FS_CardinalityType
      <4>3. (Again \ Due)' = Again \ {id["caller"]} /\ Again \ Due = Again
        BY <3>1
      <4> QED
        BY <2>1, <3>1, <3>3, <4>2, <4>3, SpoolAssumption
           DEF Counted, Typed, TypeOK
    <3> QED
      BY <3>2, <3>3
  <2>2. CASE pc'["caller"] = "discard" /\ faults' \in {faults, faults - 1}
    BY <1>4, <2>2, CountedCalm DEF Load, Again, Due, Resent, Whole, Stored
  <2> QED
    BY <1>4, <2>1, <2>2 DEF Load, Typed, TypeOK
<1>5. CASE Discard
  BY <1>5, CountedDelete DEF Discard, Typed, TypeOK
<1>6. CASE Resend
  BY <1>6, CountedResend
<1>7. CASE Release
  BY <1>7, CountedDelete DEF Release, Typed, TypeOK
<1> QED
  BY <1>1, <1>2, <1>3, <1>4, <1>5, <1>6, <1>7 DEF Drain

\* The shell takes away only; a reset is a fault, which pays for the file that
\* was due.
LEMMA CountedStep == Typed /\ Single /\ Counted /\ [Next]_vars => Counted'
<1> SUFFICES ASSUME Typed, Single, Counted, [Next]_vars PROVE Counted'
  OBVIOUS
<1> USE CallerIsThread, FaultsLeft
    DEF At, Goto, disk, ram, cloud, Again, Due, Resent, Whole, Stored
<1>1. CASE SendData
  BY <1>1, CountedCalm DEF SendData, NewMessage, Typed, TypeOK
<1>2. CASE Save("caller") \/ Send \/ DeleteOwn \/ Drain
  BY <1>2, CountedSave, CountedSend, CountedDrain
<1>3. CASE Shell /\ ShellSteps
  <2>1. "shell" \in Threads
    BY <1>3 DEF Threads
  <2>2. CASE Fake
    BY <2>1, <2>2, CountedCalm DEF Fake, NewMessage, Typed, TypeOK
  <2>3. CASE Clean
    BY <2>1, <2>3, CountedCalm DEF Clean, Typed, TypeOK
  <2>4. CASE Clear
    <3>1. pc'["caller"] = pc["caller"] /\ UNCHANGED <<frame, id, sent, copies>>
      BY <2>1, <2>4 DEF Clear, Typed, TypeOK
    <3>2. (Again \ Due)' \subseteq Again \ Due
      BY <2>4, <3>1 DEF Clear, Unlink
    <3>3. (Resent' => Resent) /\ faults' \in {faults, faults - 1}
      BY <2>4, <3>1 DEF Clear
    <3> QED
      BY <3>1, <3>2, <3>3, CountedCalm
  <2> QED
    BY <1>3, <2>1, <2>2, <2>3, <2>4, CountedSave DEF ShellSteps
<1>4. CASE Crash
  BY <1>4, CountedFault DEF Crash
<1>5. CASE ClockSetBack
  BY <1>5, CountedCalm DEF ClockSetBack
<1>6. CASE Corrupt
  BY <1>6, CountedCalm DEF Corrupt, Put, Typed, TypeOK, Frame
<1>7. CASE UNCHANGED vars
  BY <1>7, CountedCalm DEF vars, budget
<1> QED
  BY <1>1, <1>2, <1>3, <1>4, <1>5, <1>6, <1>7
     DEF Next, SendDataSteps, Environment

\* Every frame the cloud receives beyond the first of a message costs a fault,
\* with the shell and without, whatever the clock does (ctr_cloud.c:836-850,
\* 903-924).
THEOREM CopiesCost == Spec => []EveryCopyCostsAFault
<1>1. Init => Typed /\ Single /\ Counted
  BY TypedInit, SingleInit, CountedInit
<1>2. Typed /\ Single /\ Counted /\ [Next]_vars => (Typed /\ Single /\ Counted)'
  BY TypedStep, SingleStep, CountedStep
<1>3. Typed /\ Counted => EveryCopyCostsAFault
  BY AgainFinite, FS_CardinalityType, SpoolAssumption
     DEF Counted, EveryCopyCostsAFault, Typed, TypeOK
<1> QED
  BY <1>1, <1>2, <1>3, PTL DEF Spec
=============================================================================
