--------------------------- MODULE CtrCloudSpool ----------------------------
(***************************************************************************)
(* Store-and-forward of subsys/ctr_cloud: ctr_cloud_send_data() writes     *)
(* every message to a LittleFS directory before it is sent and removes it  *)
(* afterwards; once the link works again it drains what earlier calls left *)
(* behind.  The shell command `cloud spool` uses the same directory from   *)
(* its own thread and takes no lock.                                       *)
(*                                                                         *)
(* One action is one call of the file system, which serialises its callers *)
(* itself, or one frame handed to ctr_cloud_transfer_uplink().  Reading a  *)
(* directory from end to end counts as one call.                           *)
(*                                                                         *)
(* External: LittleFS makes a new file's entry durable when it is opened   *)
(* and its content when it is closed; a file removed while open stays      *)
(* removed.  A reset of the device forgets everything but the files.       *)
(***************************************************************************)
EXTENDS Integers, FiniteSets

CONSTANTS
  SpoolSize,   \* the configuration item spool-size
  Foreign,     \* files of other origin in the directory
  Shell,       \* whether someone types `cloud spool` commands
  Faults,      \* the kinds of faults the environment has
  MaxFaults,   \* bound: faults in one behaviour
  MaxMessages  \* bound: messages made in one behaviour

ASSUME SpoolAssumption ==
  /\ SpoolSize \in Nat /\ Foreign \in Nat
  /\ Shell \in BOOLEAN
  /\ Shell => Foreign = 0  \* `cloud spool clean` would remove them
  /\ Faults \subseteq {"fs", "listing", "write", "short", "close", "read", "unlink",
                      "uplink", "uplink_late", "crash", "clock", "unreadable"}
  /\ MaxFaults \in Nat /\ MaxMessages \in Nat

VARIABLES
  files,   \* the directory: which file name (a time stamp) holds which frame
  clock,   \* the real-time clock, in the resolution of file names
  pc,      \* pc[t]: where thread t is
  frame,   \* frame[t]: the transfer buffer of the caller, or the fake message
  id,      \* id[t]: the file thread t works on
  handle,  \* handle[t]: the file thread t has open for writing, or none
  count,   \* count[t]: `count` of ctr_cloud_spool_save()
  spooled, \* the local of ctr_cloud_send_data()
  result,  \* what the last finished ctr_cloud_send_data() returned
  doomed,  \* the listing ctr_cloud_spool_clear() has still to go through
  sent,    \* the messages the cloud has received
  copies,  \* how many frames the cloud has received beyond the first of each
  torn,    \* whether the cloud has received a frame that was not complete
  clean,   \* whether nothing has disturbed the current call
  messages, faults \* messages made so far, faults that are left

disk   == <<files, handle, doomed>>
ram    == <<pc, frame, id, count, spooled, result>>
cloud  == <<sent, copies, torn>>
budget == <<clock, clean, messages, faults>>
vars   == <<disk, ram, cloud, budget>>

Threads == IF Shell THEN {"caller", "shell"} ELSE {"caller"}

\* A frame of message m is whole, cut off by a write that never finished, or
\* in a file that cannot be read.
Frame == [msg : Nat, state : {"whole", "torn", "unreadable"}]
NoFile == -1
Step == {"idle", "count", "room", "drop", "open", "write", "send", "delete",
         "drain", "load", "discard", "resend", "release", "clear"}

-----------------------------------------------------------------------------
(* The file system *)

Stored(i) == i \in DOMAIN files
Newest == CHOOSE i \in DOMAIN files : \A j \in DOMAIN files : j <= i
Oldest == CHOOSE i \in DOMAIN files : \A j \in DOMAIN files : i <= j
\* The number of entries that ctr_cloud_spool_count() finds.
Listed == Foreign + Cardinality(DOMAIN files)
Put(i, f) == [j \in DOMAIN files \cup {i} |-> IF j = i THEN f ELSE files[j]]

\* fs_unlink(): an open handle loses its file.
Unlink(i) ==
  /\ files' = [j \in DOMAIN files \ {i} |-> files[j]]
  /\ handle' = [t \in Threads |-> IF handle[t] = i THEN NoFile ELSE handle[t]]

Fault(kind) ==
  /\ kind \in Faults /\ faults > 0
  /\ faults' = faults - 1
  /\ clean' = FALSE

Undisturbed == UNCHANGED <<faults, clean>>

\* ctr_cloud_spool_peek().  When fs_readdir() fails, what follows in the directory is not
\* seen: another file passes for the oldest one, or there seems to be none.
Peek(t) ==
  \/ id' = [id EXCEPT ![t] = Oldest] /\ Undisturbed
  \/ Fault("listing") /\ \E i \in DOMAIN files : id' = [id EXCEPT ![t] = i]

PeekFindsNothing ==
  \/ DOMAIN files = {} /\ Undisturbed
  \/ Fault("fs") \/ Fault("listing")

\* Where thread t goes on.
At(t, step) == t \in Threads /\ pc[t] = step
Goto(t, step) == pc' = [pc EXCEPT ![t] = step]

\* ctr_cloud_spool_delete(): it fails on a file that is gone.
DeleteSucceeds(t) == /\ Stored(id[t]) /\ Unlink(id[t])
                     /\ UNCHANGED doomed /\ Undisturbed
DeleteFails(t) ==
  /\ \/ ~Stored(id[t]) /\ Undisturbed
     \/ Fault("unlink")
  /\ UNCHANGED disk

-----------------------------------------------------------------------------
(* ctr_cloud_spool_save(), from ctr_cloud_send_data() or `cloud spool fake` *)

\* The message goes out anyway, without the spool; the shell gives up.
SaveFailed(t) ==
  IF t = "caller" THEN Goto(t, "send") /\ spooled' = FALSE
                  ELSE Goto(t, "idle") /\ UNCHANGED spooled
Saved(t) ==
  IF t = "caller" THEN Goto(t, "send") /\ spooled' = TRUE
                  ELSE Goto(t, "idle") /\ UNCHANGED spooled

\* spool-size is 0, or the directory cannot be made or listed.
SaveRefused(t) ==
  /\ At(t, "count")
  /\ \/ SpoolSize = 0 /\ Undisturbed
     \/ Fault("fs")
  /\ SaveFailed(t)
  /\ UNCHANGED <<disk, frame, id, count, result, cloud, clock, messages>>

Count(t) ==
  /\ At(t, "count")
  /\ SpoolSize > 0
  /\ \/ count' = [count EXCEPT ![t] = Listed] /\ Undisturbed
     \/ Fault("listing") /\ \E n \in 0..Listed : count' = [count EXCEPT ![t] = n]
  /\ Goto(t, "room")
  /\ UNCHANGED <<disk, frame, id, spooled, result, cloud, clock, messages>>

RoomMadeOffByOne(t) ==
  /\ At(t, "room")
  /\ \/ count[t] <= SpoolSize /\ Undisturbed
     \/ count[t] > SpoolSize /\ DOMAIN files = {} /\ Undisturbed
  /\ Goto(t, "open")
  /\ UNCHANGED <<disk, frame, id, count, spooled, result, cloud, clock,
                 messages>>

\* The loop that makes room ends, also when there is nothing to drop or the directory
\* cannot be read: the message is stored all the same.
RoomMade(t) ==
  /\ At(t, "room")
  /\ \/ count[t] < SpoolSize /\ Undisturbed
     \/ count[t] >= SpoolSize /\ PeekFindsNothing
  /\ Goto(t, "open")
  /\ UNCHANGED <<disk, frame, id, count, spooled, result, cloud, clock,
                 messages>>

PeekOldest(t) ==
  /\ At(t, "room")
  /\ count[t] >= SpoolSize
  /\ DOMAIN files # {}
  /\ Peek(t)
  /\ Goto(t, "drop")
  /\ UNCHANGED <<disk, frame, count, spooled, result, cloud, clock, messages>>

Drop(t) ==
  /\ At(t, "drop")
  /\ \/ /\ DeleteSucceeds(t)
        /\ count' = [count EXCEPT ![t] = @ - 1]
        /\ Goto(t, "room")
        /\ UNCHANGED spooled
     \/ /\ DeleteFails(t)
        /\ SaveFailed(t)
        /\ UNCHANGED count
  /\ UNCHANGED <<frame, id, result, cloud, clock, messages>>

\* ctr_rtc_get_ts_ms() and fs_open(): a new file is empty, an old one of the
\* same name keeps its content until the new one is closed.
Open(t) ==
  /\ At(t, "open")
  /\ id' = [id EXCEPT ![t] = clock]
  /\ handle' = [handle EXCEPT ![t] = clock]
  /\ files' = IF Stored(clock) THEN files
              ELSE Put(clock, [frame[t] EXCEPT !.state = "torn"])
  /\ Goto(t, "write")
  /\ Undisturbed
  /\ UNCHANGED <<doomed, frame, count, spooled, result, cloud, clock, messages>>

OpenFails(t) ==
  /\ At(t, "open")
  /\ Fault("fs")
  /\ SaveFailed(t)
  /\ UNCHANGED <<disk, frame, id, count, result, cloud, clock, messages>>

\* fs_write() and fs_close() of the whole frame.  Nobody looks at the result of fs_close():
\* when it fails the file stays as it was, and the message counts as stored.
Write(t) ==
  /\ At(t, "write")
  /\ \/ /\ files' = IF handle[t] = NoFile THEN files ELSE Put(handle[t], frame[t])
        /\ Undisturbed
     \/ Fault("close") /\ UNCHANGED files
  /\ handle' = [handle EXCEPT ![t] = NoFile]
  /\ Saved(t)
  /\ UNCHANGED <<doomed, frame, id, count, result, cloud, clock, messages>>

WriteFailsKeepsHandle(t) ==
  /\ At(t, "write")
  /\ Fault("write")
  /\ SaveFailed(t)
  /\ UNCHANGED <<disk, frame, id, count, result, cloud, clock, messages>>

\* A failed write leaves the file as it is, a short one removes it.
WriteFails(t) ==
  /\ At(t, "write")
  /\ \/ /\ Fault("write")
        /\ handle' = [handle EXCEPT ![t] = NoFile]
        /\ UNCHANGED <<files, doomed>>
     \/ /\ Fault("short")
        /\ Unlink(id[t])
        /\ UNCHANGED doomed
  /\ SaveFailed(t)
  /\ UNCHANGED <<frame, id, count, result, cloud, clock, messages>>

Save(t) == \/ SaveRefused(t) \/ Count(t) \/ RoomMade(t) \/ PeekOldest(t)
           \/ Drop(t) \/ Open(t) \/ OpenFails(t) \/ Write(t) \/ WriteFails(t)

-----------------------------------------------------------------------------
(* ctr_cloud_send_data().  m_lock lets in one caller at a time: "caller" is *)
(* whoever holds it.                                                        *)

\* A message is made and handed to ctr_cloud_spool_save().
NewMessage(t) ==
  /\ At(t, "idle")
  /\ messages < MaxMessages
  /\ messages' = messages + 1
  /\ frame' = [frame EXCEPT ![t] = [msg |-> messages + 1, state |-> "whole"]]
  /\ Goto(t, "count")
  /\ UNCHANGED <<disk, id, count, spooled, cloud, faults>>

SendData ==
  /\ NewMessage("caller")
  /\ result' = "none"
  /\ clean' = TRUE
  /\ UNCHANGED clock

\* Time stamps advance: the exchange takes longer than a millisecond.
TimePasses == clock' = clock + 1

\* The cloud has received the frame in the transfer buffer.
Received(f) ==
  IF f.state = "whole"
  THEN /\ sent' = sent \cup {f.msg}
       /\ copies' = IF f.msg \in sent THEN copies + 1 ELSE copies
       /\ UNCHANGED torn
  ELSE torn' = TRUE /\ UNCHANGED <<sent, copies>>

\* frame_send(): it may fail before or after the cloud has got the frame.
FrameSent == Received(frame["caller"]) /\ Undisturbed
FrameFails ==
  \/ Fault("uplink") /\ UNCHANGED cloud
  \/ Fault("uplink_late") /\ Received(frame["caller"])

Return(r) == Goto("caller", "idle") /\ result' = r

\* The newest message goes first; a failure leaves it in the spool.
Send ==
  /\ At("caller", "send")
  /\ \/ /\ FrameSent
        /\ IF spooled THEN Goto("caller", "delete") /\ UNCHANGED result
                      ELSE Return("ok")
     \/ FrameFails /\ Return("error")
  /\ TimePasses
  /\ UNCHANGED <<disk, frame, id, count, spooled, messages>>

\* Its file is removed, and only then is the rest drained.
DeleteOwn ==
  /\ At("caller", "delete")
  /\ \/ DeleteSucceeds("caller") /\ Goto("caller", "drain") /\ UNCHANGED result
     \/ DeleteFails("caller") /\ Return("ok")
  /\ UNCHANGED <<frame, id, count, spooled, cloud, clock, messages>>

-----------------------------------------------------------------------------
(* drain_spool() *)

\* Nothing is left, or the directory cannot be read.
Drained ==
  /\ At("caller", "drain")
  /\ PeekFindsNothing
  /\ Return("ok")
  /\ UNCHANGED <<disk, frame, id, count, spooled, cloud, clock, messages>>

NextToDrain ==
  /\ At("caller", "drain")
  /\ DOMAIN files # {}
  /\ Peek("caller")
  /\ Goto("caller", "load")
  /\ UNCHANGED <<disk, frame, count, spooled, result, cloud, clock, messages>>

Readable(i) == Stored(i) /\ files[i].state # "unreadable"

Load ==
  /\ At("caller", "load")
  /\ \/ /\ Readable(id["caller"])
        /\ frame' = [frame EXCEPT !["caller"] = files[id["caller"]]]
        /\ Goto("caller", "resend")
        /\ Undisturbed
     \/ /\ \/ ~Readable(id["caller"]) /\ Undisturbed
           \/ Fault("read")
        /\ Goto("caller", "discard")
        /\ UNCHANGED frame
  /\ UNCHANGED <<disk, id, count, spooled, result, cloud, clock, messages>>

DiscardSkipped ==
  /\ At("caller", "discard")
  /\ Goto("caller", "drain")
  /\ Undisturbed
  /\ UNCHANGED <<disk, frame, id, count, spooled, result, cloud, clock,
                 messages>>

\* A file that cannot be loaded would block the others: it is dropped.
Discard ==
  /\ At("caller", "discard")
  /\ \/ DeleteSucceeds("caller") /\ Goto("caller", "drain") /\ UNCHANGED result
     \/ DeleteFails("caller") /\ Return("ok")
  /\ UNCHANGED <<frame, id, count, spooled, cloud, clock, messages>>

ResendKeepsFile ==
  /\ At("caller", "resend")
  /\ \/ FrameSent /\ Return("ok")
     \/ FrameFails /\ Return("ok")
  /\ UNCHANGED <<disk, frame, id, count, spooled, clock, messages>>

Resend ==
  /\ At("caller", "resend")
  /\ \/ FrameSent /\ Goto("caller", "release") /\ UNCHANGED result
     \/ FrameFails /\ Return("ok")
  /\ UNCHANGED <<disk, frame, id, count, spooled, clock, messages>>

ReleaseStopsDraining ==
  /\ At("caller", "release")
  /\ DeleteSucceeds("caller") \/ DeleteFails("caller")
  /\ Return("ok")
  /\ UNCHANGED <<frame, id, count, spooled, cloud, clock, messages>>

Release ==
  /\ At("caller", "release")
  /\ \/ DeleteSucceeds("caller") /\ Goto("caller", "drain") /\ UNCHANGED result
     \/ DeleteFails("caller") /\ Return("ok")
  /\ UNCHANGED <<frame, id, count, spooled, cloud, clock, messages>>

Drain == Drained \/ NextToDrain \/ Load \/ Discard \/ Resend \/ Release

-----------------------------------------------------------------------------
(* The shell: `cloud spool fake` and `cloud spool clean` *)

\* One of the fake messages; 2 ms pass from one to the next.
Fake ==
  /\ NewMessage("shell")
  /\ TimePasses
  /\ UNCHANGED <<result, clean>>

\* ctr_cloud_spool_clear() lists the directory ...
Clean ==
  /\ At("shell", "idle")
  /\ DOMAIN files # {}
  /\ doomed' = DOMAIN files
  /\ Goto("shell", "clear")
  /\ Undisturbed
  /\ UNCHANGED <<files, handle, frame, id, count, spooled, result, cloud,
                 clock, messages>>

\* ... and removes one file after the other, also one made meanwhile; it stops
\* when it has been through the listing or cannot remove a file it has listed.
Clear ==
  /\ At("shell", "clear")
  /\ \/ /\ \/ /\ \E i \in DOMAIN files : Unlink(i) /\ doomed' = doomed \ {i}
           \/ /\ \E i \in doomed : ~Stored(i) /\ doomed' = doomed \ {i}
              /\ UNCHANGED <<files, handle>>
        /\ Undisturbed
        /\ UNCHANGED pc
     \/ /\ \/ doomed = {} /\ Undisturbed
           \/ doomed \ DOMAIN files # {} /\ Undisturbed
           \/ Fault("unlink") \/ Fault("listing")
        /\ doomed' = {}
        /\ Goto("shell", "idle")
        /\ UNCHANGED <<files, handle>>
  /\ UNCHANGED <<frame, id, count, spooled, result, cloud, clock, messages>>

-----------------------------------------------------------------------------
(* The environment *)

\* A reset or a loss of power.
Crash ==
  /\ Fault("crash")
  /\ pc' = [t \in Threads |-> "idle"]
  /\ handle' = [t \in Threads |-> NoFile]
  /\ doomed' = {}
  /\ result' = "none"
  /\ TimePasses
  /\ UNCHANGED <<files, frame, id, count, spooled, cloud, messages>>

\* The cloud sets the clock, in the session or on its own (process_downlink()),
\* to an earlier time than the device had.
ClockSetBack ==
  /\ Fault("clock")
  /\ \E now \in 0..clock : clock' = now
  /\ UNCHANGED <<disk, ram, cloud, messages>>

\* The medium loses the content of a file.
Corrupt ==
  /\ Fault("unreadable")
  /\ \E i \in DOMAIN files : files' = Put(i, [files[i] EXCEPT !.state = "unreadable"])
  /\ UNCHANGED <<handle, doomed, ram, cloud, clock, messages>>

-----------------------------------------------------------------------------
Init ==
  /\ files = [i \in {} |-> [msg |-> 0, state |-> "torn"]]
  /\ clock = 0
  /\ pc = [t \in Threads |-> "idle"]
  /\ frame = [t \in Threads |-> [msg |-> 0, state |-> "torn"]]
  /\ id = [t \in Threads |-> 0]
  /\ handle = [t \in Threads |-> NoFile]
  /\ count = [t \in Threads |-> 0]
  /\ spooled = TRUE
  /\ result = "none"
  /\ doomed = {}
  /\ sent = {} /\ copies = 0 /\ torn = FALSE
  /\ clean = TRUE
  /\ messages = 0 /\ faults = MaxFaults

SendDataSteps == SendData \/ Save("caller") \/ Send \/ DeleteOwn \/ Drain
ShellSteps == Fake \/ Clean \/ Save("shell") \/ Clear
Environment == Crash \/ ClockSetBack \/ Corrupt

Next == SendDataSteps \/ (Shell /\ ShellSteps) \/ Environment

Spec == Init /\ [][Next]_vars

\* The thread that holds m_lock goes on, as far as the shell lets it: the file
\* system and the transfer layer return from every call.
FairSpec == Spec /\ WF_vars(Save("caller") \/ Send \/ DeleteOwn \/ Drain)

-----------------------------------------------------------------------------
(* Properties *)

\* The types of the variables; a file is open only while it is written.
TypeOK ==
  /\ DOMAIN files \subseteq Nat
  /\ files \in [DOMAIN files -> Frame]
  /\ clock \in Nat
  /\ pc \in [Threads -> Step]
  /\ frame \in [Threads -> Frame]
  /\ id \in [Threads -> Nat]
  /\ handle \in [Threads -> Nat \cup {NoFile}]
  /\ \A t \in Threads : handle[t] # NoFile => pc[t] = "write"
  /\ count \in [Threads -> Nat]
  /\ spooled \in BOOLEAN
  /\ result \in {"none", "ok", "error"}
  /\ doomed \subseteq Nat
  /\ sent \subseteq 1..MaxMessages
  /\ copies \in Nat /\ torn \in BOOLEAN /\ clean \in BOOLEAN
  /\ messages \in 0..MaxMessages
  /\ faults \in 0..MaxFaults

\* Every frame the cloud receives beyond the first of a message costs one
\* fault: a send whose answer was lost, a file that could not be removed, or a
\* reset between the two (ctr_cloud.c:836-850, 903-924).
EveryCopyCostsAFault == copies <= MaxFaults - faults

\* Files of other origin count, but one message always finds room.
Limit == IF SpoolSize > Foreign THEN SpoolSize - Foreign ELSE 1

\* "Drops the oldest message(s) when the spool is full (limit given by the spool-size config
\* parameter)" (ctr_cloud_spool.h:32-35).  The directory never holds more files than that,
\* whatever fails but the reading of the directory: then the loop that makes room ends, and
\* the file is made anyway (ctr_cloud_spool_littlefs.c:102-117).  Each such failure makes at
\* most one file too many, and the next save in which nothing fails is within the limit again.
SpoolBounded ==
  /\ Cardinality(DOMAIN files) <=
       Limit + (IF Faults \cap {"fs", "listing"} = {} THEN 0 ELSE MaxFaults - faults)
  /\ pc["caller"] = "send" /\ spooled /\ clean => Cardinality(DOMAIN files) <= Limit

\* A call of ctr_cloud_send_data() that nothing disturbed and that returned 0
\* has emptied the spool, whatever earlier calls, failures and resets left
\* there (ctr_cloud.c:915-927).
UndisturbedCallDrains ==
  pc["caller"] = "idle" /\ clean /\ result = "ok" => DOMAIN files = {}

\* Only complete frames are sent to the cloud: "Spooled messages hold the
\* complete frame - send as-is" (ctr_cloud.c:827).
OnlyCompleteFrames == ~torn

\* A stored frame that a drain can send.
Whole(i) == Stored(i) /\ files[i].state = "whole"

\* Every call of ctr_cloud_send_data() returns: no file can block draining
\* forever (ctr_cloud.c:834-839).
CallReturns == pc["caller"] # "idle" ~> pc["caller"] = "idle"

\* What the directory is to the application.
Promise == INSTANCE SpoolPromise
  WITH Message <- 1..MaxMessages,
       kept <- {files[i].msg : i \in {j \in DOMAIN files : Whole(j)}},
       entries <- Listed

\* ctr_cloud_send_data(), with ctr_cloud_spool_save(), _delete() and drain_spool()
\* under it, keeps the at-least-once promise of SpoolPromise: a stored message
\* goes only when the cloud has it or as the oldest one of a full spool.
KeepsPromise == Promise!Spec
=============================================================================
