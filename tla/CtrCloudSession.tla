--------------------------- MODULE CtrCloudSession ---------------------------
(***************************************************************************)
(* The session of a device with the cloud (subsys/ctr_cloud/ctr_cloud.c)   *)
(* and what it does with the messages of the cloud (ctr_cloud_process.c):  *)
(* init_work_handler(), the poll work, process_downlink() and the update   *)
(* of the firmware, across resets of the device.                           *)
(*                                                                         *)
(* The init work and the poll work run one after the other on m_work_q and *)
(* hold m_lock while they do.  An action is one piece of their code up to  *)
(* the next transfer, flash write or reset; the threads of the application *)
(* get m_lock between two works.                                           *)
(*                                                                         *)
(* A transfer, the subject of CtrCloudTransfer, is one step here: it       *)
(* succeeds, fails, or fails although the cloud has taken the message (a   *)
(* download: succeeds although the cloud keeps it).  External are the      *)
(* cloud, the bootloader with its two slots, the DFU target and the        *)
(* settings: they are modelled as far as this code relies on them.         *)
(***************************************************************************)
EXTENDS Naturals, Sequences, SequencesExt

CONSTANTS
  Updates,    \* the firmware images that can be downloaded
  Factory,    \* the image the device starts with
  Nothing,    \* no image, no update id, no session
  Chunks,     \* the number of chunks an image has
  Faults,     \* the kinds of faults that happen
  MaxFaults,  \* bound: faults in one behaviour
  MaxPushes   \* bound: messages that the cloud or the application starts

FaultKinds == {"reset", "uplink", "uplink_late", "downlink", "downlink_again",
               "flash", "settings", "config", "restart"}

Images == Updates \cup {Factory}

\* What the answer to a session says of the cloud: of which image it has the
\* decoder and the encoder, and which configuration.
Sessions ==
  [decoder : Images \cup {Nothing}, encoder : Images \cup {Nothing}, config : Nat]

\* Nothing is neither an image nor a number nor a session.
ASSUME SessionAssumption ==
  /\ Factory \notin Updates /\ Nothing \notin Updates \cup {Factory}
  /\ Nothing \notin Nat /\ Nothing \notin Sessions
  /\ Chunks \in Nat \ {0, 1}
  /\ Faults \subseteq FaultKinds
  /\ MaxFaults \in Nat /\ MaxPushes \in Nat

VARIABLES
  pc,           \* where m_work_q is; "idle" and "start" are outside m_lock
  buf,          \* the message or answer the work holds in m_transfer_buf
  m_session,    \* m_session, or Nothing when its id is 0
  initialized,  \* EVENT_INITIALIZED_SET
  poll,         \* m_poll_dwork: "none", "now" or "later"
  told,         \* the last transfer said that the cloud has a message
  dfu,          \* chunks the DFU target has taken, or Nothing
  slot,         \* flash: the secondary slot, chunk by chunk
  scheduled,    \* flash: the bootloader is to swap the slots
  image,        \* flash: the image that runs
  confirmed,    \* flash: that image is confirmed
  update_id,    \* flash: cloud/firmware/update_id, or Nothing
  left_over,    \* history: an initialization has ended and left update_id behind
  config,       \* flash: how often the configuration was saved
  queue,        \* the messages the cloud has for the device
  cloud,        \* what the cloud knows of the device
  faults, pushes

ram   == <<m_session, initialized, poll, told, dfu>>
flash == <<slot, scheduled, image, confirmed, update_id, left_over, config>>
outside == <<queue, cloud>>
vars == <<pc, buf, m_session, initialized, poll, told, dfu, slot, scheduled,
          image, confirmed, update_id, left_over, config, queue, cloud, faults, pushes>>

Fault(kind) ==
  /\ kind \in Faults
  /\ faults > 0 /\ faults' = faults - 1

\* Every chunk of one image, each once and in order.
WholeImage(i) == [k \in 1..Chunks |-> <<i, k>>]
Whole(s) == \E i \in Images : s = WholeImage(i)

-----------------------------------------------------------------------------
(* The cloud (external) *)

OtherThanChunks(q) ==
  LET others[n \in 0..Len(q)] ==
        IF n = 0 THEN <<>>
        ELSE IF q[n][1] = "chunk" THEN others[n - 1]
        ELSE Append(others[n - 1], q[n])
  IN others[Len(q)]

\* What the cloud does with an uplink: a session is answered ahead of all other
\* messages, and one image is served at a time.
CloudTakes(up) ==
  \/ /\ up[1] = "create_session"
     /\ queue' = <<<<"session", [decoder |-> cloud.decoder, encoder |-> cloud.encoder,
                                 config |-> cloud.config]>>>> \o queue
     /\ UNCHANGED cloud
  \/ /\ \/ up[1] = "decoder" /\ cloud' = [cloud EXCEPT !.decoder = up[2]]
        \/ up[1] = "encoder" /\ cloud' = [cloud EXCEPT !.encoder = up[2]]
        \/ up[1] = "config" /\ cloud' = [cloud EXCEPT !.config = up[2]]
        \/ up[1] = "error" /\ cloud' = [cloud EXCEPT !.serves = Nothing]
        \/ /\ up[1] = "swap"
           /\ cloud' = [cloud EXCEPT !.swapped = @ \cup {up[2]}, !.serves = Nothing]
        \/ up[1] = "ack" /\ cloud' = [cloud EXCEPT !.acked = @ \cup {up[2]}]
     /\ UNCHANGED queue
  \/ /\ up[1] = "download"
     /\ queue' = Append(OtherThanChunks(queue), <<"chunk", up[2], 1>>)
     /\ cloud' = [cloud EXCEPT !.serves = up[2]]
  \/ /\ up[1] = "next" /\ cloud.serves = up[2]
     /\ queue' = Append(queue, <<"chunk", up[2], up[3] + 1>>)
     /\ UNCHANGED cloud
  \/ /\ up[1] = "next" => cloud.serves # up[2]
     /\ up[1] \in {"data", "shell", "next"}
     /\ UNCHANGED outside

\* The cloud has a message of its own: data, a shell command or a configuration.
CloudPushes ==
  /\ pushes > 0 /\ pushes' = pushes - 1
  /\ \E kind \in {"data", "shell", "config"} : queue' = Append(queue, <<kind>>)
  /\ UNCHANGED <<pc, buf, ram, flash, cloud, faults>>

\* The cloud begins with the same image again.
CloudRestarts ==
  /\ cloud.serves # Nothing
  /\ Fault("restart")
  /\ queue' = Append(OtherThanChunks(queue), <<"chunk", cloud.serves, 1>>)
  /\ UNCHANGED <<pc, buf, ram, flash, cloud, pushes>>

-----------------------------------------------------------------------------
(* Transfers *)

\* k_work_schedule_for_queue() changes nothing when the work is scheduled
\* already, be it for later.
Schedule(when) == IF poll = "none" THEN when ELSE poll

\* ctr_cloud_transfer_uplink()
UplinkWorks(up) ==
  /\ CloudTakes(up)
  /\ told' = (queue' # <<>>)
  /\ UNCHANGED <<faults, pushes>>

UplinkFails(up) ==
  /\ \/ Fault("uplink") /\ UNCHANGED outside
     \/ Fault("uplink_late") /\ CloudTakes(up)
  /\ UNCHANGED <<told, pushes>>

\* uplink(): the poll work follows when the cloud has a message.
Uplink(up) == UplinkWorks(up) /\ poll' = IF told' THEN Schedule("now") ELSE poll

\* ctr_cloud_transfer_downlink() takes message, Nothing when there is none; one
\* that the cloud keeps comes again.
Downlink(message) ==
  /\ \/ /\ queue # <<>> /\ message = Head(queue)
        /\ \/ queue' = Tail(queue) /\ UNCHANGED faults
           \/ Fault("downlink_again") /\ UNCHANGED queue
     \/ queue = <<>> /\ message = Nothing /\ UNCHANGED <<queue, faults>>
  /\ told' = (queue' # <<>>)
  /\ UNCHANGED <<cloud, pushes>>

Waiting == IF queue = <<>> THEN Nothing ELSE Head(queue)
Kind == IF queue = <<>> THEN "none" ELSE Head(queue)[1]

DownlinkFails ==
  /\ Fault("downlink")
  /\ UNCHANGED <<outside, told, pushes>>

-----------------------------------------------------------------------------
(* init_work_handler() *)

Goto(next) == pc' = next

\* The work is taken from the queue, and m_lock is held from here on.
InitBegins ==
  /\ pc = "start"
  /\ Goto("wait")
  /\ UNCHANGED <<buf, ram, flash, outside, faults, pushes>>

CreateSessionOnce ==
  /\ pc = "wait"
  /\ \/ /\ UplinkWorks(<<"create_session">>)
        /\ IF told' THEN Goto("session") ELSE Goto("wait")
     \/ UplinkFails(<<"create_session">>) /\ Goto("idle")
  /\ UNCHANGED <<buf, m_session, initialized, poll, dfu, flash>>

\* create_session(): the uplink, which must announce an answer.
CreateSession ==
  /\ pc = "wait"
  /\ \/ /\ UplinkWorks(<<"create_session">>)
        /\ IF told' THEN Goto("session") ELSE Goto("wait")
     \/ UplinkFails(<<"create_session">>) /\ Goto("wait")
  /\ UNCHANGED <<buf, m_session, initialized, poll, dfu, flash>>

\* create_session(): the answer, and process_downlink() of it.
TakeSession ==
  /\ pc = "session"
  /\ \/ /\ Downlink(Waiting)
        /\ m_session' = Waiting[2]
        /\ poll' = IF told' THEN Schedule("now") ELSE poll
        /\ Goto("decoder")
     \/ DownlinkFails /\ Goto("wait") /\ UNCHANGED <<m_session, poll>>
  /\ UNCHANGED <<buf, initialized, dfu, flash>>

\* upload_decoder() and upload_encoder(): uploaded unless the session says that
\* the cloud has those of this image.
UploadOnce(what, next) ==
  /\ pc = what
  /\ \/ m_session[what] = image /\ Goto(next)
          /\ UNCHANGED <<m_session, poll, told, outside, faults, pushes>>
     \/ /\ m_session[what] # image
        /\ \/ /\ Uplink(<<what, image>>) /\ Goto(next)
              /\ m_session' = [m_session EXCEPT ![what] = image]
           \/ UplinkFails(<<what, image>>) /\ Goto("wait") /\ UNCHANGED <<m_session, poll>>
  /\ UNCHANGED <<buf, initialized, dfu, flash>>

UploadDecoderOnlyWarns ==
  /\ pc = "decoder"
  /\ Goto("encoder")
  /\ \/ m_session.decoder = image
          /\ UNCHANGED <<m_session, poll, told, outside, faults, pushes>>
     \/ /\ m_session.decoder # image
        /\ \/ /\ Uplink(<<"decoder", image>>)
              /\ m_session' = [m_session EXCEPT !.decoder = image]
           \/ UplinkFails(<<"decoder", image>>) /\ UNCHANGED <<m_session, poll>>
  /\ UNCHANGED <<buf, initialized, dfu, flash>>

UploadDecoder == UploadOnce("decoder", "encoder")
UploadEncoder == UploadOnce("encoder", "upload_config")

\* upload_config(): the same, but a failure is only logged.
UploadConfig ==
  /\ pc = "upload_config"
  /\ Goto("confirm")
  /\ \/ m_session.config = config
          /\ UNCHANGED <<m_session, poll, told, outside, faults, pushes>>
     \/ /\ m_session.config # config
        /\ \/ /\ Uplink(<<"config", config>>)
              /\ m_session' = [m_session EXCEPT !.config = config]
           \/ UplinkFails(<<"config", config>>) /\ UNCHANGED <<m_session, poll>>
  /\ UNCHANGED <<buf, initialized, dfu, flash>>

\* firmware_confirmed(): without a saved id ctr_cloud_util_get_firmware_update_id()
\* fails, or succeeds and leaves the id uninitialized.  With one, it is deleted
\* first.  A failing read does what a missing id does, but the id stays; so it does when
\* it cannot be deleted, which nobody looks at.
ReadUpdateId ==
  /\ pc = "confirm"
  /\ \/ /\ \/ update_id = Nothing /\ Goto("done") /\ buf' = Nothing
           \/ Goto("confirm_image") /\ buf' = <<"ack", update_id>>
        /\ update_id' = Nothing /\ UNCHANGED faults
     \/ /\ Fault("settings")
        /\ \/ Goto("done") /\ buf' = Nothing /\ UNCHANGED update_id
           \/ /\ Goto("confirm_image") /\ buf' \in {"ack"} \X {update_id, Nothing}
              /\ update_id' \in {update_id, Nothing}
  /\ UNCHANGED <<ram, slot, scheduled, image, confirmed, left_over, config, outside,
                 pushes>>

ConfirmImageUnchecked ==
  /\ pc = "confirm_image"
  /\ confirmed' = TRUE
  /\ Goto("ack")
  /\ UNCHANGED <<buf, ram, slot, scheduled, image, update_id, left_over, config,
                 outside, faults, pushes>>

\* Only an image that was not confirmed yet is reported.
ConfirmImage ==
  /\ pc = "confirm_image"
  /\ \/ confirmed /\ Goto("done") /\ UNCHANGED <<confirmed, faults>>
     \/ ~confirmed /\ Goto("ack") /\ confirmed' = TRUE /\ UNCHANGED faults
     \/ ~confirmed /\ Goto("done") /\ Fault("flash") /\ UNCHANGED confirmed
  /\ UNCHANGED <<buf, ram, slot, scheduled, image, update_id, left_over, config,
                 outside, pushes>>

\* The result of firmware_confirmed() is ignored.
ReportConfirmed ==
  /\ pc = "ack"
  /\ Goto("done")
  /\ \/ Uplink(buf)
     \/ UplinkFails(buf) /\ UNCHANGED poll
  /\ UNCHANGED <<buf, m_session, initialized, dfu, flash>>

InitEnds ==
  /\ pc = "done"
  /\ Goto("idle") /\ buf' = Nothing
  /\ initialized' = TRUE
  /\ left_over' = (update_id # Nothing)
  /\ UNCHANGED <<m_session, poll, told, dfu, slot, scheduled, image, confirmed,
                 update_id, config, outside, faults, pushes>>

-----------------------------------------------------------------------------
(* The poll work: poll_work_handler() and ctr_cloud_downlink() *)

PollFailsForGood == Goto("idle") /\ buf' = Nothing /\ UNCHANGED poll

\* The retry: nothing is sent to the cloud about what failed.
PollFails == Goto("idle") /\ buf' = Nothing /\ poll' = Schedule("later")

PollEnds == Goto("idle") /\ buf' = Nothing /\ poll' = IF told' THEN Schedule("now") ELSE poll

Poll ==
  /\ pc = "idle" /\ poll = "now"
  /\ poll' = "none"
  /\ Goto("poll")
  /\ UNCHANGED <<buf, m_session, initialized, told, dfu, flash, outside, faults, pushes>>

\* m_lock is not free for a minute, or the transfer fails.
PollRefused ==
  /\ pc = "poll"
  /\ DownlinkFails
  /\ PollFails
  /\ UNCHANGED <<m_session, initialized, dfu, flash>>

\* process_downlink() of what needs no answer.
PollSimple ==
  /\ pc = "poll"
  /\ Kind \in {"none", "session", "data"}
  /\ Downlink(Waiting)
  /\ m_session' = IF Kind = "session" THEN Waiting[2] ELSE m_session
  /\ PollEnds
  /\ UNCHANGED <<initialized, dfu, flash>>

\* A shell command is answered; a configuration and a chunk take more steps.
PollMore ==
  /\ pc = "poll"
  /\ Kind \in {"shell", "config", "chunk"}
  /\ Downlink(Waiting)
  /\ buf' = Waiting
  /\ Goto(IF Kind = "shell" THEN "answer" ELSE Kind)
  /\ UNCHANGED <<m_session, initialized, poll, dfu, flash>>

\* The answer goes out, and its acknowledgement says whether to poll again.
Answer ==
  /\ pc = "answer"
  /\ \/ UplinkWorks(buf) /\ PollEnds
     \/ UplinkFails(buf) /\ PollFails
  /\ UNCHANGED <<m_session, initialized, dfu, flash>>

-----------------------------------------------------------------------------
(* Resets and the bootloader (external) *)

\* The bootloader swaps when it is told to and the slot holds a whole image, and
\* swaps back when the image that ran was never confirmed.
Boot ==
  /\ scheduled' = FALSE
  /\ \/ /\ Whole(slot) /\ (scheduled \/ ~confirmed)
        /\ image' = slot[1][1] /\ slot' = WholeImage(image)
        /\ confirmed' = ~scheduled
     \/ /\ ~(Whole(slot) /\ (scheduled \/ ~confirmed))
        /\ UNCHANGED <<image, slot, confirmed>>
  /\ Goto("start") /\ buf' = Nothing
  /\ m_session' = Nothing /\ initialized' = FALSE /\ poll' = "none"
  /\ told' = FALSE /\ dfu' = Nothing

Reset ==
  /\ Fault("reset")
  /\ Boot
  /\ UNCHANGED <<update_id, left_over, config, outside, pushes>>

-----------------------------------------------------------------------------
(* ctr_cloud_process_dlconfig() and ctr_cloud_process_dlfirmware() *)

\* A line or the saving fails; otherwise ctr_config_save() reboots.
ProcessConfig ==
  /\ pc = "config"
  /\ \/ Boot /\ config' = config + 1 /\ UNCHANGED faults
     \/ /\ Fault("config") /\ PollFails
        /\ UNCHANGED <<m_session, initialized, told, dfu, slot, scheduled, image,
                       confirmed, config>>
  /\ UNCHANGED <<update_id, left_over, outside, pushes>>

\* The first chunk starts over, and any other must follow the last one written.
ExpectedAnyOffset(k) == k = 1 \/ dfu # Nothing
Expected(k) == k = 1 \/ dfu = k - 1

\* Answers that need no write: the first chunk when the image does not fit, any
\* other when the DFU target does not know of the first one.
RefuseChunk ==
  /\ pc = "chunk"
  /\ \/ buf[3] > 1 /\ dfu = Nothing /\ UNCHANGED <<dfu, faults>>
     \/ buf[3] = 1 /\ Fault("flash") /\ dfu' = Nothing
  /\ buf' = <<"error", buf[2]>>
  /\ Goto("answer")
  /\ UNCHANGED <<m_session, initialized, poll, told, flash, outside, pushes>>

\* An offset that does not match is an error without an answer.
ChunkMismatch ==
  /\ pc = "chunk"
  /\ dfu # Nothing /\ ~Expected(buf[3])
  /\ PollFails
  /\ UNCHANGED <<m_session, initialized, told, dfu, flash, outside, faults, pushes>>

\* dfu_target_write().  Starting over may erase the mark of the bootloader.
WriteChunk ==
  /\ pc = "chunk"
  /\ Expected(buf[3])
  /\ LET start == buf[3] = 1
         written == IF start THEN 0 ELSE dfu
     IN /\ scheduled' \in IF start THEN {FALSE, scheduled} ELSE {scheduled}
        /\ \/ /\ slot' = Append(IF start THEN <<>> ELSE slot, <<buf[2], buf[3]>>)
              /\ dfu' = written + 1
              /\ IF dfu' = Chunks
                   THEN Goto("schedule") /\ UNCHANGED buf
                   ELSE Goto("answer") /\ buf' = <<"next", buf[2], dfu'>>
              /\ UNCHANGED <<poll, faults>>
           \/ /\ Fault("flash") /\ PollFails
              /\ dfu' = written
              /\ slot' = IF start THEN <<>> ELSE slot
  /\ UNCHANGED <<m_session, initialized, told, image, confirmed, update_id, left_over,
                 config, outside, pushes>>

\* dfu_target_done() and dfu_target_schedule_update().
ScheduleUpdate ==
  /\ pc = "schedule"
  /\ \/ /\ scheduled' = TRUE
        /\ dfu' \in {dfu, Nothing}
        /\ Goto("swap") /\ UNCHANGED <<buf, poll, faults>>
     \/ Fault("flash") /\ PollFails /\ dfu' \in {dfu, Nothing} /\ UNCHANGED scheduled
  /\ UNCHANGED <<m_session, initialized, told, slot, image, confirmed, update_id,
                 left_over, config, outside, pushes>>

ReportSwap ==
  /\ pc = "swap"
  /\ \/ UplinkWorks(<<"swap", buf[2]>>) /\ Goto("save_id") /\ UNCHANGED <<buf, poll>>
     \/ UplinkFails(<<"swap", buf[2]>>) /\ PollFails
  /\ UNCHANGED <<m_session, initialized, dfu, flash>>

\* Whether the id could be saved is not checked.
SaveUpdateId ==
  /\ pc = "save_id"
  /\ Goto("reboot")
  /\ \/ update_id' = buf[2] /\ left_over' = FALSE /\ UNCHANGED faults
     \/ Fault("settings") /\ UNCHANGED <<update_id, left_over>>
  /\ UNCHANGED <<buf, ram, slot, scheduled, image, confirmed, config, outside, pushes>>

Reboot ==
  /\ pc = "reboot"
  /\ Boot
  /\ UNCHANGED <<update_id, left_over, config, outside, faults, pushes>>

-----------------------------------------------------------------------------
(* The application and time *)

\* ctr_cloud_send_data() and ctr_cloud_firmware_update(), when m_lock is free.
AppUplink ==
  /\ pc \in {"start", "idle"}
  /\ pushes > 0 /\ pushes' = pushes - 1
  /\ \E up \in {<<"data">>} \cup {<<"download", u>> : u \in Updates \ {image}} :
       \/ /\ CloudTakes(up)
          /\ told' = (queue' # <<>>)
          /\ poll' = IF told' THEN Schedule("now") ELSE poll
          /\ UNCHANGED faults
       \/ Fault("uplink") /\ UNCHANGED <<outside, told, poll>>
  /\ UNCHANGED <<pc, buf, m_session, initialized, dfu, flash>>

\* m_poll_timer, or ctr_cloud_poll_immediately().
PollAsked ==
  /\ pc # "start"
  /\ poll' = Schedule("now")
  /\ UNCHANGED <<pc, buf, m_session, initialized, told, dfu, flash, outside, faults,
                 pushes>>

\* POLL_RETRY_DELAY is over.
RetryDue ==
  /\ poll = "later" /\ poll' = "now"
  /\ UNCHANGED <<pc, buf, m_session, initialized, told, dfu, flash, outside, faults,
                 pushes>>

-----------------------------------------------------------------------------

Init ==
  /\ pc = "start" /\ buf = Nothing
  /\ m_session = Nothing /\ initialized = FALSE
  /\ poll = "none" /\ told = FALSE /\ dfu = Nothing
  /\ slot = <<>> /\ scheduled = FALSE
  /\ image = Factory /\ confirmed = TRUE
  /\ update_id = Nothing /\ left_over = FALSE /\ config = 0
  /\ queue = <<>>
  /\ cloud = [decoder |-> Nothing, encoder |-> Nothing, config |-> 0,
              serves |-> Nothing, swapped |-> {}, acked |-> {}]
  /\ faults = MaxFaults /\ pushes = MaxPushes

InitWork ==
  \/ InitBegins \/ CreateSession \/ TakeSession \/ UploadDecoder \/ UploadEncoder
  \/ UploadConfig \/ ReadUpdateId \/ ConfirmImage \/ ReportConfirmed \/ InitEnds

PollWork ==
  \/ Poll \/ PollRefused \/ PollSimple \/ PollMore \/ Answer \/ ProcessConfig
  \/ RefuseChunk \/ ChunkMismatch \/ WriteChunk \/ ScheduleUpdate \/ ReportSwap
  \/ SaveUpdateId \/ Reboot

Next ==
  \/ InitWork \/ PollWork \/ RetryDue
  \/ AppUplink \/ PollAsked \/ CloudPushes \/ CloudRestarts \/ Reset

Spec == Init /\ [][Next]_vars

\* m_work_q runs, and the delay passes.
FairSpec == Spec /\ WF_vars(InitWork \/ PollWork) /\ WF_vars(RetryDue)

-----------------------------------------------------------------------------
(* Properties *)

\* What waits at the cloud.
Messages ==
  {<<"data">>, <<"shell">>, <<"config">>} \cup ({"session"} \X Sessions)
    \cup ({"chunk"} \X Updates \X (1..Chunks))

\* What the cloud knows of the device.
Clouds ==
  [decoder : Images \cup {Nothing}, encoder : Images \cup {Nothing}, config : Nat,
   serves : Updates \cup {Nothing}, swapped : SUBSET Updates,
   acked : SUBSET (Updates \cup {Nothing})]

\* Every variable has its type.
TypeOK ==
  /\ pc \in {"start", "wait", "session", "decoder", "encoder", "upload_config", "confirm",
              "confirm_image", "ack", "done", "idle", "poll", "answer", "config",
              "chunk", "schedule", "swap", "save_id", "reboot"}
  /\ m_session \in Sessions \cup {Nothing}
  /\ initialized \in BOOLEAN /\ told \in BOOLEAN
  /\ poll \in {"none", "now", "later"}
  /\ dfu \in (0..Chunks) \cup {Nothing}
  /\ scheduled \in BOOLEAN /\ confirmed \in BOOLEAN
  /\ image \in Images
  /\ update_id \in Updates \cup {Nothing}
  /\ left_over \in BOOLEAN /\ config \in Nat
  /\ queue \in Seq(Messages)
  /\ cloud \in Clouds
  /\ faults \in 0..MaxFaults /\ pushes \in 0..MaxPushes

\* An update is handed to the bootloader only when the slot holds every chunk of
\* one image, each once and in order, whatever was repeated, restarted or lost.
OnlyWholeImages ==
  [][~scheduled /\ scheduled' => Whole(slot')]_vars

\* The cloud is told the truth: a chunk is asked for when all before it are in
\* flash, an image is reported as swapped in when the bootloader is to start it,
\* and acknowledged when it runs and is confirmed, never by the image that the
\* bootloader went back to.  One acknowledgement is excepted: that of an id which an
\* earlier initialization could not read or delete (ctr_cloud.c:518-524), when the next
\* update is started without having saved its own.
ReportsTrue ==
  [][/\ \A u \in cloud.acked' \ cloud.acked :
          u # Nothing => confirmed /\ (image = u \/ left_over)
     /\ \A u \in cloud.swapped' \ cloud.swapped :
          scheduled /\ slot = WholeImage(u)
     /\ pc = "answer" /\ buf[1] = "next" =>
          slot = SubSeq(WholeImage(buf[2]), 1, buf[3])]_vars

\* Once ctr_cloud_wait_initialized() returns the cloud can decode what this image
\* sends, also after an update or the bootloader's way back.  Nothing is said of the
\* configuration: a failing upload_config() is only logged (ctr_cloud.c:606-612).
InitializedMeansSynced ==
  initialized => m_session # Nothing /\ cloud.decoder = image /\ cloud.encoder = image

\* After every reset the device gets through its initialization.
Initializes == <>[]initialized

\* A message that the cloud has announced is fetched, without any timer of the
\* application and although a poll may fail.
AnnouncedIsFetched == told ~> ~told
=============================================================================
