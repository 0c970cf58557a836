# Verification of the CHESTER SDK: from a sensor to the cloud and back

This directory holds TLA+ specifications of the parts of the CHESTER SDK that carry an
application's data: the Clime application that samples, collects and reports, the way of a message
from `ctr_cloud_send_data()` to the cloud and of the cloud's messages and firmware images back, the
LTE state machine below it, and the LoRaWAN dispatcher that an application can use instead. With
them go the TLC configurations that check them on small instances, and theorems about all six of
them that TLAPS proves for every instance. Paths are relative to the root of the repository.

## 1. The system

    timers, line, tamper, button       app_work queue     (applications/clime)
          |  events (mutex of g_app_data)  |  report
          v                                v
    ------- LTE ------------------------------------------------- LoRaWAN -------
    application threads            shell thread (`cloud spool ...`)
          |  ctr_cloud_send_data()       |  no lock
          v  (m_lock)                    v
    ctr_cloud.c  <----------->  ctr_cloud_spool_littlefs.c  (one file per message)
          |
          v
    ctr_cloud_transfer.c         fragments, sequence numbers, restarts
          |  ctr_lte_v2_send_recv()      one datagram out, one back
          v
    ctr_lte_v2.c                 state machine on a work queue, request block, event bits
          |  dialogs of ctr_lte_v2_flow.c      ^  events parsed from the modem's lines
          v                                    |
    ctr_lte_v2_talk.c / ctr_lte_link.c  ->  the modem, the network, the cloud server

    LoRaWAN:  ctr_lrw_send() -> queues -> dispatcher thread of ctr_lrw.c
                -> dialogs of ctr_lrw_talk.c -> the modem; its lines come back on a work queue

`ctr_cloud.c` has a second part beside sending: the init work, which opens the session, and the
poll work, which fetches what the cloud has announced, a new firmware included.

### Inventory

| Component | State it keeps | Operations | What is hard | What makes it correct |
|---|---|---|---|---|
| **ctr_cloud transfer** (`ctr_cloud_transfer.c`) | `m_sequence`, `m_last_recv_sequence`, the transfer buffers, the packet handed over last | upload, download (poll), init | the link loses, repeats and delays datagrams; sequence numbers wrap and are reset by either end; restarts are not counted | success means that the cloud has the message; whole messages only, at both ends; nothing acknowledged that was not kept; every call returns |
| **ctr_cloud packet** (`ctr_cloud_packet.c`) | none | pack, unpack, `sequence_inc` | the wrap from 4095 to 1 | the number 0 asks for a reset and is never reached by counting |
| **ctr_lte_v2** (`ctr_lte_v2.c`) | `m_state`, event ring of 8, timer, `m_flag`, event bits, `m_send_recv_param` (a pointer into the caller's stack), `m_send_recv_result`, `m_error_ctx` | enable, reconnect, GNSS on/off, wait_for_connected, send_recv; 15 states with on_enter, on_leave and event handler | callers, the receiver of modem lines and the work queue interleave; soft timeouts race with answers; a request must survive detours of the state machine; timers that nobody restarts | a result belongs to the request it is returned for; buffers are valid while used; no request is forgotten; the machine never stops in a transient state |
| **ctr_lte_v2 flow** (`ctr_lte_v2_flow.c`) | the socket, a `started` flag | dialogs: start, stop, prepare, attach, open socket, send, receive, check, flight mode | each of them can fail halfway | what the state machine assumes of the modem after it |
| **ctr_cloud send and spool** (`ctr_cloud.c:779-933`, `ctr_cloud_spool_littlefs.c`) | a directory of files named by time stamps, the transfer buffer | send_data, drain_spool; save, peek, load, delete, clear, count | resets between any two file operations, failures of each of them, the shell on the same directory without the lock, a clock that is set back | a stored message is sent at least once or dropped as the oldest of a full spool; limit kept; draining ends |
| **ctr_cloud session, polling, API** (rest of `ctr_cloud.c`) | `m_session`, options, poll timer and retry work, metrics | init work, session, uploads of schema and configuration, downlink, firmware confirmation | the init loop holds `m_lock` while the link is down; resets between any two steps; poll retries | initialised only when the cloud has the decoder and encoder of this image; an announced message is fetched |
| **ctr_cloud downlink processing** (`ctr_cloud_process.c`, `ctr_cloud_msg.c`) | offset of the DFU target, saved update id | dlconfig, dlshell, dlfirmware | a chunk that comes twice, a reset between the steps of an update | only a complete image is scheduled; the cloud is told the truth |
| **ctr_lrw** (`ctr_lrw.c`, `ctr_lrw_talk.c`, `app_handler.c`) | two queues, `m_state`, three signals, the handler of an answer | start, join, send; boot, setup, join_once, send_once with retries | verdicts that belong to an earlier attempt, answers before their handler, a modem that restarts, commands purged on failure | a confirmed message is reported as sent only when it was acknowledged; the modem comes back; every message is answered |
| **clime** (`applications/clime/src`) | `g_app_data`: samples, series, events, alarms; timers; rate limit | 9 kinds of sensors sampled and aggregated, events, report, clear | events that come while a report is sent, timers that interrupt threads, buffers that are full, a work queue that is blocked | no event is forgotten unreported; the times of a series can be told; the cloud knows the alarms |
| **ctr_lte_v2 talk, parser, shell, config** | dialog lists, line buffers | AT commands with answers and URCs | answers against timeouts | an answer ends the dialog it belongs to |
| **ctr_lte_link** (`drivers/ctr_lte_link`) | UART ring buffers, line queue | start, stop, send, line callbacks | interrupts against threads, overflow | lines arrive whole and in order |
| **ctr_lrw_v2** | `m_flow_events` | start, join, send, poll | as `ctr_lrw` | no application uses it yet |
| **ctr_rfmux, ctr_rtc, ctr_wdog, ctr_config, ctr_edge, ctr_button, ctr_ble_tag** | small | small | debouncing, ownership of the antenna | - |
| **ctr_lte** (v1) | as its successor | as its successor | superseded | - |
| **other applications, samples, boards** | products on top of the SDK | as clime, with other sensors | as clime | as clime |

`PROJECT.json` lists, component by component, what is modelled, and every hazard of the modelled
code at its line, with the properties that would notice.

## 2. The modules

| Module | What it specifies |
|---|---|
| `TransferPromise.tla` | abstract: what an upload and a download promise, without packets and numbers |
| `CtrCloudTransfer.tla` | both loops of `ctr_cloud_transfer.c`, the link, and the cloud's end of the protocol; implements `TransferPromise` |
| `CtrLteV2.tla` | `ctr_lte_v2.c` and what its dialogs do to the modem |
| `SpoolPromise.tla` | abstract: what the spool promises to the application |
| `CtrCloudSpool.tla` | `ctr_cloud_send_data()`, `drain_spool()`, the LittleFS backend, the shell; implements `SpoolPromise` |
| `CtrCloudSession.tla` | init work, poll work, downlinks, firmware updates across resets |
| `CtrLrw.tla` | the LoRaWAN dispatcher, its dialogs, the modem, the applications' event handler |
| `CtrClime.tla` | the Clime application: timers, works, series, events, report |
| `CtrCloudTransferProofs.tla`, `CtrLteV2Proofs.tla`, `CtrCloudSpoolProofs.tla`, `CtrCloudSpoolCopiesProofs.tla`, `CtrCloudSessionProofs.tla`, `CtrLrwProofs.tla`, `CtrClimeProofs.tla` | theorems about the transfer, the LTE state machine, the spool, the session, `CtrLrw` and `CtrClime` |
| `MC*.tla` | constants for TLC: message lengths, settings, model values, symmetry |

Conventions. Variables and operators have the names of the code where TLA+ allows it. A few
operators have a neighbour with a longer name that says what is wrong with it (`Release` and
`ReleaseStopsDraining`, `RoomMade` and `RoomMadeOffByOne`): these are plausible bugs, used by no
specification. Put in the place of the right operator, each makes TLC report the property that
`PROJECT.json` pairs it with; that is how we know that the properties can fail.

`CtrCloudTransfer`, `CtrLteV2` and `CtrClime` have a variable `setting` that never changes: a behaviour
picks one of the constant `Settings`, a configuration of the code together with the faults and the bounds
of that behaviour. One run then covers several settings, each with the bounds it needs.

### CtrCloudTransfer and TransferPromise

One action is what the device does from one datagram to the next, because the code between two
`transfer()` calls never waits: it takes the answer out of the socket, decides, hands over the
next packet. `UplinkBadFlags`, `UplinkRestart`, `UplinkRepeat` and `UplinkAccept` are the branches of
`ctr_cloud_transfer_uplink()` in their order (flags first, then sequence 0, then the expected, the
repeated and any other number, then data that must not be there); `DownlinkRestart`, `-Repeat`,
`-Refuse`, `-Accept` and `-Done` those of the download. `Retransmit` is what the layer below does
when no answer comes: it comes back to READY with the request still set and sends the same datagram.
`up` and `down` are the datagrams under way, in order; faults lose, duplicate or refuse them.

Abstracted: a fragment is `<<message, index>>`; hash, Base64, serial number and byte layout are one
fault, "the datagram is refused". Sequence numbers keep their arithmetic with a smaller modulus
(`SeqMod`, 4096 in the code). External: the server (`ServerAccept`, `ServerRepeat`, `ServerReset`,
`ServerForget`) is what the device's branches and the recorded exchanges of `tests/subsys/ctr_cloud`
expect of it. The history variables `inbox`, `downloads` and `queue` are what the properties speak of.

`TransferPromise` knows calls and messages only: a message arrives during the call that uploads it,
whole and never afterwards; 0 means that it has arrived; a download takes the oldest message
that waits, and says that there is none only when there is none; the cloud releases a message when
the device has it. `TransferPromised` maps a call to the loop it is in, and what was put
together to the fragments; packets, numbers, repeats and restarts are stutters.

### CtrLteV2

One work queue runs the state machine; callers of `ctr_lte_v2_send_recv()`, other API threads and
the receiver of the modem's lines run between its steps. `step` says where the work queue is: it
handles the events of a batch one by one (`Transit` and the handlers with effects of their own), each
with the old state's on_leave(); enters a state (`EnterBoot`, ...), or is inside a blocking dialog
(`sending`, `receiving`). `Transitions` is the table of plain transitions; handlers that do more
have an action. `m_event_rb` drops an event when it is full, as `ring_buf_put()` does.

A caller is `Submit` (lock, publish the request, delegate SEND), then `Done`, or `GiveUp` and `Stopped`
when its soft timeout expires first; `Stuck` is the code's second wait running out. `using` is
the request whose buffers a blocking dialog holds a pointer to, `carried` is what the modem really did
for a caller: `ParamValid` says that the pointer is good, `SuccessMeansSent` and `SuccessMeansReceived` compare
`carried` with the result a caller is about to return. `Reconnect`, `LeftToReconnect` and `Reconnected` are
`ctr_lte_v2_reconnect()`, which works on the state machine from the caller's thread: up to an on_leave() that talks to
the modem (`SlowToLeave`), behind it, and behind on_enter_disabled(). An on_leave() that fails keeps the old state, a
multiplexer that is not released leaves DISABLED entered, and either delegates an ERROR in front of the ENABLE.

Abstracted: the lengths of timers (a running timer may expire whenever the work queue is free),
the AT commands inside one dialog (a dialog succeeds, or fails as a fault), metrics and power
measurements. The modem is external: a record of what it has been told, with the lines it may send.

### CtrCloudSpool and SpoolPromise

One action is one call of the file system or one frame handed to the transfer layer, so a reset, a
fault or the shell can come between any two. `files` maps a file name (a time stamp) to a frame
that is whole, torn or unreadable. A directory may fail to be read ("fs"), or only in part ("listing": `Count` finds
too few files, `Peek` another one than the oldest), and a failing fs_close() ("close") leaves a torn file behind a save
that returns 0. The actions of saving, `SaveRefused`, `Count`, `RoomMade`,
`PeekOldest`, `Drop`, `Open`, `OpenFails`, `Write`, `WriteFails`, take the thread as a parameter, since
`cloud spool fake` runs the same code from the shell; those of sending and draining are the
caller's. `SpoolPromise` knows only the messages kept, the number of entries and what the cloud
has: a message leaves the spool after it was delivered, or as the oldest one of a full spool. The
refinement mapping reads `kept` off the whole frames on disk and counts the files of other origin
as entries.

Abstracted: the wording of file names, the bytes of frames, the remaining time of a call (a send
that runs out of time is a failed send). External: LittleFS makes the entry of a new file durable when
it is opened and its content when it is closed.

### CtrCloudSession

An action is one piece of `init_work_handler()` or of the poll work up to the next transfer, flash
write or reset; `pc` says which. The init work (`InitBegins`, `CreateSession`, `TakeSession`, `UploadDecoder`,
`UploadEncoder`, the configuration, `firmware_confirmed()`) starts over after a failure. `Poll` asks
for a message and the actions behind it follow `process_downlink()`: data, a configuration, a shell
command, or a chunk of an image, which `Expected` compares with the offset of the DFU target. The last
chunk is followed by the scheduling of the swap, the report, the saved update id and the reboot, one
action each, so that a reset can come between any two. `flash` survives it, `ram` does not.

A transfer is one step that succeeds, fails, or fails although the cloud has taken the message. The settings fail in
three ways: the update id cannot be read, not deleted (which the code ignores), or not saved; `left_over` remembers that an
initialization has ended with an id still there.
External: the cloud (what it knows of decoder, encoder and updates, what waits in its queue), the
bootloader, which swaps, and swaps back an image that is not confirmed, the DFU target and the settings.

### CtrLrw

The dispatcher waits in `poll` for its two queues, and goes from there through an operation: boot,
setup, join or send. Each makes up to `Retries` attempts `enable`, `once`, `talk`, `listen`,
`answer`, `verdict`, `disable`, which are the calls of `talk_cmd_ok()` and of the `_once()`
functions; `signal` holds the three signals, and `Talk` and `Answered` clear them in the code's order.
`ReceiveAnswer` and `ReceiveUrc` are the work that handles a line of the modem: it answers the
handler that is installed, or raises a signal. `Fails` is the error path of `process_cmd_msgq()` and
`process_send_msgq()`, followed by `ReportFailure`, where the application queues START again.

External: the modem. It works on one confirmed message or join at a time, refuses to send before it
has joined, may restart or lose its session. The commands of a setup are counted, not told apart.

### CtrClime

The `app_work` queue does its works one after the other; `Starts` takes the next one. The system work
queue runs `HandleEvent` for the line and the tamper contact and `Press` for the button. Timers interrupt both;
the one place where this matters is the check of the rate limit: `limiter` says that a thread
has passed the comparison of `app_work_send_with_rate_limit()` and not yet looked at the
delay timer. Every `app_sensor_*_sample()` and `app_sensor_*_aggreg()` is an action of its own, put together from
the few loops they share. `SendLte` is `send_work_handler()` up to `ctr_cloud_send_data()`, which keeps
`app_work` blocked until `SendOk` or `SendFails`; `SendLrw` only queues and never waits. `reports` of a setting are the
configured reports of alarms and line: an alarm whose report is off, the default, changes without an event
(`Change`), a line whose report is off is recorded without asking for a report (`AsksForReport`).

A measurement is the period it was taken in; of the temperature there are the six bands that the two
alarms with their hysteresis tell apart; the length of a report is counted in values against the
`room` of its buffer. `history` holds what the properties need to remember.

### How they fit together

The modules meet at interfaces, and each states the assumption that another one answers for. The
spool takes from the transfer that an upload returns and that 0 means delivered
(`UndisturbedReturns`, `TransferPromised`; an answer that comes late or twice and a cloud that forgets are the known
exceptions, see the findings). The session takes the same, and adds the case in which the cloud has taken what failed. The
transfer takes from the LTE layer that a datagram goes out and that at most one answer is taken per
call (`SuccessMeansReceived`); a failed `send_recv` is its fault "timeout", a false success a datagram
lost. The report of Clime takes from the spool that a send returns (`CallReturns` of `CtrCloudSpool`),
and forgets what it has reported when it does with 0: from there on `KeepsPromise` keeps the message.

## 3. The runs

| Run | Question | Result |
|---|---|---|
| `transfer` | Uploads and downloads over a link that loses (reboots, undecodable answers, a wrap of the numbers after 5, a message too long for the buffer), one that also repeats and one that also delays datagrams, with a cloud that forgets | 8 properties hold; 366 634 states |
| `transfer_upload_livelock` | Does an upload return after one answer too many: a duplicated datagram, a late answer, a cloud that forgot? | `CallReturns` is violated |
| `transfer_late_answer` | Does 0 mean that the cloud has the message, after an exchange that timed out? | `SuccessMeansDelivered` is violated |
| `cloud_session` | Initialization, polls, two images of three chunks, any three of nine faults | 6 properties hold; 375 794 states |
| `lte` | Seven settings: setting the modem up with failing dialogs and erased networks; enable, reconnect and GNSS against a request; reconnects out of a reset loop and out of GNSS whose own steps fail; soft timeouts; two threads without timeout, failing sends and receives; a request that loses the network or its socket | 7 properties hold; 1 505 791 states |
| `lte_false_success` | Does 0 mean that the datagram was sent? | `SuccessMeansSent` is violated |
| `lte_stale_connected` | Does the connected bit mean a connection? | `ConnectedMeansConnected` is violated |
| `spool_promise` | Failing readings of the directory, writes, closes, unlinks and sends, and resets, without the shell | `UndisturbedCallDrains`, `SpoolBounded`, `KeepsPromise` hold; 255 089 states |
| `spool_shell` | The caller against the shell, with any one fault | `TypeOK`, `EveryCopyCostsAFault`, `CallReturns` hold; 149 520 states |
| `spool_torn_frame` | Are only complete frames sent? | `OnlyCompleteFrames` is violated |
| `lrw` | Four messages, both modes of activation, the shell, any two of eleven faults | 5 properties hold; 474 200 states |
| `clime` | Eight variants of the application with small buffers, timers, events, clicks, failing reports, the reports of alarms and line on or off | 7 properties hold; 193 810 states |

What the five violations show of the code (details and quotations in `PROJECT.json`):

* **An upload can repeat and restart for ever** (`ctr_cloud_transfer.c:247-254`). A repeated answer sends
  the same fragment under the *next* number. The cloud has to reset, the reset answers a restart, and
  the surplus answer keeps the two ends one step apart. One such answer is enough, and each of the three settings of
  `MCSurplusAnswer` alone has one: of a datagram that comes twice; of a call whose exchange timed out, taken by the next
  call, with no datagram repeated; of a cloud that forgot the transfer and refuses the last acknowledgement of a download,
  which nobody waits for. A download repeats the same packet
  (`goto again`) and does not have the problem: `DownloadReturns` holds with the same faults. The fragment
  under its next number is also a new one to the cloud: with two repeated datagrams and some losses a
  message of three fragments is assembled from four, and the call returns 0.
* **An upload can return 0 for a message that the cloud does not have** (`ctr_cloud_transfer.c:273-277`). After
  a call that timed out both numbers are 0 and the socket stays open. The next call takes the late answer,
  which has the number it expects, for the answer to its own first packet, which was lost.
* **send_recv can return 0 for a datagram that was never sent** (`ctr_lte_v2.c:961-963`, `1182-1191`). READY
  delegates a SEND beside the caller's own; if the first fails inside SEND, the second in the same batch
  counts as its completion.
* **A connection is reported while the modem is off** (`ctr_lte_v2.c:347-371`, `529-544`, `863`). A reconnect
  leaves the connected bit set until the modem attaches again.
* **A reset while a message is written leaves an empty file** (`ctr_cloud_spool_littlefs.c:144-164`), which
  a later call drains to the cloud. So does an fs_close() that fails.

### What a property is claimed under, and why

Several properties hold only under conditions; a run leaves out a fault for a reason, not for size:

* `NeverStalls` excepts `WaitsForSim`: after erasing forbidden networks PREPARE waits for a second
  `%XSIM` with its timer stopped. A second failing on_leave() would leave RESET_LOOP without a timer:
  `MCReconnectFails` spends one of its two faults on getting into the reset loop. A reconnect inside the on_leave() of the present state counts as somebody at work.
* `ConnectedHasSocket` until the first reconnect, after which the bit is stale (see above), and but for two sockets
  that are gone without CONNECTED being cleared: one that the network closed without a word, until the next check, and
  one given up to save power without PSM, in the flight mode of READY (`ctr_lte_v2.c:1022-1035`) or for GNSS, until the
  modem attaches again (`spared`). Through these `ctr_lte_v2_wait_for_connected()` returns 0 without a socket. A third
  case needs more events in a batch than `MaxLines` admits: a SOCKET_OPENED handled only after the modem was
  restarted sets the bit although the socket is gone; the theorem has it as the hypothesis `OldNewsTrue`.
* `RequestNotForgotten` with GNSS only where PSM is granted and no check fails: `on_enter_gnss()` does not
  look at `m_send_recv_param`, so a request whose SEND was dropped in READY waits until GNSS is turned off. With a timeout only for callers that do not
  overlap: one whose `k_mutex_lock()` timed out uses the request block of the other one all the same (`ctr_lte_v2.c:413`).
* `ParamValid` for callers that wait for ever: with a soft timeout the modelled STOP handshake has windows
  (see the hazards at `ctr_lte_v2.c:1131`).
* `UplinkAcked`, `InboxWhole` and `TransferPromised` on links that only lose datagrams (`OnlyLosses`): the two
  findings above are what happens elsewhere. `ReleasedAfterDownload` without timed-out exchanges. `DownloadWhole` and
  `DownloadReturns` on all links, `UndisturbedReturns` on those that only lose datagrams: with duplicates, with late
  answers and with a cloud that forgets it fails.
* `DownloadWhole` on a link that repeats or delays, as long as the numbers do not come round to one that is under way: with 6
  and with 10 numbers, late answers and repeats TLC finds it violated, because the loop does not ask for FIRST in the first
  fragment. The code has 4096.
* `KeepsPromise` without "clock", "read", "unreadable", "listing" and the shell: with the clock set back, or a
  directory read only in part, the oldest name found is not the oldest message, and the code deletes what it cannot read
  on purpose. A message whose fs_close() failed is not in the spool although the save returned 0, and the promise does not
  count it.
* `SpoolBounded` allows one file beyond the limit for each failing reading of the directory: then the loop that makes
  room ends and the file is created all the same (`ctr_cloud_spool_littlefs.c:114-117`). After a save in which nothing
  failed the limit holds.
* `ReportsTrue` but for an acknowledgement with an id that an earlier initialization could not read or
  delete (`left_over`): the result of the deletion is ignored (`ctr_cloud.c:518-524`), and when the report of the next swap
  arrives but its id is not saved, the next image is acknowledged under the old one.
* `InitializedMeansSynced` speaks of the decoder and the encoder only: a failing `upload_config()` is logged and no
  more (`ctr_cloud.c:606-612`).
* `Initializes` and `AnnouncedIsFetched` speak of the device alone: that an update makes progress rests
  on the cloud, which starts an image over when the device does not ask for more.
* `JoinComing` and `Recovers` except `stale`, a verdict on an earlier attempt that counted for the last one.
* `OnlyLateEventsLost` and `AlarmsKnown` over LTE; over LoRaWAN no event is ever sent and all are cleared
  (`app_work.c:96-111`). `AlarmsKnown` for the alarms whose report is configured, which it is not by default
  (`app_config.c:62-63`): the others change without an event. It also excepts an alarm whose last change a full
  buffer has refused, until the next one is recorded.
* `SeriesRegular` for series in which no period went without a measurement because a report blocked the queue, and no
  triple click took one on demand: such series are misdated. The presses of the S1 button, which the report dates by the
  same interval (`app_cbor.c:556-557`), come when they come and are no such series.
* `EventsLeave` while the report fits its buffer: one that does not is never sent again.
* `HandlersReturn` but for `RadonLeaks`: `app_sensor_radon_aggreg()` keeps the mutex when the probe is silent.
* `SuccessMeansReceived` with a timeout for one request at a time: `MCSoftTimeout` has two calls, but never two live
  ones; two overlapping callers are those that wait for ever (`MCRequests`).
* `NearReportRate` allows two reports more than the configuration: one for the `<=` and one for the
  window between the check and the delay timer.

### Bounds and why they are enough

`MaxFaults`, `MaxCalls`, `MaxPushes`, `MaxMessages` and the bounds in a `setting` (faults, calls, commands, lines, events, periods, clicks) bound behaviours; the configurations
give their values.

* Transfer: messages of two and three fragments have a first, a last and one between; three calls are
  needed for a failed call, a call that meets its leftovers, and one that meets the leftovers of both. `MCLossy`
  has five, and 6 sequence numbers, so they wrap inside a call; `MCManyLosses` has more losses in fewer calls. `MCRepeats` (four faults) and `MCDelays` (three, timeouts
  too) have 40, more than can be under way, as the code's 4096 are: a wrap onto a number that is
  still in flight is not what these settings are about. The theorems below remove the bounds for `MCLossy`.
* Session: three chunks have a first, a last and one between; three faults let a reset come after a failure
  that followed another one; two messages of the cloud or the application besides the images. The theorems below remove the
  bounds for all but liveness.
* LoRaWAN: two attempts of an operation and a setup of two commands have a first, a later and a last one;
  two faults break an attempt and its successor, or all of one operation. Of the messages one is
  too long, one expires and two ask for a confirmation.
* Clime: two probes of a kind, series of two measurements and buffers of one sample and one event are full
  as soon as they can be; three periods make a series longer than its room. A report rate of 1 lets the limit, the
  comparison and the window come together. The theorems below remove these bounds for the five invariants.
* LTE: three faults are what it takes to pass the third failed check (`RetryLeft` in `EnterError`). Two
  callers are symmetric and one of them at a time holds the mutex; a third would wait with the second. Their
  three calls let a request meet what two earlier ones left behind. One call is enough for `MCDetours`, where any dialog on
  the way fails, and two for `MCSoftTimeout`, where what the first left behind is an answer.
  A setting has `alone` when the callers never overlap. `MaxLines` keeps the modem from talking while more than
  that many events wait, so the ring of 8 does not overflow; an overflow is a hazard without a property.
* Spool: `SpoolSize` 4 with one file of other origin makes the loop that makes room run, and
  five messages fill it beyond the limit; four faults let a write fail, a removal fail, a send fail
  and a reset come in one behaviour. The theorems below remove the bounds.

Deadlock is checked where the system never stops (`cloud_session`); the other models may stop when
their calls, commands or messages are used up.

### Fairness

* `CtrCloudTransfer`: weak fairness of the device's steps and of the server's. The code of a call runs on
  a thread that is always scheduled, the network delivers what it does not lose, and faults are
  bounded, as a link that loses everything for ever promises nothing. Callers need not call.
* `CtrCloudSpool`: weak fairness of the steps of the thread inside `ctr_cloud_send_data()`: the file system
  and the transfer layer return. The shell gets none. Its interference is bounded by `MaxMessages`.
* `CtrLteV2`: none. Its timers have no lengths in the model, so what must eventually happen would rest
  on an order of timers that is not there. That the machine has something to wait for in every
  transient state (`NeverStalls`), and in every state with a request (`RequestNotForgotten`), is
  stated as an invariant instead.

## 4. The proofs

Thirty-two theorems hold for every value of the constants that the module's assumption (`ConstantsAssumption` of
`CtrCloudTransfer`, `LteAssumption`, `SpoolAssumption`, `SessionAssumption`, `LrwAssumption`, `ClimeAssumption`) allows: every size of a queue, buffer or spool, every set of messages and
faults, every bound.

| Module | Theorem | Statement | Assumes besides |
|---|---|---|---|
| `CtrCloudTransferProofs` | `TypeCorrect` | `Spec => []TypeOK` | - |
| | `SuccessIsDelivery` | `Spec => []UplinkAcked` | - |
| | `UploadsWhole` | `Spec => []InboxWhole` | - |
| | `DownloadsWhole` | `Spec => [](OnlyLosses => DownloadWhole)` | - |
| | `KeptUntilDownloaded` | `Spec => [](OnlyLosses => ReleasedAfterDownload)` | - |
| | `PromiseImplemented` | `Spec => TransferPromised` | - |
| `CtrLteV2Proofs` | `TypeCorrect` | `Spec => []TypeOK` | - |
| | `NeverConnectedWhileOff` | `Spec => []ConnectedWhileOn` | - |
| | `ConnectedBehindSocket` | `Spec /\ []OldNewsTrue => []ConnectedHasSocket` | - |
| | `BuffersInUse` | `Spec => []ParamValid` | - |
| | `SuccessFillsBuffer` | `Spec => [](~FiniteTimeout => SuccessMeansReceived)` | - |
| | `MachineNeverStalls` | `Spec /\ []RoomLeft => []NeverStalls` | `NoStallBySetting` |
| | `ReconnectNeverLost` | `Spec /\ []RoomLeft => []ReconnectResumes` | at most one fault where the RF multiplexer can refuse the antenna ("rfmux") and somebody reconnects |
| | `RequestsRemembered` | `Spec /\ []RoomLeft => []RequestNotForgotten` | `NoStallBySetting`; no timeout, no GNSS, a UART that can be stopped |
| `CtrCloudSpoolProofs` | `TypeCorrect` | `Spec => []TypeOK` | - |
| | `CallDrains` | `Spec => []UndisturbedCallDrains` | no shell |
| | `LimitKept` | `Spec => []SpoolBounded` | no shell |
| | `PromiseKept` | `Spec => KeepsPromise` | no shell, no clock steps, no unreadable files, no directory read in part (`Calm`) |
| `CtrCloudSpoolCopiesProofs` | `CopiesCost` | `Spec => []EveryCopyCostsAFault` | - |
| `CtrCloudSessionProofs` | `SessionInvariant` | `Spec => []IInv`, the inductive invariant | - |
| | `TypeCorrect` | `Spec => []TypeOK` | - |
| | `SyncedOnceInitialized` | `Spec => []InitializedMeansSynced` | - |
| | `WholeImagesOnly` | `Spec => OnlyWholeImages` | - |
| | `CloudToldTheTruth` | `Spec => ReportsTrue` | - |
| `CtrLrwProofs` | `TypeCorrect` | `Spec => []TypeOK` | - |
| | `SendOkIsAck` | `Spec => []SendOkMeansAcked` | - |
| | `JoinIsComing` | `Spec /\ []JoinFindsRoom => []JoinComing` | - |
| `CtrClimeProofs` | `RateKept` | `Spec => []NearReportRate` | - |
| | `TypeCorrect` | `Spec => []TypeOK` | - |
| | `LostWasLate` | `Spec => []OnlyLateEventsLost` | - |
| | `CloudKnowsAlarms` | `Spec => []AlarmsKnown` | - |
| | `MeasurementsDated` | `Spec => []SeriesRegular` | - |

### The transfer

`OnlyLosses` is a link that loses datagrams, with answers that cannot be read and reboots; late answers (`timeout`),
datagrams that come twice and a cloud that forgets are left to TLC. `UplinkAcked` and `InboxWhole` have this condition
in themselves. A `Setting` has more than 4 numbers. The code has 4096; more than 4 are needed: with 3 and 4 TLC finds
`ReleasedAfterDownload` and `DownloadWhole` violated, as the number after a lost last acknowledgement is then the one that
the cloud took last.

`Reliable` says what is under way at every moment. In a call (`Exchange`) the device has one packet out, of which there
are four cases: it is on its way, or lost, and not taken (`Sending` with `Unseen`); the cloud has taken it and its
answer was lost (`Sending` with `Took`); its answer is in the socket (`Accepted`); a demand to start over is in the
socket (`Refused`). In front of it the last acknowledgement of the download before may still be on its way (`Behind`).
Between calls (`Resting`) there is at most that one. What a fragment is appended to follows from `Known`: whenever
the cloud expects the number of the packet, it also has the fragments before it, and so does the device's
buffer (`OneMessage`). Hence of the branches of the two loops only a few can be taken; that no repeat and no
unexpected flag occurs here is part of the proof, and that they do occur with duplicates is what the runs show.
One lemma per party takes a step: `CallReliable`, `UplinkReliable`, `DownlinkReliable`, `ServerReliable` (split by what
arrives: `LastAckReliable`, `AcceptReliable`) and `LinkReliable`. The arithmetic of the wrap is in `Counting`, that of
the fragments in `NextFragment`.

For the promise (`PromiseStep`, one step per action) three moments matter. `Arrives`: an upload comes together at the
cloud only from the fragments of the message whose call still runs. `Obtains`: what the device puts together is the oldest
message that waits, and an empty answer means that none does; both follow from `Accepted`. `Releases`: the acknowledgement that
releases a message was sent after the device had it. Everything else is a stutter, but for the starts and ends of calls.

### The LTE state machine

`Attached` says in which states the bit may be set (`ConnectedWhileOn`: not while the machine is off, boots or attaches), where the state machine
may be inside a handler then, and that ERROR keeps it only when it goes back to READY, which it does only behind a check that succeeded.
`Told` adds the socket: whoever is connected, or is about to be told so by a SOCKET_OPENED that waits in OPEN_SOCKET, has it. One
thing can break this, a SOCKET_OPENED that still waits when a batch with DEREGISTERED and REGISTERED, or a restart of the modem
and all that leads back to OPEN_SOCKET, has been handled before it: about five events of one batch. `OldNewsTrue`, that such a
SOCKET_OPENED is still true when the socket is to be opened anew, is therefore a hypothesis about the behaviour; `MaxLines` keeps the
batches of the runs too short for it to fail: in `lte` it is true of every reachable state.
In a setting whose callers wait for ever (`~FiniteTimeout`, which `ParamValid` has as its own condition) `Owned` says that the owner of
`m_send_recv_lock`, the caller who waits and `m_send_recv_param` are the same, that the flags
`FLAG_SEND_PENDING` and `FLAG_RECV_PENDING` are there only for it and never once it has been told DONE, and that the state
machine works on a request only while nobody has been told DONE.

Three more invariants say that something will happen. They rest on no event being dropped by a full ring, which
depends on how fast the modem talks and not on this code: `RoomLeft`, a place free in the ring, is a hypothesis
about the behaviour. In the runs it is true of every reachable state: at most 5 of the 8 places of the ring are used in
`lte`. `Awake` is the reason why the machine does not stall: in every state that it
must leave, the timer runs or an event waits (`Due`, in the ring or in the batch) for which that state has a case that
leads on (`Waking`), not one that it ignores. It needs `Dialogs`, that no state is entered from which nothing
leads on, and `UartUp`, that the modem can write the line that PREPARE waits for. `NoStallBySetting` names the two
ways in which the machine does stall, and TLC finds both: an on_leave() of RESET_LOOP that fails twice, and a reconnect
during the second way through PREPARE after networks were erased (the ENABLE meets PREPARE, which ignores it while the
UART is off). `Resumes` says that once a reconnect is through, ENABLE waits while the machine is in DISABLED, or the ERROR of
an on_leave_disabled() that failed or of a multiplexer that was not released, which leads on by way of the state ERROR. A reconnect
whose on_leave() fails leaves the old state and its ERROR behind, and never reaches DISABLED. When on_leave_disabled() fails a second time, nothing leads on. `Remembered` says that in READY
and SLEEP a request has a SEND that waits, or an ERROR behind which READY is entered anew, or the
modem is on its way to sleep. It fails when the UART cannot be stopped on entering SLEEP without PSM (see the hazard at
`ctr_lte_v2.c:1052`). No run has a setting with any of these combinations.

### The spool

`TypeOK` is not inductive: the cloud receives only numbered messages because every frame
on disk and in RAM is numbered, and the count of files stays a number because of the guard of the loop
that makes room. `Typed` adds this, and finiteness of the directory.

Without the shell `Alone` says where the file of the current call is at every point of it, which is
what a drained spool rests on: the only way back to idle with result 0 and no disturbance is the
one on which `Drained` has found the directory empty.

For the limit, `Bounded` relates the count taken by `Count` to the directory while the loop
makes room, at each of its steps: without a failure since the call began, room for one more is made when the file is
created, and every failing reading costs a fault, which is the slack. It needs no order of names, so it holds also when the clock is set back.

For the promise, `Ordered` says that names and message numbers are in the same order, that a new
message is newer than every stored one and that the file being drained has been delivered when
it is released. Each action then maps to a step of `SpoolPromise` or to a stutter: `Open` to
`Create`, `Write` to `Keep`, a frame that arrives to `Deliver`, a removal to `Release`, and `Drop` to
`DropOldest`, where `OldestIsLeast` (from the library's well-foundedness of finite subsets) supplies that
`CHOOSE` finds a least name.

`CopiesCost` is about the whole system, the shell, clock steps and every fault included. `Single` says that
numbers are never given out twice and that a message is whole in one file at most, so that the same message is
sent again only from where it already was; `Counted` is the balance: the frames the cloud has twice, the files it
already has whose removal is not due, and the frame under way again are never more than the faults so far.

### The session

`IInv` joins what the properties need with `TypeOK`. `BufferFits` says what message the work holds at each point,
`OneImage` that all chunks that wait or are being processed are of the image that the cloud serves and continue the
one in the slot: a cloud that starts over takes its chunks back (`OthersKept`), and what is written at
the right offset is therefore of the right image, although the code never compares the two. `SlotHolds` carries this from
the last chunk to the reboot (`WholeImagesOnly`). `IdOnTrial` says that a saved update id is that of the image
which runs on trial, at each point between the swap and the report, wherever a reset falls
(`CloudToldTheTruth`); but for an id that could not be deleted, which `left_over` marks from the end of the initialization on. `Synced` follows the initialization: what the cloud has of this image after each of its steps, and that the
answer to the session is the first message of the queue. Resets anywhere (`BootOnTrial`) and the steps of
the cloud (`CloudAddsChunks`, `CloudKeepsImage`) keep all of it. What the recursion of `OtherThanChunks` returns is
proved from a least counterexample (`LeastNumber`) in place of an induction.

### LoRaWAN

`TypeOK` lacks why the dispatcher finds something in a queue it takes from, and why the
retries do not fall below zero; `Typed` adds both. `SendOkIsAck` rests on `Acks`: an attempt begins with no
`+OK` on the wire, the modem says `+OK` only when it was idle and from then on works on this message, so that an
`+ACK` behind that `+OK` is one on this message and one before it is forgotten, because the
signal is cleared when the `+OK` is handled. `NoneAfter` says this of every line on the wire;
`LaterLine` and `LinesMoveUp` carry it through an append and through the handling of the first line. It does not matter what is lost, late, or
left by a modem that has restarted.

`JoinComing` fails when a JOIN does not fit into the queue, which the shell can fill faster than the dispatcher empties it:
`JoinFindsRoom`, that the JOIN behind a setup finds room among the 16 places, is a hypothesis about the behaviour, and bounds neither
messages nor commands. (The START after a failure always finds room: the queue was purged just before.) `Coming` adds why the verdict of the last attempt to join is true: without a late line a `+JOIN` that
waits on the wire or in the signal means that the modem has joined.

### Clime

`Rated` counts what can still increment the counter: the delay timer that runs and the thread between the check
and the timer; each of them needs one below the limit. `Typed` adds the domains of the functions to
`TypeOK`, and that an event a handler is about to record still has a number. The series and buffers of events
never pass their end because every loop stops at the first full sensor (`TypedMeasure`) and `Record` takes no more
than `Room` (`TypedRecord`). `Kept` says that while a report is being sent an event in the buffers is in the
report or came too late; `RecordAdds` is its only hard step. `Known`
says of a `Watched` alarm, one that is reported and was not refused, that its last event that waits in the buffers, or else what the cloud was told last, is
whether it is on; a sample changes one alarm at a time (`OneChange`), and records the change
with it (`LoggedSample`).

`Regular` is the invariant of the series. `Queued` says that no work waits twice, so that a period adds one measurement and
not two; `Alike`, that the sensors of a kind always have the same series, so that the loop over them
measures all or none (`ReachedAlike`) and the first measurement after a clear stamps once; `Steady`, that a series
that has room ends with this period, or with the one before while the aggregation waits. `Queued` and `Alike` hold whatever
disturbs a series, which is why it is regular again after the next clear, even if works of the period were left
in the queue. `SubmittedAll` says that the timers submit the work of every kind.

### Only model-checked

Liveness and everything under fairness are out of the prover's reach: `UndisturbedReturns`, `DownloadReturns`,
`Initializes`, `AnnouncedIsFetched`, `CallReturns`, `Recovers`, `MessagesAnswered`, `EventsLeave` and `HandlersReturn`. The
transfer on links beyond `OnlyLosses` is only model-checked: there one invariant would have to say of every
datagram under way from which exchange it is. So is `RequestNotForgotten` for callers with a timeout and with GNSS.

## 5. Not modelled

* The bytes of packets, hashes, CBOR messages and AT lines: encodings without control of their own.
* Times: `ctr_cloud_send_data()` divides a timeout among its frames; the models let any wait run out.
* `m_metrics` and the callback of transfer events: counters that no decision reads.
* The commands of a LoRaWAN setup and of an LTE dialog one by one: a dialog fails or succeeds as a whole.
* The values of samples and their statistics, and the LoRaWAN payload of Clime.
* The other applications: `app_work.c`, `app_sensor.c` and `app_cbor.c` are generated from one template and have the structure
  of Clime's with other sensors, so that a module for each would repeat `CtrClime`.
* `ctr_lrw_v2`, which no application uses yet, and the superseded `ctr_lte`.
* The attach policy (`m_attach_retry_count`): only the lengths of timers depend on it.
* The data race on `m_send_recv_param` at finer grain than the blocking dialogs.
* The components with status `not_modelled` in `PROJECT.json`, for the reasons given there.

## 6. Plan

Done: transfer, LTE state machine, spool and its promise, session and firmware updates, LoRaWAN dispatcher, the Clime
application, and the proofs of all of their safety properties, but for the transfer on links that repeat and delay. Next, in this order:

1. Proofs: `DownloadWhole` and `ReleasedAfterDownload` on links that repeat and delay datagrams, with an invariant that
   says of each of them from which exchange it is, and that no number has come round to it.
2. The spool composed with `TransferPromise` in place of its `FrameSent` and `FrameFails`.
3. `CtrLteLink`: the UART buffers and lines below the dialogs; the dialogs of `ctr_lte_v2_talk.c` above them.
4. The attach policy as a function, against the table in its comment.
