------------------------------ MODULE CtrClime ------------------------------
(***************************************************************************)
(* The application applications/clime: sensors are sampled, the samples    *)
(* are aggregated into series of measurements, line, tamper and alarm      *)
(* events are recorded, and a report of all of it is sent and forgotten.   *)
(*                                                                         *)
(* Three kinds of code run.  The app_work queue samples, aggregates and    *)
(* sends, one work after the other, and is blocked while                   *)
(* ctr_cloud_send_data() runs.  The system work queue runs the handlers of *)
(* the line, of the tamper and of the S1 button.  Both are threads and     *)
(* share g_app_data under its mutex.  Timers expire in interrupts, between *)
(* any two steps.                                                          *)
(*                                                                         *)
(* Of a sample and of a measurement only its existence and its time are    *)
(* kept; of the temperature of the hygrometer the bands of its two alarms. *)
(***************************************************************************)
EXTENDS Naturals, Sequences, FiniteSets

CONSTANTS
  Probes,           \* sensors of each kind that has several
  SampleRoom,       \* APP_DATA_MAX_SAMPLES
  MeasurementRoom,  \* APP_DATA_MAX_MEASUREMENTS
  EventRoom,        \* APP_DATA_MAX_BACKUP_EVENTS and the others
  ReportRate,       \* the configuration item event-report-rate
  Settings,         \* the builds, configurations and bounds: see Setting
  MaxEvents,        \* the largest bound of a setting on the events recorded
  MaxPeriods        \* the largest bound of a setting on the aggregation periods

One  == {"iaq", "hygro", "sps30", "radon"}
Many == {"w1_therm", "rtd_therm", "tc_therm", "soil_sensor", "ble_tag"}
Kinds == One \cup Many

\* hygro_t_alarm_hi_report, hygro_t_alarm_lo_report, backup_report_connected and
\* backup_report_disconnected.
Reports == {"hi", "lo", "connected", "disconnected"}

\* kinds: the sensors built in; line: CHESTER-Z or X10 watches the supply; tamper: the
\* tamper contact; reports: those of Reports that are configured; mode: lte or lrw; room:
\* the values the report buffer has room for.
\* Bounds: events, periods, clicks of the buttons and sends that fail.
Setting == [kinds : SUBSET Kinds, line : BOOLEAN, tamper : BOOLEAN,
            reports : SUBSET Reports, mode : {"lte", "lrw"}, room : Nat,
            events : 0..MaxEvents, periods : 0..MaxPeriods, clicks : Nat, failures : Nat]

ASSUME ClimeAssumption ==
  /\ {Probes, SampleRoom, MeasurementRoom, EventRoom, ReportRate} \subseteq Nat \ {0}
  /\ {MaxEvents, MaxPeriods} \subseteq Nat
  /\ Settings \subseteq Setting

VARIABLES
  setting,       \* the one of Settings that this behaviour has, never changed
  samples,       \* of each sensor, how many since its last aggregation
  measurements,  \* of each sensor, the periods they were aggregated in
  timestamp,     \* of each kind, the period of the first measurement
  events,        \* of each source, the events recorded: <<number, name, on or off>>
  alarms,        \* hygro.alarm_hi_active and alarm_lo_active
  app_data,      \* the mutex of g_app_data: "free", or "leaked" by app_work
  m_work_q,      \* the works submitted to app_work
  report,        \* the events in the report being sent, NoReport when there is none
  m_send_timer,  \* whether the timer of the next report runs
  counter,       \* m_report_rate_hourly_counter
  rate_timer,    \* m_report_rate_timer_is_active
  delay_timer,   \* m_report_delay_timer_is_active
  limiter,       \* whether a thread has passed the check of the counter
  handler,       \* the event a handler of the system work queue has, or NoEvent
  now,           \* the current aggregation period
  left,          \* the clicks and the failures of a send that may still happen
  recorded,      \* events recorded so far
  history        \* what the properties remember: see Init

data    == <<samples, measurements, timestamp, events, alarms>>
limit   == <<counter, rate_timer, delay_timer, limiter>>
vars    == <<setting, data, app_data, m_work_q, report, m_send_timer, limit, handler,
             now, left, recorded, history>>

NoReport == <<"none">>
NoEvent  == <<"none">>

Count(k) == IF k \in Many THEN Probes ELSE 1
Sensors  == UNION {{k} \X (1..Count(k)) : k \in setting.kinds}
Sources  == {"hygro", "backup", "tamper"}
Alarms   == {"hi", "lo"}
Lte      == setting.mode = "lte"

\* The numbers of the events in some buffers, or in a report.
Numbers(of) == UNION {{of[s][i][1] : i \in DOMAIN of[s]} : s \in Sources}
Pending     == Numbers(events)

Waiting(queue) == {queue[i] : i \in DOMAIN queue}

\* k_work_submit_to_queue(): a work that waits already is not submitted again.
Submit(queue, work) == IF work \in Waiting(queue) THEN queue ELSE Append(queue, work)

-----------------------------------------------------------------------------
(* The rate limit of event reports *)

\* app_work_send_with_rate_limit() up to the check of the counter.  The caller holds
\* the mutex; an interrupt can still come before StartDelay.
RateLimited ==
  /\ rate_timer' = TRUE
  /\ limiter' = (counter <= ReportRate)
  /\ UNCHANGED <<counter, delay_timer>>
RateUnlimited ==
  /\ rate_timer' = TRUE
  /\ limiter' = TRUE
  /\ UNCHANGED <<counter, delay_timer>>
SendWithRateLimit == RateLimited

\* The rest of it: the delay timer starts unless it runs.
StartDelay ==
  /\ limiter
  /\ limiter' = FALSE
  /\ delay_timer' = TRUE
  /\ UNCHANGED <<setting, data, app_data, m_work_q, report, m_send_timer, counter,
                 rate_timer, handler, now, left, recorded, history>>

\* report_delay_timer_handler()
DelayExpires ==
  /\ delay_timer
  /\ m_send_timer' = TRUE
  /\ counter' = counter + 1
  /\ delay_timer' = FALSE
  /\ UNCHANGED <<setting, data, app_data, m_work_q, report, rate_timer, limiter, handler,
                 now, left, recorded, history>>

\* report_rate_timer_handler()
HourEnds ==
  /\ rate_timer
  /\ counter' = 0
  /\ rate_timer' = FALSE
  /\ UNCHANGED <<setting, data, app_data, m_work_q, report, m_send_timer, delay_timer,
                 limiter, handler, now, left, recorded, history>>

-----------------------------------------------------------------------------
(* Events *)

\* Events are recorded while their buffer has room; what a full buffer refuses is lost.
\* news: the names and whether they are on, in order.
RoomAndOne(source) == EventRoom + 1 - Len(events[source])
Room(source) == EventRoom - Len(events[source])

Record(source, news) ==
  LET taken == IF Len(news) < Room(source) THEN Len(news) ELSE Room(source)
      added == [i \in 1..taken |-> <<recorded + i, news[i][1], news[i][2]>>]
  IN /\ recorded' = recorded + taken
     /\ events' = [events EXCEPT ![source] = @ \o added]
     /\ history' = [history EXCEPT
          !.late = IF report = NoReport THEN @ ELSE @ \cup (recorded + 1)..recorded',
          !.refused = (@ \ {news[i][1] : i \in 1..taken})
                        \cup {news[i][1] : i \in (taken + 1)..Len(news)}]

\* The thread that takes the mutex next, and that no other thread has interrupted.
Runs == ~limiter

\* handler_ctr_z() and handler_ctr_x10() before the mutex: app_work is to read the
\* voltages.
LineEvent(connected) ==
  /\ Runs
  /\ setting.line
  /\ handler = NoEvent
  /\ recorded < setting.events
  /\ handler' = <<"backup", "line", connected>>
  /\ m_work_q' = Submit(m_work_q, <<"backup">>)
  /\ UNCHANGED <<setting, data, app_data, report, m_send_timer, limit, now, left,
                 recorded, history>>

\* edge_callback() of the tamper contact.
TamperEvent(activated) ==
  /\ Runs
  /\ setting.tamper
  /\ handler = NoEvent
  /\ recorded < setting.events
  /\ handler' = <<"tamper", "tamper", activated>>
  /\ UNCHANGED <<setting, data, app_data, m_work_q, report, m_send_timer, limit, now,
                 left, recorded, history>>

\* Whether a change of the line, or of the tamper contact, that was recorded asks for a
\* report.
AsksForReport(name, on) ==
  \/ name = "tamper"
  \/ (IF on THEN "connected" ELSE "disconnected") \in setting.reports

\* Either handler once it has the mutex.  A full buffer ends it without a report.
HandleEvent ==
  /\ Runs
  /\ handler # NoEvent
  /\ app_data = "free"
  /\ Record(handler[1], <<<<handler[2], handler[3]>>>>)
  /\ IF recorded' > recorded /\ AsksForReport(handler[2], handler[3])
       THEN SendWithRateLimit
       ELSE UNCHANGED limit
  /\ handler' = NoEvent
  /\ UNCHANGED <<setting, samples, measurements, timestamp, alarms, app_data, m_work_q,
                 report, m_send_timer, now, left>>

-----------------------------------------------------------------------------
(* app_sensor.c: the samples *)

Starts(work) ==
  /\ Runs
  /\ report = NoReport
  /\ m_work_q # <<>>
  /\ Head(m_work_q) = work
  /\ m_work_q' = Tail(m_work_q)

\* The sensors of a kind that a loop reaches before the first one that is full.
Reached(k, used, room) ==
  {i \in 1..Count(k) : \A j \in 1..i : used[<<k, j>>] < room}

AddSamples(k, sampled) ==
  samples' = [s \in Sensors |-> IF s[1] = k /\ s[2] \in sampled THEN samples[s] + 1
                                ELSE samples[s]]

\* A sensor that cannot be read gets the sample NAN, or none.
SampleOrNan(k) ==
  /\ Starts(<<"sample", k>>)
  /\ AddSamples(k, Reached(k, samples, SampleRoom))
SampleOrNone(k) ==
  /\ Starts(<<"sample", k>>)
  /\ \E sampled \in SUBSET Reached(k, samples, SampleRoom) : AddSamples(k, sampled)

NoEvents == UNCHANGED <<setting, measurements, timestamp, events, alarms, app_data, report,
                        m_send_timer, limit, handler, now, left, recorded, history>>

app_sensor_iaq_sample         == SampleOrNan("iaq") /\ NoEvents
app_sensor_sps30_sample       == SampleOrNan("sps30") /\ NoEvents
app_sensor_w1_therm_sample    == SampleOrNone("w1_therm") /\ NoEvents
app_sensor_rtd_therm_sample   == SampleOrNone("rtd_therm") /\ NoEvents
app_sensor_tc_therm_sample    == SampleOrNone("tc_therm") /\ NoEvents
app_sensor_soil_sensor_sample == SampleOrNone("soil_sensor") /\ NoEvents
app_sensor_ble_tag_sample     == SampleOrNone("ble_tag") /\ NoEvents
app_sensor_radon_sample       == SampleOrNone("radon") /\ NoEvents

\* The bands of the temperature: below the low alarm, in its hysteresis, between the two
\* alarms, in the hysteresis of the high one, above it; NAN compares false.
Temperatures == {"cold", "cool", "mild", "warm", "hot", "nan"}

\* check_hygro_temperature(): the alarms after a sample, each with its hysteresis.
AlarmOn(a, t) ==
  \/ a = "hi" /\ t = "hot"
  \/ a = "lo" /\ t = "cold"
  \/ a = "hi" /\ t = "warm" /\ a \in alarms
  \/ a = "lo" /\ t = "cool" /\ a \in alarms
  \/ t = "nan" /\ a \in alarms

\* The events of a sample, the high alarm first: one for each alarm that changes and whose
\* report is configured.
Change(a, t) == IF a \notin setting.reports \/ AlarmOn(a, t) = (a \in alarms)
                THEN <<>> ELSE <<<<a, AlarmOn(a, t)>>>>
Changes(t) == Change("hi", t) \o Change("lo", t)

\* Only a sample that is taken is compared with the alarms.  Each event asks for a
\* report, whether it could be recorded or not.
app_sensor_hygro_sample ==
  /\ Starts(<<"sample", "hygro">>)
  /\ UNCHANGED <<setting, measurements, timestamp, app_data, report, m_send_timer, handler,
                 now, left>>
  /\ IF Reached("hygro", samples, SampleRoom) = {}
       THEN UNCHANGED <<samples, events, alarms, limit, recorded, history>>
       ELSE \E t \in Temperatures :
              /\ recorded + Len(Changes(t)) + (IF handler = NoEvent THEN 0 ELSE 1)
                   <= setting.events
              /\ samples' = [samples EXCEPT ![<<"hygro", 1>>] = @ + 1]
              /\ alarms' = {a \in Alarms : AlarmOn(a, t)}
              /\ Record("hygro", Changes(t))
              /\ IF Changes(t) = <<>> THEN UNCHANGED limit ELSE SendWithRateLimit

-----------------------------------------------------------------------------
(* app_sensor.c: the measurements *)

\* measurement_count of each series.
Taken == [s \in DOMAIN measurements |-> Len(measurements[s])]

\* Whether the first measurement of a series is among those of the sensors reached.
StampsAlways(k, reached) == reached # {}
Stamps(k, reached) == \E i \in reached : measurements[<<k, i>>] = <<>>

Measure(k, reached) ==
  /\ measurements' = [s \in DOMAIN measurements |->
       IF s[1] = k /\ s[2] \in reached
         THEN Append(measurements[s], now)
         ELSE measurements[s]]
  /\ samples' = [s \in Sensors |->
       IF s[1] = k /\ s[2] \in reached THEN 0 ELSE samples[s]]
  /\ timestamp' = [timestamp EXCEPT ![k] = IF Stamps(k, reached) THEN now ELSE @]

\* Every sensor of the kind up to the first whose series is full gets a measurement and
\* starts collecting samples anew; the first one of a series stamps the series of all.
AddMeasurementsOfSampled(k) ==
  Measure(k, {i \in Reached(k, Taken, MeasurementRoom) : samples[<<k, i>>] > 0})
AddMeasurements(k) == Measure(k, Reached(k, Taken, MeasurementRoom))

Aggregates(k) ==
  /\ Starts(<<"aggreg", k>>)
  /\ AddMeasurements(k)
  /\ UNCHANGED <<setting, events, alarms, report, m_send_timer, limit, handler, now,
                 left, recorded, history>>

ForgetsUnlock == app_data' = "leaked"
Unlocks == UNCHANGED app_data

app_sensor_iaq_sensors_aggreg == Aggregates("iaq") /\ Unlocks
app_sensor_hygro_aggreg       == Aggregates("hygro") /\ Unlocks
app_sensor_w1_therm_aggreg    == Aggregates("w1_therm") /\ Unlocks
app_sensor_rtd_therm_aggreg   == Aggregates("rtd_therm") /\ Unlocks
app_sensor_tc_therm_aggreg    == Aggregates("tc_therm") /\ Unlocks
app_sensor_soil_sensor_aggreg == Aggregates("soil_sensor") /\ Unlocks
app_sensor_sps30_aggreg       == Aggregates("sps30") /\ Unlocks
app_sensor_ble_tag_aggreg     == Aggregates("ble_tag") /\ Unlocks

\* The probe is asked for the concentration under the mutex; when it does not answer the
\* function returns without a measurement and without the unlock.  The mutex counts the
\* locks of its owner, so app_work itself goes on.
RadonSilent ==
  /\ Starts(<<"aggreg", "radon">>)
  /\ Reached("radon", Taken, MeasurementRoom) # {}
  /\ timestamp' = [timestamp EXCEPT !["radon"] = IF Stamps("radon", {1}) THEN now ELSE @]
  /\ app_data' = "leaked"
  /\ history' = [history EXCEPT !.disturbed = TRUE]
  /\ UNCHANGED <<setting, samples, measurements, events, alarms, report, m_send_timer,
                 limit, handler, now, left, recorded>>

app_sensor_radon_aggreg == (Aggregates("radon") /\ Unlocks) \/ RadonSilent

\* The S1 button: its presses are a series of their own, and ask for a report.
Press ==
  /\ Runs
  /\ "iaq" \in setting.kinds
  /\ app_data = "free"
  /\ left.clicks > 0
  /\ left' = [left EXCEPT !.clicks = @ - 1]
  /\ LET s == <<"button", 1>>
     IN measurements' = IF Len(measurements[s]) >= MeasurementRoom THEN measurements
                        ELSE [measurements EXCEPT ![s] = Append(@, now)]
  /\ m_send_timer' = TRUE
  /\ UNCHANGED <<setting, samples, timestamp, events, alarms, app_data, m_work_q, report,
                 limit, handler, now, recorded, history>>

-----------------------------------------------------------------------------
(* app_work.c: timers and works *)

\* The order of app_work_init(), and the works of some kinds submitted in that order.
Order == <<"iaq", "hygro", "w1_therm", "rtd_therm", "tc_therm", "soil_sensor", "sps30",
           "ble_tag", "radon">>
SubmitAll(queue, what, kinds) ==
  LET submitted[n \in 0..Len(Order)] ==
        IF n = 0 THEN queue
        ELSE IF Order[n] \in kinds THEN Submit(submitted[n - 1], <<what, Order[n]>>)
        ELSE submitted[n - 1]
  IN submitted[Len(Order)]

AggregationsWait == \E work \in Waiting(m_work_q) : work[1] = "aggreg"

\* All sample timers have one interval and start together.
SampleTimers ==
  /\ m_work_q' = SubmitAll(m_work_q, "sample", setting.kinds)
  /\ UNCHANGED <<setting, data, app_data, report, m_send_timer, limit, handler, now,
                 left, recorded, history>>

\* So have all aggregation timers.  The works of one period are done before the next one
\* begins, unless a report holds up the queue: then a period goes without measurement.
AggregTimers ==
  /\ now < setting.periods
  /\ AggregationsWait => report # NoReport
  /\ now' = now + 1
  /\ m_work_q' = SubmitAll(m_work_q, "aggreg", setting.kinds)
  /\ history' = [history EXCEPT !.disturbed = @ \/ AggregationsWait]
  /\ UNCHANGED <<setting, data, app_data, report, m_send_timer, limit, handler, left,
                 recorded>>

\* send_timer_handler()
SendTimer ==
  /\ m_send_timer
  /\ m_send_timer' = FALSE
  /\ m_work_q' = Submit(m_work_q, <<"send">>)
  /\ UNCHANGED <<setting, data, app_data, report, limit, handler, now, left, recorded,
                 history>>

\* The works that read values kept in no series: backup_work_handler().
BackupWork ==
  /\ Starts(<<"backup">>)
  /\ UNCHANGED <<setting, data, app_data, report, m_send_timer, limit, handler, now,
                 left, recorded, history>>

\* app_work_sample() and app_work_aggreg(), which leaves out the SPS30: the timers start
\* anew from here.
ManualSample(queue) == SubmitAll(queue, "sample", setting.kinds)
ManualAggreg(queue) == SubmitAll(queue, "aggreg", setting.kinds \ {"sps30"})

\* app_handler_ctr_button(): one click sends, two sample, three do all of it.
Click(n) ==
  /\ Runs
  /\ left.clicks > 0
  /\ left' = [left EXCEPT !.clicks = @ - 1]
  /\ m_send_timer' = (m_send_timer \/ n # 2)
  /\ m_work_q' = CASE n = 1 -> m_work_q
                   [] n = 2 -> ManualSample(m_work_q)
                   [] n = 3 -> ManualAggreg(ManualSample(m_work_q))
  /\ history' = [history EXCEPT !.disturbed = @ \/ n = 3]
  /\ UNCHANGED <<setting, data, app_data, report, limit, handler, now, recorded>>

-----------------------------------------------------------------------------
(* The report: app_cbor.c and send_work_handler() *)

\* What a section of the report takes of the buffer: its events, and the values of its
\* measurements.
Length(seqs) == LET Add[n \in 0..Len(seqs)] == IF n = 0 THEN 0 ELSE Add[n-1] + Len(seqs[n])
                IN Add[Len(seqs)]
Series(k) == [i \in 1..Count(k) |->
                IF k \in setting.kinds THEN measurements[<<k, i>>] ELSE <<>>]

SectionTamper  == Len(events["tamper"])
SectionBackup  == Len(events["backup"])
SectionIaq     == 6 * Length(Series("iaq"))
SectionHygro   == Len(events["hygro"]) + 2 * Length(Series("hygro"))
SectionW1      == Length(Series("w1_therm"))
SectionRtd     == Length(Series("rtd_therm"))
SectionTc      == Length(Series("tc_therm"))
SectionSoil    == 2 * Length(Series("soil_sensor"))
SectionSps30   == 9 * Length(Series("sps30"))
SectionBleTag  == 2 * Length(Series("ble_tag"))
SectionRadon   == 4 * Length(Series("radon"))

\* app_cbor_encode() succeeds.
Fits == SectionTamper + SectionBackup + SectionIaq + SectionHygro + SectionW1
          + SectionRtd + SectionTc + SectionSoil + SectionSps30 + SectionBleTag
          + SectionRadon <= setting.room

\* The clear functions of send_work_handler(): series and events, whatever the report had.
Clear ==
  /\ measurements' = [s \in DOMAIN measurements |-> <<>>]
  /\ events' = [s \in Sources |-> <<>>]
  /\ UNCHANGED <<samples, timestamp, alarms>>

\* What the cloud takes for the state of an alarm after the report.
Told(a) ==
  LET last == {i \in DOMAIN report["hygro"] : report["hygro"][i][2] = a}
  IN IF last = {} THEN a \in history.told
     ELSE report["hygro"][CHOOSE i \in last : \A j \in last : j <= i][3]

\* The events of the sections of app_cbor_encode().
ReportedButHygro == [events EXCEPT !["hygro"] = <<>>]
Reported == events

\* The timer is started first, so every early return below still has a next report.
ScheduleNothing == UNCHANGED m_send_timer
ScheduleReport == m_send_timer' = TRUE

\* Up to ctr_cloud_send_data(), which blocks app_work for up to send-timeout.
SendLte ==
  /\ Lte
  /\ Starts(<<"send">>)
  /\ ScheduleReport
  /\ report' = IF Fits THEN Reported ELSE NoReport
  /\ UNCHANGED <<setting, data, app_data, limit, handler, now, left, recorded, history>>

SendOk ==
  /\ Runs
  /\ report # NoReport
  /\ Clear
  /\ report' = NoReport
  /\ history' = [history EXCEPT !.told = {a \in Alarms : Told(a)},
                                !.lost = @ \cup (Pending \ Numbers(report)),
                                !.disturbed = FALSE]
  /\ UNCHANGED <<setting, app_data, m_work_q, m_send_timer, limit, handler, now, left,
                 recorded>>

Keep == UNCHANGED data

SendFails ==
  /\ Runs
  /\ report # NoReport
  /\ left.failures > 0
  /\ left' = [left EXCEPT !.failures = @ - 1]
  /\ Keep
  /\ report' = NoReport
  /\ history' = [history EXCEPT !.lost = @ \cup (Pending \ Numbers(events'))]
  /\ UNCHANGED <<setting, app_data, m_work_q, m_send_timer, limit, handler, now, recorded>>

\* Over LoRaWAN app_send() only queues the last values, which is quick, and everything is
\* cleared whether it could or not.
SendLrw ==
  /\ ~Lte
  /\ Starts(<<"send">>)
  /\ ScheduleReport
  /\ Clear
  /\ history' = [history EXCEPT !.lost = @ \cup Pending, !.disturbed = FALSE]
  /\ UNCHANGED <<setting, app_data, report, limit, handler, now, left, recorded>>

-----------------------------------------------------------------------------

Init ==
  /\ setting \in Settings
  /\ samples = [s \in Sensors |-> 0]
  /\ measurements = [s \in Sensors \cup {<<"button", 1>>} |-> <<>>]
  /\ timestamp = [k \in setting.kinds |-> 0]
  /\ events = [s \in Sources |-> <<>>]
  /\ alarms = {}
  /\ app_data = "free"
  /\ m_work_q = <<>>
  /\ report = NoReport
  /\ m_send_timer = TRUE
  /\ counter = 0
  /\ rate_timer = FALSE
  /\ delay_timer = FALSE
  /\ limiter = FALSE
  /\ handler = NoEvent
  /\ now = 0
  /\ left = [clicks |-> setting.clicks, failures |-> setting.failures]
  /\ recorded = 0
  \* late: events recorded while a report was sent; lost: events cleared that no report
  \* had; refused: names whose last event found no room in its buffer; told: the alarms
  \* that are on as far as the cloud knows; disturbed: a period without measurement, or a
  \* measurement on demand, since the last clear.
  /\ history = [late |-> {}, lost |-> {}, refused |-> {}, told |-> {}, disturbed |-> FALSE]

Sample ==
  \/ app_sensor_iaq_sample \/ app_sensor_hygro_sample \/ app_sensor_w1_therm_sample
  \/ app_sensor_rtd_therm_sample \/ app_sensor_tc_therm_sample
  \/ app_sensor_soil_sensor_sample \/ app_sensor_sps30_sample
  \/ app_sensor_ble_tag_sample \/ app_sensor_radon_sample

Aggreg ==
  \/ app_sensor_iaq_sensors_aggreg \/ app_sensor_hygro_aggreg
  \/ app_sensor_w1_therm_aggreg \/ app_sensor_rtd_therm_aggreg
  \/ app_sensor_tc_therm_aggreg \/ app_sensor_soil_sensor_aggreg
  \/ app_sensor_sps30_aggreg \/ app_sensor_ble_tag_aggreg \/ app_sensor_radon_aggreg

AppWork == Sample \/ Aggreg \/ BackupWork \/ SendLte \/ SendLrw
SendReturns == SendOk \/ SendFails

Interrupts == SampleTimers \/ AggregTimers \/ HourEnds \/ DelayExpires

Others ==
  \/ \E on \in BOOLEAN : LineEvent(on) \/ TamperEvent(on)
  \/ Press
  \/ \E n \in 1..3 : Click(n)

Next == AppWork \/ SendReturns \/ SendTimer \/ StartDelay \/ HandleEvent
          \/ Interrupts \/ Others

Spec == Init /\ [][Next]_vars

\* The threads run, ctr_cloud_send_data() returns and the timer of the report expires;
\* nobody has to click and no line has to change.  A thread that is about to start the
\* delay timer holds the others up, so one condition stands for both.
Fairness ==
  /\ WF_vars(AppWork \/ SendReturns \/ StartDelay)
  /\ WF_vars(SendTimer)
  /\ WF_vars(HandleEvent)

FairSpec == Spec /\ Fairness

-----------------------------------------------------------------------------
(* Properties *)

Event == (1..MaxEvents) \X {"hi", "lo", "line", "tamper"} \X BOOLEAN

\* Every variable has its type; no buffer of g_app_data is written past its end.
TypeOK ==
  /\ \A s \in Sensors : samples[s] \in 0..SampleRoom
  /\ \A s \in DOMAIN measurements :
       /\ measurements[s] \in Seq(0..MaxPeriods)
       /\ Len(measurements[s]) <= MeasurementRoom
  /\ timestamp \in [setting.kinds -> 0..MaxPeriods]
  /\ \A s \in Sources : events[s] \in Seq(Event) /\ Len(events[s]) <= EventRoom
  /\ alarms \subseteq Alarms
  /\ app_data \in {"free", "leaked"}
  /\ rate_timer \in BOOLEAN /\ delay_timer \in BOOLEAN /\ limiter \in BOOLEAN
  /\ m_send_timer \in BOOLEAN
  /\ now \in 0..setting.periods
  /\ left \in [clicks : 0..setting.clicks, failures : 0..setting.failures]

\* The limit of event reports an hour as the code keeps it: the check lets one more than
\* event-report-rate through, and another one when the delay timer expires between the
\* check of the counter and the flag.
NearReportRate == counter <= ReportRate + 2

\* Over LTE only what is recorded while ctr_cloud_send_data() runs can be forgotten
\* unreported: the clear functions empty the buffers whatever the report had.  (Over
\* LoRaWAN no event is ever sent: app_work.c:96-111 forgets all of them.)
OnlyLateEventsLost == Lte => history.lost \subseteq history.late

\* The report gives one timestamp and one interval for all series of a kind, so their
\* measurements must be one period apart, from the period of that timestamp on, those of
\* every sensor: none of them may be skipped and none may stamp again.  (The presses of
\* the S1 button come when they come, though app_cbor.c:556-557 dates them in the same
\* way: their series is not among these.)
SeriesRegular ==
  history.disturbed \/
    \A s \in Sensors : \A i \in DOMAIN measurements[s] :
      measurements[s][i] = timestamp[s[1]] + i - 1

\* Over LTE, when no alarm event waits, the cloud knows of every alarm whose report is
\* configured whether it is on, unless a full buffer has refused its last change.  Of an
\* alarm whose report is not configured, the default, it hears nothing
\* (app_sensor.c:365-402, app_config.c:62-63).
AlarmsKnown ==
  Lte /\ events["hygro"] = <<>> =>
    \A a \in (Alarms \cap setting.reports) \ history.refused :
      a \in history.told <=> a \in alarms

\* No recorded event waits for ever, whatever sends fail: again and again the buffers are
\* empty, unless the report has grown past its buffer.  Every path of
\* send_work_handler() has a next report.
EventsLeave == []<>(Pending = {} \/ ~Fits)

\* The handlers of the system work queue come back, but for the mutex that a silent radon
\* probe makes app_work keep.
RadonLeaks == "radon" \in setting.kinds /\ app_data = "leaked"
HandlersReturn == (handler # NoEvent) ~> (handler = NoEvent \/ RadonLeaks)
=============================================================================
