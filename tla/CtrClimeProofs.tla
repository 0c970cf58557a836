--------------------------- MODULE CtrClimeProofs ---------------------------
(***************************************************************************)
(* Theorems about CtrClime, for every variant of the application, size of  *)
(* its buffers, rate of reports and bound.                                 *)
(***************************************************************************)
EXTENDS CtrClime, TLAPS

LEMMA Rooms ==
  /\ SampleRoom \in Nat /\ MeasurementRoom \in Nat /\ EventRoom \in Nat
  /\ ReportRate \in Nat /\ Probes \in Nat /\ MaxEvents \in Nat /\ MaxPeriods \in Nat
BY ClimeAssumption

\* The samples but those of the hygrometer, and the aggregations but the one that a
\* silent probe cuts short.
LEMMA PlainSamples ==
  ASSUME Sample, ~app_sensor_hygro_sample
  PROVE  NoEvents /\ \E k \in Kinds : SampleOrNan(k) \/ SampleOrNone(k)
BY DEF Sample, Kinds, One, Many, app_sensor_iaq_sample, app_sensor_sps30_sample,
       app_sensor_w1_therm_sample, app_sensor_rtd_therm_sample,
       app_sensor_tc_therm_sample, app_sensor_soil_sensor_sample,
       app_sensor_ble_tag_sample, app_sensor_radon_sample

LEMMA PlainAggregations ==
  ASSUME Aggreg, ~RadonSilent
  PROVE  app_data' = app_data /\ \E k \in Kinds : Aggregates(k)
BY DEF Aggreg, Kinds, One, Many, Unlocks, app_sensor_iaq_sensors_aggreg,
       app_sensor_hygro_aggreg, app_sensor_w1_therm_aggreg, app_sensor_rtd_therm_aggreg,
       app_sensor_tc_therm_aggreg, app_sensor_soil_sensor_aggreg,
       app_sensor_sps30_aggreg, app_sensor_ble_tag_aggreg, app_sensor_radon_aggreg

-----------------------------------------------------------------------------
(* The limit of event reports *)

\* A report that may still be counted leaves room for itself: one that is delayed, and
\* one whose thread has passed the check and was interrupted.
Rated ==
  /\ counter \in Nat
  /\ counter <= ReportRate + 2
  /\ limiter \/ delay_timer => counter <= ReportRate + 1
  /\ limiter /\ delay_timer => counter <= ReportRate

LEMMA RatedInit == Init => Rated
<1> SUFFICES ASSUME Init PROVE Rated
  OBVIOUS
<1>1. ~limiter /\ ~delay_timer
  BY Zenon DEF Init
<1>2. counter = 0
  BY DEF Init
<1> QED
  BY <1>1, <1>2, Rooms DEF Rated

LEMMA RatedLimit ==
  ASSUME Rated, SendWithRateLimit \/ UNCHANGED limit
  PROVE  Rated'
<1>1. CASE SendWithRateLimit
  <2>1. limiter' => counter <= ReportRate
    BY <1>1, Zenon DEF SendWithRateLimit, RateLimited
  <2>2. counter' = counter /\ delay_timer' = delay_timer
    BY <1>1 DEF SendWithRateLimit, RateLimited
  <2> QED
    BY <2>1, <2>2, Rooms DEF Rated
<1>2. CASE UNCHANGED limit
  BY <1>2 DEF Rated, limit
<1> QED
  BY <1>1, <1>2

\* Everything but the timers of the limit leaves it alone, or asks for a report.
LEMMA Unlimited ==
  ASSUME Next, ~StartDelay, ~DelayExpires, ~HourEnds
  PROVE  SendWithRateLimit \/ UNCHANGED limit
<1>1. CASE Sample
  BY <1>1, PlainSamples DEF NoEvents, limit, app_sensor_hygro_sample
<1>2. CASE Aggreg
  BY <1>2, PlainAggregations DEF Aggregates, RadonSilent, limit
<1>3. CASE BackupWork \/ SendLte \/ SendLrw
  BY <1>3 DEF BackupWork, SendLte, SendLrw, limit
<1>4. CASE SendOk \/ SendFails \/ SendTimer
  BY <1>4 DEF SendOk, SendFails, SendTimer, limit
<1>5. CASE HandleEvent
  BY <1>5 DEF HandleEvent, limit
<1>6. CASE SampleTimers \/ AggregTimers
  BY <1>6 DEF SampleTimers, AggregTimers, limit
<1>7. CASE Others
  BY <1>7 DEF Others, LineEvent, TamperEvent, Press, Click, limit
<1> QED
  BY <1>1, <1>2, <1>3, <1>4, <1>5, <1>6, <1>7 DEF Next, AppWork, SendReturns, Interrupts

LEMMA RatedStep == Rated /\ [Next]_vars => Rated'
<1> SUFFICES ASSUME Rated, [Next]_vars PROVE Rated'
  OBVIOUS
<1>1. CASE StartDelay
  BY <1>1, Rooms DEF StartDelay, Rated
<1>2. CASE DelayExpires
  <2>1. ~delay_timer'
    BY <1>2, Zenon DEF DelayExpires
  <2>2. delay_timer /\ counter' = counter + 1 /\ limiter' = limiter
    BY <1>2 DEF DelayExpires
  <2> QED
    BY <2>1, <2>2, Rooms DEF Rated
<1>3. CASE HourEnds
  BY <1>3, Rooms DEF HourEnds, Rated
<1>4. CASE UNCHANGED vars
  BY <1>4, RatedLimit DEF vars
<1> QED
  BY <1>1, <1>2, <1>3, <1>4, Unlimited, RatedLimit

\* app_work_send_with_rate_limit() lets at most event-report-rate + 2 reports through an
\* hour, whatever event comes when and wherever an interrupt comes in between.
THEOREM RateKept == Spec => []NearReportRate
<1>1. Rated => NearReportRate
  BY DEF Rated, NearReportRate
<1> QED
  BY <1>1, RatedInit, RatedStep, PTL DEF Spec
-----------------------------------------------------------------------------
(* Type correctness *)

News == {"hi", "lo", "line", "tamper"} \X BOOLEAN

\* TypeOK is not inductive: the functions need their domains, and that an event has a
\* number in range needs the one that a handler is about to record.
SeriesTyped ==
  /\ DOMAIN samples = Sensors
  /\ \A s \in Sensors : samples[s] \in 0..SampleRoom
  /\ DOMAIN measurements = Sensors \cup {<<"button", 1>>}
  /\ \A s \in DOMAIN measurements : /\ measurements[s] \in Seq(0..MaxPeriods)
                                    /\ Len(measurements[s]) <= MeasurementRoom
  /\ timestamp \in [setting.kinds -> 0..MaxPeriods]

EventsTyped ==
  /\ events \in [Sources -> Seq(Event)]
  /\ \A s \in Sources : Len(events[s]) <= EventRoom
  /\ recorded \in Nat
  /\ recorded <= setting.events
  /\ handler # NoEvent => recorded + 1 <= setting.events
  /\ handler = NoEvent \/ handler \in {"backup", "tamper"} \X {"line", "tamper"} \X BOOLEAN

RestTyped ==
  /\ setting \in Setting
  /\ alarms \subseteq Alarms
  /\ app_data \in {"free", "leaked"}
  /\ rate_timer \in BOOLEAN /\ delay_timer \in BOOLEAN /\ limiter \in BOOLEAN
  /\ m_send_timer \in BOOLEAN
  /\ now \in 0..setting.periods
  /\ left \in [clicks : 0..setting.clicks, failures : 0..setting.failures]

Typed == SeriesTyped /\ EventsTyped /\ RestTyped

LEMMA TypedTypeOK == Typed => TypeOK
BY DEF Typed, SeriesTyped, EventsTyped, RestTyped, TypeOK

\* A sensor is its kind and a number.
LEMMA Pairs ==
  ASSUME Typed
  PROVE  /\ \A s \in Sensors : s = <<s[1], s[2]>> /\ s[2] \in Nat \ {0}
         /\ \A s \in DOMAIN measurements : s = <<s[1], s[2]>> /\ s[2] \in Nat \ {0}
         /\ DOMAIN Taken = DOMAIN measurements
<1>1. \A s \in Sensors : s = <<s[1], s[2]>> /\ s[2] \in Nat \ {0}
  BY Rooms DEF Sensors, Count
<1> QED
  BY <1>1 DEF Typed, SeriesTyped, Taken

LEMMA SensorsKept ==
  ASSUME setting' = setting
  PROVE  Sensors' = Sensors
BY DEF Sensors, Count

LEMMA TypedInit == Init => Typed
<1> SUFFICES ASSUME Init PROVE Typed
  OBVIOUS
<1>1. setting \in Setting /\ setting.events \in 0..MaxEvents
        /\ setting.periods \in 0..MaxPeriods
  BY ClimeAssumption DEF Init, Setting
<1>2. events \in [Sources -> Seq(Event)] /\ \A s \in Sources : Len(events[s]) <= EventRoom
  BY Rooms DEF Init, Sources
<1>3. /\ \A s \in Sensors : samples[s] \in 0..SampleRoom
      /\ DOMAIN samples = Sensors
  BY Rooms DEF Init
<1>4. /\ DOMAIN measurements = Sensors \cup {<<"button", 1>>}
      /\ \A s \in DOMAIN measurements : measurements[s] = <<>>
  BY DEF Init
<1>5. \A s \in DOMAIN measurements : measurements[s] \in Seq(0..MaxPeriods)
                                     /\ Len(measurements[s]) <= MeasurementRoom
  <2>1. <<>> \in Seq(0..MaxPeriods) /\ Len(<<>>) = 0
    OBVIOUS
  <2>2. Len(<<>>) <= MeasurementRoom
    BY <2>1, Rooms
  <2> QED
    BY <1>4, <2>1, <2>2
<1>6. timestamp \in [setting.kinds -> 0..MaxPeriods] /\ now \in 0..setting.periods
  BY <1>1, Rooms DEF Init
<1>7. left \in [clicks : 0..setting.clicks, failures : 0..setting.failures]
  BY <1>1 DEF Init, Setting
<1>8. recorded = 0 /\ handler = NoEvent /\ alarms \subseteq Alarms
        /\ app_data \in {"free", "leaked"}
  BY DEF Init
<1>9. /\ rate_timer \in BOOLEAN /\ delay_timer \in BOOLEAN /\ limiter \in BOOLEAN
      /\ m_send_timer \in BOOLEAN
  BY DEF Init
<1> QED
  BY <1>1, <1>2, <1>3, <1>4, <1>5, <1>6, <1>7, <1>8, <1>9
     DEF Typed, SeriesTyped, EventsTyped, RestTyped

\* What a sample adds, a measurement takes and appends, and an event becomes.
LEMMA TypedSample ==
  ASSUME Typed, NEW k, NEW sampled \in SUBSET Reached(k, samples, SampleRoom),
         AddSamples(k, sampled), setting' = setting
  PROVE  /\ DOMAIN samples' = Sensors'
         /\ \A s \in Sensors' : samples'[s] \in 0..SampleRoom
<1>1. \A s \in Sensors : s[1] = k /\ s[2] \in sampled => samples[s] < SampleRoom
  BY Pairs DEF Reached
<1> QED
  BY <1>1, Rooms, SensorsKept DEF AddSamples, Typed, SeriesTyped

LEMMA TypedMeasure ==
  ASSUME Typed, NEW k, AddMeasurements(k), setting' = setting
  PROVE  SeriesTyped'
<1> DEFINE reached == Reached(k, Taken, MeasurementRoom)
<1>1. now \in 0..MaxPeriods
  BY Rooms DEF Typed, RestTyped, Setting
<1>2. \A s \in DOMAIN measurements : s[1] = k /\ s[2] \in reached =>
        Len(measurements[s]) < MeasurementRoom
  <2> SUFFICES ASSUME NEW s \in DOMAIN measurements, s[1] = k, s[2] \in reached
               PROVE  Len(measurements[s]) < MeasurementRoom
    OBVIOUS
  <2>1. s = <<k, s[2]>> /\ s[2] \in Nat \ {0} /\ s \in DOMAIN Taken
    BY Pairs
  <2>2. \A j \in 1..s[2] : Taken[<<k, j>>] < MeasurementRoom
    BY DEF Reached
  <2>3. Taken[s] < MeasurementRoom
    BY <2>1, <2>2
  <2> QED
    BY <2>3 DEF Taken
<1>3. Measure(k, reached)
  BY DEF AddMeasurements
<1> HIDE DEF reached
<1>4. /\ DOMAIN measurements' = DOMAIN measurements
      /\ \A s \in DOMAIN measurements :
           \/ measurements'[s] = measurements[s]
           \/ /\ measurements'[s] = Append(measurements[s], now)
              /\ Len(measurements[s]) < MeasurementRoom
  BY <1>2, <1>3 DEF Measure
<1>5. \A s \in DOMAIN measurements' : /\ measurements'[s] \in Seq(0..MaxPeriods)
                                      /\ Len(measurements'[s]) <= MeasurementRoom
  <2> SUFFICES ASSUME NEW s \in DOMAIN measurements
               PROVE  /\ measurements'[s] \in Seq(0..MaxPeriods)
                      /\ Len(measurements'[s]) <= MeasurementRoom
    BY <1>4
  <2>1. /\ measurements[s] \in Seq(0..MaxPeriods)
        /\ Len(measurements[s]) <= MeasurementRoom
        /\ Len(measurements[s]) \in Nat
    BY DEF Typed, SeriesTyped
  <2>2. CASE measurements'[s] = measurements[s]
    BY <2>1, <2>2
  <2>3. CASE /\ measurements'[s] = Append(measurements[s], now)
             /\ Len(measurements[s]) < MeasurementRoom
    <3>1. measurements'[s] \in Seq(0..MaxPeriods)
            /\ Len(measurements'[s]) = Len(measurements[s]) + 1
      BY <1>1, <2>1, <2>3
    <3> QED
      BY <2>1, <2>3, <3>1, Rooms
  <2> QED
    BY <1>4, <2>2, <2>3
<1>6. timestamp' \in [setting.kinds -> 0..MaxPeriods]
  BY <1>1, <1>3 DEF Measure, Typed, SeriesTyped
<1>7. /\ DOMAIN samples' = Sensors'
      /\ \A s \in Sensors' : samples'[s] \in 0..SampleRoom
  BY <1>3, Rooms, SensorsKept DEF Measure, Typed, SeriesTyped
<1> QED
  BY <1>4, <1>5, <1>6, <1>7, SensorsKept DEF Typed, SeriesTyped

LEMMA TypedRecord ==
  ASSUME Typed, NEW source \in Sources, NEW news \in Seq(News), Record(source, news),
         recorded + Len(news) <= MaxEvents
  PROVE  /\ events' \in [Sources -> Seq(Event)]
         /\ \A s \in Sources : Len(events'[s]) <= EventRoom
         /\ recorded' \in Nat /\ recorded <= recorded' /\ recorded' <= recorded + Len(news)
<1> DEFINE taken == IF Len(news) < Room(source) THEN Len(news) ELSE Room(source)
           added == [i \in 1..taken |-> <<recorded + i, news[i][1], news[i][2]>>]
<1>1. events[source] \in Seq(Event) /\ Len(events[source]) \in Nat
        /\ Len(events[source]) <= EventRoom /\ Len(news) \in Nat /\ recorded \in Nat
  BY DEF Typed, EventsTyped
<1>2. taken \in Nat /\ taken <= Len(news) /\ Len(events[source]) + taken <= EventRoom
  <2>1. Room(source) \in Nat /\ Len(events[source]) + Room(source) = EventRoom
    BY <1>1, Rooms DEF Room
  <2>2. CASE Len(news) < Room(source)
    BY <1>1, <2>1, <2>2, Rooms
  <2>3. CASE ~(Len(news) < Room(source))
    BY <1>1, <2>1, <2>3, Rooms
  <2> QED
    BY <2>2, <2>3
<1>3. recorded' = recorded + taken
        /\ events' = [events EXCEPT ![source] = events[source] \o added]
  BY DEF Record
<1> HIDE DEF taken
<1>4. added \in Seq(Event) /\ Len(added) = taken
  <2>1. \A i \in 1..taken : recorded + i \in 1..MaxEvents /\ news[i] \in News
    <3> SUFFICES ASSUME NEW i \in 1..taken
                 PROVE  recorded + i \in 1..MaxEvents /\ news[i] \in News
      OBVIOUS
    <3>1. i \in Nat /\ 1 <= i /\ i <= Len(news)
      BY <1>1, <1>2
    <3>2. recorded + i \in Nat /\ 1 <= recorded + i /\ recorded + i <= MaxEvents
      BY <1>1, <3>1, Rooms
    <3>3. news[i] \in News
      BY <3>1
    <3> QED
      BY <3>2, <3>3, Rooms
  <2>2. \A i \in 1..taken : <<recorded + i, news[i][1], news[i][2]>> \in Event
    BY <2>1 DEF News, Event
  <2> QED
    BY <1>2, <2>2
<1> HIDE DEF added
<1>5. events[source] \o added \in Seq(Event)
        /\ Len(events[source] \o added) = Len(events[source]) + taken
  <2>1. events[source] \in Seq(Event) /\ added \in Seq(Event) /\ Len(added) = taken
    BY <1>1, <1>4
  <2> QED
    BY <2>1
<1> QED
  BY <1>1, <1>2, <1>3, <1>5 DEF Typed, EventsTyped

\* Nothing writes the series but samples, aggregations, the button and the clear.
LEMMA SeriesSame ==
  ASSUME SeriesTyped, UNCHANGED <<setting, samples, measurements, timestamp>>
  PROVE  SeriesTyped'
BY SensorsKept DEF SeriesTyped

LEMMA EventsSame ==
  ASSUME EventsTyped, UNCHANGED <<setting, events, recorded, handler>>
  PROVE  EventsTyped'
BY DEF EventsTyped

LEMMA SeriesStep ==
  ASSUME Typed, Next
  PROVE  SeriesTyped'
<1>1. SeriesTyped
  BY DEF Typed
<1>2. CASE Sample
  <2>1. CASE app_sensor_hygro_sample
    <3>1. CASE Reached("hygro", samples, SampleRoom) = {}
      BY <1>1, <2>1, <3>1, SeriesSame DEF app_sensor_hygro_sample
    <3>2. CASE Reached("hygro", samples, SampleRoom) # {}
      <4>1. samples' = [samples EXCEPT ![<<"hygro", 1>>] = @ + 1]
              /\ UNCHANGED <<setting, measurements, timestamp>>
        BY <2>1, <3>2 DEF app_sensor_hygro_sample
      <4>2. samples[<<"hygro", 1>>] < SampleRoom
        BY <3>2 DEF Reached, Count, Many
      <4>3. \A s \in Sensors : samples'[s] \in 0..SampleRoom
        <5> SUFFICES ASSUME NEW s \in Sensors PROVE samples'[s] \in 0..SampleRoom
          OBVIOUS
        <5>1. samples[s] \in 0..SampleRoom /\ s \in DOMAIN samples
          BY <1>1 DEF SeriesTyped
        <5>2. CASE s = <<"hygro", 1>>
          <6>1. samples'[s] = samples[s] + 1 /\ samples[s] < SampleRoom
            BY <4>1, <4>2, <5>1, <5>2
          <6> QED
            BY <5>1, <6>1, Rooms
        <5>3. CASE s # <<"hygro", 1>>
          BY <4>1, <5>1, <5>3
        <5> QED
          BY <5>2, <5>3
      <4> QED
        BY <1>1, <4>1, <4>3, SensorsKept DEF SeriesTyped
    <3> QED
      BY <3>1, <3>2
  <2>2. CASE ~app_sensor_hygro_sample
    <3>1. NoEvents
      BY <1>2, <2>2, PlainSamples
    <3>2. PICK k \in Kinds : SampleOrNan(k) \/ SampleOrNone(k)
      BY <1>2, <2>2, PlainSamples
    <3>3. \E sampled \in SUBSET Reached(k, samples, SampleRoom) : AddSamples(k, sampled)
      BY <3>2 DEF SampleOrNan, SampleOrNone
    <3>4. DOMAIN samples' = Sensors' /\ \A s \in Sensors' : samples'[s] \in 0..SampleRoom
      BY <3>1, <3>3, TypedSample DEF NoEvents
    <3> QED
      BY <1>1, <3>1, <3>4, SensorsKept DEF NoEvents, SeriesTyped
  <2> QED
    BY <2>1, <2>2
<1>3. CASE Aggreg
  <2>1. CASE RadonSilent
    <3>1. now \in 0..MaxPeriods
      BY Rooms DEF Typed, RestTyped, Setting
    <3>2. timestamp' \in [setting.kinds -> 0..MaxPeriods]
      BY <1>1, <2>1, <3>1 DEF RadonSilent, SeriesTyped
    <3>3. UNCHANGED <<setting, samples, measurements>>
      BY <2>1 DEF RadonSilent
    <3> QED
      BY <1>1, <3>2, <3>3, SensorsKept DEF SeriesTyped
  <2>2. CASE ~RadonSilent
    BY <1>3, <2>2, PlainAggregations, TypedMeasure DEF Aggregates
  <2> QED
    BY <2>1, <2>2
<1>4. CASE BackupWork \/ SendLte \/ SendTimer \/ StartDelay \/ HandleEvent
  BY <1>1, <1>4, SeriesSame DEF BackupWork, SendLte, SendTimer, StartDelay, HandleEvent, data
<1>5. CASE SendOk \/ SendLrw
  <2>1. Clear /\ setting' = setting
    BY <1>5 DEF SendOk, SendLrw
  <2>2. <<>> \in Seq(0..MaxPeriods) /\ Len(<<>>) = 0
    OBVIOUS
  <2>3. Len(<<>>) <= MeasurementRoom
    BY <2>2, Rooms
  <2> QED
    BY <1>1, <2>1, <2>2, <2>3, SensorsKept DEF Clear, SeriesTyped
<1>6. CASE SendFails
  BY <1>1, <1>6, SeriesSame DEF SendFails, Keep, data
<1>7. CASE Interrupts
  BY <1>1, <1>7, SeriesSame
     DEF Interrupts, SampleTimers, AggregTimers, HourEnds, DelayExpires, data
<1>8. CASE Press
  <2> DEFINE s == <<"button", 1>>
  <2>1. UNCHANGED <<setting, samples, timestamp>>
    BY <1>8 DEF Press
  <2>2. CASE Len(measurements[s]) >= MeasurementRoom
    BY <1>1, <1>8, <2>1, <2>2, SeriesSame DEF Press
  <2>3. CASE ~(Len(measurements[s]) >= MeasurementRoom)
    <3>1. s \in DOMAIN measurements
      BY <1>1 DEF SeriesTyped
    <3>2. measurements[s] \in Seq(0..MaxPeriods) /\ Len(measurements[s]) \in Nat
      BY <1>1, <3>1 DEF SeriesTyped
    <3>3. now \in 0..MaxPeriods
      BY Rooms DEF Typed, RestTyped, Setting
    <3>4. measurements' = [measurements EXCEPT ![s] = Append(@, now)]
      BY <1>8, <2>3 DEF Press
    <3>5. /\ Append(measurements[s], now) \in Seq(0..MaxPeriods)
          /\ Len(Append(measurements[s], now)) = Len(measurements[s]) + 1
      BY <3>2, <3>3
    <3>6. Len(Append(measurements[s], now)) <= MeasurementRoom
      BY <2>3, <3>2, <3>5, Rooms
    <3> QED
      BY <1>1, <2>1, <3>1, <3>4, <3>5, <3>6, SensorsKept DEF SeriesTyped
  <2> QED
    BY <2>2, <2>3
<1>9. CASE Others /\ ~Press
  BY <1>1, <1>9, SeriesSame DEF Others, LineEvent, TamperEvent, Click, data
<1> QED
  BY <1>2, <1>3, <1>4, <1>5, <1>6, <1>7, <1>8, <1>9 DEF Next, AppWork, SendReturns

\* The changes of the alarms are at most two, and news.
LEMMA ChangesAreNews ==
  ASSUME NEW t
  PROVE  Changes(t) \in Seq(News)
<1>1. ASSUME NEW a \in {"hi", "lo"} PROVE Change(a, t) \in Seq(News)
  <2>1. CASE AlarmOn(a, t) = (a \in alarms)
    BY <2>1 DEF Change
  <2>2. CASE AlarmOn(a, t) # (a \in alarms)
    <3>1. AlarmOn(a, t) \in BOOLEAN
      BY Zenon DEF AlarmOn
    <3>2. <<a, AlarmOn(a, t)>> \in News
      BY <3>1 DEF News
    <3> QED
      BY <2>2, <3>2 DEF Change
  <2> QED
    BY <2>1, <2>2
<1> QED
  BY <1>1 DEF Changes

LEMMA EventsStep ==
  ASSUME Typed, Next
  PROVE  EventsTyped'
<1> USE DEF Typed
<1>1. EventsTyped /\ setting \in Setting /\ setting.events \in Nat
        /\ setting.events <= MaxEvents
  BY Rooms DEF RestTyped, Setting
<1>2. CASE Sample
  <2>1. CASE app_sensor_hygro_sample
    <3>1. UNCHANGED <<setting, handler>>
      BY <2>1 DEF app_sensor_hygro_sample
    <3>2. CASE Reached("hygro", samples, SampleRoom) = {}
      BY <1>1, <2>1, <3>1, <3>2, EventsSame DEF app_sensor_hygro_sample
    <3>3. CASE Reached("hygro", samples, SampleRoom) # {}
      <4>1. PICK t \in Temperatures :
              /\ recorded + Len(Changes(t)) + (IF handler = NoEvent THEN 0 ELSE 1)
                   <= setting.events
              /\ Record("hygro", Changes(t))
        BY <2>1, <3>3 DEF app_sensor_hygro_sample
      <4>2. Changes(t) \in Seq(News) /\ Len(Changes(t)) \in Nat /\ recorded \in Nat
        BY <1>1, ChangesAreNews DEF EventsTyped
      <4>3. /\ recorded + Len(Changes(t)) <= setting.events
            /\ handler # NoEvent => recorded + Len(Changes(t)) + 1 <= setting.events
        BY <1>1, <4>1, <4>2
      <4>4. recorded + Len(Changes(t)) <= MaxEvents
        BY <1>1, <4>2, <4>3, Rooms
      <4>5. /\ events' \in [Sources -> Seq(Event)]
            /\ \A s \in Sources : Len(events'[s]) <= EventRoom
            /\ recorded' \in Nat /\ recorded' <= recorded + Len(Changes(t))
        BY <4>1, <4>2, <4>4, TypedRecord DEF Sources
      <4>6. /\ recorded' <= setting.events
            /\ handler # NoEvent => recorded' + 1 <= setting.events
        BY <1>1, <4>2, <4>3, <4>5
      <4> QED
        BY <1>1, <3>1, <4>5, <4>6 DEF EventsTyped
    <3> QED
      BY <3>2, <3>3
  <2>2. CASE ~app_sensor_hygro_sample
    BY <1>1, <1>2, <2>2, PlainSamples, EventsSame DEF NoEvents
  <2> QED
    BY <2>1, <2>2
<1>3. CASE Aggreg
  BY <1>1, <1>3, PlainAggregations, EventsSame DEF Aggregates, RadonSilent
<1>4. CASE BackupWork \/ SendLte \/ SendTimer \/ StartDelay \/ SendFails
  BY <1>1, <1>4, EventsSame DEF BackupWork, SendLte, SendTimer, StartDelay, SendFails, Keep, data
<1>5. CASE SendOk \/ SendLrw
  <2>1. events' = [s \in Sources |-> <<>>] /\ UNCHANGED <<setting, recorded, handler>>
    BY <1>5 DEF SendOk, SendLrw, Clear
  <2>2. events' \in [Sources -> Seq(Event)] /\ \A s \in Sources : Len(events'[s]) <= EventRoom
    BY <2>1, Rooms
  <2> QED
    BY <1>1, <2>1, <2>2 DEF EventsTyped
<1>6. CASE HandleEvent
  <2>1. Record(handler[1], <<<<handler[2], handler[3]>>>>) /\ handler # NoEvent
          /\ handler' = NoEvent /\ setting' = setting
    BY <1>6 DEF HandleEvent
  <2> DEFINE news == <<<<handler[2], handler[3]>>>>
  <2>2. handler[1] \in Sources /\ news \in Seq(News) /\ Len(news) = 1
    BY <1>1, <2>1 DEF EventsTyped, Sources, News
  <2>3. recorded \in Nat /\ recorded + 1 <= setting.events
    BY <1>1, <2>1 DEF EventsTyped
  <2>4. recorded + Len(news) <= MaxEvents
    BY <1>1, <2>2, <2>3, Rooms
  <2> HIDE DEF news
  <2>5. /\ events' \in [Sources -> Seq(Event)]
        /\ \A s \in Sources : Len(events'[s]) <= EventRoom
        /\ recorded' \in Nat /\ recorded' <= recorded + Len(news)
    BY <2>1, <2>2, <2>4, TypedRecord DEF news
  <2>6. recorded' <= setting.events
    BY <1>1, <2>2, <2>3, <2>5
  <2> QED
    BY <2>1, <2>5, <2>6 DEF EventsTyped
<1>7. CASE Interrupts
  BY <1>1, <1>7, EventsSame
     DEF Interrupts, SampleTimers, AggregTimers, HourEnds, DelayExpires, data
<1>8. CASE Press \/ \E n \in 1..3 : Click(n)
  BY <1>1, <1>8, EventsSame DEF Press, Click, data
<1>9. CASE \E on \in BOOLEAN : LineEvent(on) \/ TamperEvent(on)
  <2>1. UNCHANGED <<setting, events, recorded>> /\ recorded < setting.events
          /\ handler' \in {"backup", "tamper"} \X {"line", "tamper"} \X BOOLEAN
    BY <1>9 DEF LineEvent, TamperEvent, data
  <2>2. recorded + 1 <= setting.events
    BY <1>1, <2>1 DEF EventsTyped
  <2> QED
    BY <1>1, <2>1, <2>2 DEF EventsTyped
<1> QED
  BY <1>2, <1>3, <1>4, <1>5, <1>6, <1>7, <1>8, <1>9 DEF Next, AppWork, SendReturns, Others

LEMMA RestStep ==
  ASSUME Typed, Next
  PROVE  RestTyped'
<1> DEFINE others == <<setting, now, left>>
<1>1. RestTyped /\ setting.clicks \in Nat /\ setting.failures \in Nat
        /\ setting.periods \in Nat
  BY DEF Typed, RestTyped, Setting
<1>2. alarms' \subseteq Alarms /\ app_data' \in {"free", "leaked"}
  <2>1. CASE Sample
    BY <1>1, <2>1, PlainSamples DEF NoEvents, app_sensor_hygro_sample, RestTyped
  <2>2. CASE Aggreg
    BY <1>1, <2>2, PlainAggregations DEF Aggregates, RadonSilent, RestTyped
  <2>3. CASE Next /\ ~Sample /\ ~Aggreg
    BY <1>1, <2>3
       DEF Next, AppWork, SendReturns, Interrupts, Others, BackupWork, SendLte, SendLrw, SendOk,
           SendFails, Keep, Clear, SendTimer, StartDelay, HandleEvent, SampleTimers,
           AggregTimers, HourEnds, DelayExpires, LineEvent, TamperEvent, Press, Click, data,
           RestTyped
  <2> QED
    BY <2>1, <2>2, <2>3
<1>3. /\ rate_timer' \in BOOLEAN /\ delay_timer' \in BOOLEAN /\ limiter' \in BOOLEAN
  <2>1. CASE SendWithRateLimit
    <3>1. (counter <= ReportRate) \in BOOLEAN
      OBVIOUS
    <3> QED
      BY <1>1, <2>1, <3>1, Zenon DEF SendWithRateLimit, RateLimited, RestTyped
  <2>2. CASE UNCHANGED limit
    BY <1>1, <2>2, Zenon DEF limit, RestTyped
  <2>3. CASE StartDelay \/ DelayExpires \/ HourEnds
    BY <1>1, <2>3, Zenon DEF StartDelay, DelayExpires, HourEnds, RestTyped
  <2> QED
    BY <2>1, <2>2, <2>3, Unlimited
<1>4. m_send_timer' \in BOOLEAN
  <2>1. CASE Sample
    BY <1>1, <2>1, PlainSamples, Zenon DEF NoEvents, app_sensor_hygro_sample, RestTyped
  <2>2. CASE Aggreg
    BY <1>1, <2>2, PlainAggregations, Zenon DEF Aggregates, RadonSilent, RestTyped
  <2>3. CASE \E n \in 1..3 : Click(n)
    BY <1>1, <2>3, Zenon DEF Click, RestTyped
  <2>4. CASE BackupWork \/ SendLte \/ SendLrw \/ SendReturns \/ SendTimer \/ StartDelay
    BY <1>1, <2>4, Zenon
       DEF SendReturns, BackupWork, SendLte, SendLrw, ScheduleReport, SendOk, SendFails,
           SendTimer, StartDelay, RestTyped
  <2>5. CASE HandleEvent \/ Interrupts \/ Press \/ \E on \in BOOLEAN : LineEvent(on) \/ TamperEvent(on)
    BY <1>1, <2>5, Zenon
       DEF Interrupts, HandleEvent, SampleTimers, AggregTimers, HourEnds, DelayExpires,
           LineEvent, TamperEvent, Press, RestTyped
  <2> QED
    BY <2>1, <2>2, <2>3, <2>4, <2>5 DEF Next, AppWork, Others
<1>5. /\ setting' = setting
      /\ now' \in 0..setting.periods
      /\ left' \in [clicks : 0..setting.clicks, failures : 0..setting.failures]
  <2>1. CASE UNCHANGED others
    BY <1>1, <2>1 DEF RestTyped
  <2>2. CASE AggregTimers
    BY <1>1, <2>2 DEF AggregTimers, RestTyped
  <2>3. CASE SendFails
    BY <1>1, <2>3 DEF SendFails, RestTyped
  <2>4. CASE Press \/ \E n \in 1..3 : Click(n)
    BY <1>1, <2>4 DEF Press, Click, RestTyped
  <2>5. CASE Sample
    BY <2>1, <2>5, PlainSamples DEF NoEvents, app_sensor_hygro_sample
  <2>6. CASE Aggreg
    BY <2>1, <2>6, PlainAggregations DEF Aggregates, RadonSilent
  <2>7. CASE BackupWork \/ SendLte \/ SendLrw \/ SendOk \/ SendTimer \/ StartDelay
    BY <2>1, <2>7 DEF BackupWork, SendLte, SendLrw, SendOk, SendTimer, StartDelay
  <2>8. CASE HandleEvent \/ SampleTimers \/ HourEnds \/ DelayExpires
               \/ \E on \in BOOLEAN : LineEvent(on) \/ TamperEvent(on)
    BY <2>1, <2>8
       DEF HandleEvent, SampleTimers, HourEnds, DelayExpires, LineEvent, TamperEvent
  <2> QED
    BY <2>2, <2>3, <2>4, <2>5, <2>6, <2>7, <2>8
       DEF Next, AppWork, SendReturns, Interrupts, Others
<1> QED
  BY <1>1, <1>2, <1>3, <1>4, <1>5 DEF RestTyped

LEMMA TypedStep == Typed /\ [Next]_vars => Typed'
<1>1. ASSUME Typed, Next PROVE Typed'
  BY <1>1, SeriesStep, EventsStep, RestStep DEF Typed
<1>2. ASSUME Typed, UNCHANGED vars PROVE Typed'
  <2>1. RestTyped'
    BY <1>2 DEF Typed, RestTyped, vars, data, limit
  <2> QED
    BY <1>2, <2>1, SeriesSame, EventsSame DEF Typed, vars, data
<1> QED
  BY <1>1, <1>2

\* No series, no buffer of events and no counter of samples of g_app_data is written past
\* its end, and the records of events and measurements stay what they are.
THEOREM TypeCorrect == Spec => []TypeOK
BY TypedInit, TypedStep, TypedTypeOK, PTL DEF Spec

-----------------------------------------------------------------------------
(* Events that are lost *)

\* While a report is sent, an event in the buffers is in the report or came too late.
Kept ==
  /\ DOMAIN history = {"late", "lost", "refused", "told", "disturbed"}
  /\ Lte => history.lost \subseteq history.late
  /\ report # NoReport => Pending \subseteq Numbers(report) \cup history.late

LEMMA KeptInit == Init => Kept
<1> SUFFICES ASSUME Init PROVE Kept
  OBVIOUS
<1> QED
  BY DEF Init, Kept

LEMMA KeptSame ==
  ASSUME Kept, UNCHANGED <<setting, events, report>>,
         UNCHANGED history \/ \E x : history' = [history EXCEPT !.disturbed = x]
  PROVE  Kept'
BY DEF Kept, Lte, Pending, Numbers

LEMMA RecordAdds ==
  ASSUME Typed, NEW source \in Sources, NEW news \in Seq(News), Record(source, news)
  PROVE  Pending' \subseteq Pending \cup (recorded + 1)..recorded'
<1> DEFINE taken == IF Len(news) < Room(source) THEN Len(news) ELSE Room(source)
           added == [i \in 1..taken |-> <<recorded + i, news[i][1], news[i][2]>>]
<1>1. events[source] \in Seq(Event) /\ Len(events[source]) \in Nat
        /\ Len(events[source]) <= EventRoom /\ Len(news) \in Nat /\ recorded \in Nat
        /\ events \in [Sources -> Seq(Event)]
  BY DEF Typed, EventsTyped
<1>2. taken \in Nat
  BY <1>1, Rooms DEF Room
<1>3. recorded' = recorded + taken
        /\ events' = [events EXCEPT ![source] = events[source] \o added]
  BY DEF Record
<1> HIDE DEF taken
<1>4. added \in Seq({<<recorded + i, news[i][1], news[i][2]>> : i \in 1..taken})
        /\ Len(added) = taken
  BY <1>2
<1>5. \A i \in DOMAIN added : added[i][1] \in (recorded + 1)..recorded'
  BY <1>1, <1>2, <1>3
<1> HIDE DEF added
<1> SUFFICES ASSUME NEW s \in Sources, NEW i \in DOMAIN events'[s]
             PROVE  events'[s][i][1] \in Pending \cup (recorded + 1)..recorded'
  BY DEF Pending, Numbers
<1>6. CASE s # source
  BY <1>1, <1>3, <1>6 DEF Pending, Numbers
<1>7. CASE s = source /\ i \in DOMAIN events[source]
  <2>1. events'[s][i] = events[s][i]
    BY <1>1, <1>3, <1>4, <1>7
  <2> QED
    BY <1>7, <2>1 DEF Pending, Numbers
<1>8. CASE s = source /\ i \notin DOMAIN events[source]
  <2>1. i - Len(events[source]) \in DOMAIN added
          /\ events'[s][i] = added[i - Len(events[source])]
    BY <1>1, <1>2, <1>3, <1>4, <1>8
  <2> QED
    BY <1>5, <2>1
<1> QED
  BY <1>6, <1>7, <1>8

LEMMA KeptRecord ==
  ASSUME Typed, Kept, NEW source \in Sources, NEW news \in Seq(News),
         Record(source, news), UNCHANGED <<setting, report>>
  PROVE  Kept'
<1>1. Pending' \subseteq Pending \cup (recorded + 1)..recorded'
  BY RecordAdds
<1>2. /\ DOMAIN history' = DOMAIN history
      /\ history'.lost = history.lost
      /\ history'.late = IF report = NoReport THEN history.late
                         ELSE history.late \cup (recorded + 1)..recorded'
  BY DEF Record, Kept
<1>3. Numbers(report') = Numbers(report)
  OBVIOUS
<1> QED
  BY <1>1, <1>2, <1>3 DEF Kept, Lte

LEMMA KeptStep == Typed /\ Kept /\ [Next]_vars => Kept'
<1> SUFFICES ASSUME Typed, Kept, [Next]_vars PROVE Kept'
  OBVIOUS
<1>1. CASE app_sensor_hygro_sample
  <2>1. UNCHANGED <<setting, report>>
    BY <1>1 DEF app_sensor_hygro_sample
  <2>2. UNCHANGED <<events, history>> \/ \E t : Record("hygro", Changes(t))
    BY <1>1 DEF app_sensor_hygro_sample
  <2> QED
    BY <2>1, <2>2, KeptSame, KeptRecord, ChangesAreNews DEF Sources
<1>2. CASE Sample /\ ~app_sensor_hygro_sample
  BY <1>2, PlainSamples, KeptSame DEF NoEvents
<1>3. CASE Aggreg
  BY <1>3, PlainAggregations, KeptSame DEF Aggregates, RadonSilent
<1>4. CASE HandleEvent
  <2>1. handler[1] \in Sources /\ <<<<handler[2], handler[3]>>>> \in Seq(News)
    BY <1>4 DEF HandleEvent, Typed, EventsTyped, Sources, News
  <2> QED
    BY <1>4, <2>1, KeptRecord DEF HandleEvent
<1>5. CASE SendLte
  <2>1. UNCHANGED <<setting, events, history>> /\ report' \in {events, NoReport}
    BY <1>5 DEF SendLte, Reported, data
  <2> QED
    BY <2>1 DEF Kept, Lte, Pending, Numbers
<1>6. CASE SendOk
  BY <1>6 DEF SendOk, Kept, Lte
<1>7. CASE SendFails
  <2>1. UNCHANGED <<setting, events>> /\ report # NoReport /\ report' = NoReport
    BY <1>7 DEF SendFails, Keep, data
  <2>2. history' = [history EXCEPT !.lost = @ \cup (Pending \ Numbers(events))]
    BY <1>7, <2>1 DEF SendFails
  <2> QED
    BY <2>1, <2>2 DEF Kept, Lte, Pending
<1>8. CASE SendLrw
  BY <1>8 DEF SendLrw, Starts, Kept, Lte
<1>9. CASE BackupWork \/ SendTimer \/ StartDelay \/ Interrupts \/ Others
  BY <1>9, KeptSame
     DEF BackupWork, SendTimer, StartDelay, Interrupts, SampleTimers, AggregTimers, HourEnds,
         DelayExpires, Others, LineEvent, TamperEvent, Press, Click, data
<1>10. CASE UNCHANGED vars
  BY <1>10, KeptSame DEF vars, data
<1> QED
  BY <1>1, <1>2, <1>3, <1>4, <1>5, <1>6, <1>7, <1>8, <1>9, <1>10
     DEF Next, AppWork, SendReturns

\* Over LTE send_work_handler() clears the buffers of events whatever the report had, after
\* the mutex was free during ctr_cloud_send_data(): an event that is forgotten without a
\* report was recorded in that time, none is lost by a send that fails.
THEOREM LostWasLate == Spec => []OnlyLateEventsLost
<1>1. Kept => OnlyLateEventsLost
  BY DEF Kept, OnlyLateEventsLost
<1> QED
  BY <1>1, TypedInit, TypedStep, KeptInit, KeptStep, PTL DEF Spec

-----------------------------------------------------------------------------
(* What the cloud knows of the alarms *)

\* The alarms whose report is configured.
Watched == Alarms \cap setting.reports

\* The last event of an alarm that waits says whether it is on; when none waits the cloud
\* knows it already.
Logged(a) ==
  LET log == events["hygro"]
  IN \/ /\ \A i \in DOMAIN log : log[i][2] # a
        /\ a \in history.told <=> a \in alarms
     \/ \E i \in DOMAIN log : /\ log[i][2] = a
                             /\ log[i][3] = (a \in alarms)
                             /\ \A j \in DOMAIN log : log[j][2] = a => j <= i

Known ==
  /\ DOMAIN history = {"late", "lost", "refused", "told", "disturbed"}
  /\ history.told \subseteq Alarms
  /\ report # NoReport => report["hygro"] = events["hygro"]
  /\ Lte => \A a \in Watched \ history.refused : Logged(a)

LEMMA KnownInit == Init => Known
<1> SUFFICES ASSUME Init PROVE Known
  OBVIOUS
<1>1. history = [late |-> {}, lost |-> {}, refused |-> {}, told |-> {}, disturbed |-> FALSE]
        /\ events["hygro"] = <<>> /\ alarms = {} /\ report = NoReport
  BY DEF Init, Sources
<1>2. \A a \in Watched : Logged(a)
  BY <1>1 DEF Logged
<1> QED
  BY <1>1, <1>2 DEF Known

LEMMA KnownSame ==
  ASSUME Known, UNCHANGED <<setting, alarms, report>>, events'["hygro"] = events["hygro"],
         DOMAIN history' = DOMAIN history, history'.told = history.told,
         history'.refused \cap Alarms = history.refused \cap Alarms
  PROVE  Known'
BY DEF Known, Logged, Lte, Watched

LEMMA Concatenation ==
  ASSUME NEW S, NEW u \in Seq(S), NEW v \in Seq(S)
  PROVE  /\ DOMAIN (u \o v) = 1..(Len(u) + Len(v))
         /\ \A i \in 1..Len(u) : (u \o v)[i] = u[i]
         /\ \A i \in (Len(u) + 1)..(Len(u) + Len(v)) : (u \o v)[i] = v[i - Len(u)]
  OBVIOUS

\* A sample has one event for each of these alarms that changes, and none for the others.
LEMMA OneChange ==
  ASSUME NEW t, NEW a \in Watched
  PROVE  \/ /\ AlarmOn(a, t) = (a \in alarms)
            /\ \A i \in DOMAIN Changes(t) : Changes(t)[i][1] # a
         \/ \E i \in DOMAIN Changes(t) :
              /\ Changes(t)[i] = <<a, AlarmOn(a, t)>>
              /\ \A j \in DOMAIN Changes(t) : Changes(t)[j][1] = a => j <= i
<1> DEFINE hi == <<"hi", AlarmOn("hi", t)>>
           lo == <<"lo", AlarmOn("lo", t)>>
<1>1. /\ hi[1] = "hi" /\ lo[1] = "lo" /\ a \in {"hi", "lo"}
      /\ a \in setting.reports
      /\ a = "hi" => hi = <<a, AlarmOn(a, t)>>
      /\ a = "lo" => lo = <<a, AlarmOn(a, t)>>
  BY DEF Watched, Alarms
<1> HIDE DEF hi, lo
<1>2. CASE Change("hi", t) = <<>> /\ Change("lo", t) = <<>>
  <2>1. DOMAIN Changes(t) = {}
    BY <1>2 DEF Changes
  <2>2. AlarmOn(a, t) = (a \in alarms)
    BY <1>1, <1>2 DEF Change
  <2> QED
    BY <2>1, <2>2
<1>3. CASE Change("hi", t) = <<hi>> /\ Change("lo", t) = <<>>
  <2>1. DOMAIN Changes(t) = 1..1 /\ Changes(t)[1] = hi
    <3>1. <<hi>> \in Seq({hi}) /\ <<>> \in Seq({hi}) /\ Len(<<hi>>) = 1 /\ Len(<<>>) = 0
      OBVIOUS
    <3>2. DOMAIN (<<hi>> \o <<>>) = 1..(Len(<<hi>>) + Len(<<>>))
            /\ \A i \in 1..Len(<<hi>>) : (<<hi>> \o <<>>)[i] = <<hi>>[i]
      BY <3>1, Concatenation
    <3>3. Changes(t) = <<hi>> \o <<>>
      BY <1>3 DEF Changes
    <3> QED
      BY <3>1, <3>2, <3>3
  <2>2. a = "lo" => AlarmOn(a, t) = (a \in alarms)
    BY <1>1, <1>3 DEF Change
  <2> QED
    BY <1>1, <2>1, <2>2
<1>4. CASE Change("hi", t) = <<>> /\ Change("lo", t) = <<lo>>
  <2>1. DOMAIN Changes(t) = 1..1 /\ Changes(t)[1] = lo
    <3>1. <<lo>> \in Seq({lo}) /\ <<>> \in Seq({lo}) /\ Len(<<lo>>) = 1 /\ Len(<<>>) = 0
      OBVIOUS
    <3>2. DOMAIN (<<>> \o <<lo>>) = 1..(Len(<<>>) + Len(<<lo>>))
            /\ \A i \in (Len(<<>>) + 1)..(Len(<<>>) + Len(<<lo>>)) :
                 (<<>> \o <<lo>>)[i] = <<lo>>[i - Len(<<>>)]
      BY <3>1, Concatenation
    <3>3. Changes(t) = <<>> \o <<lo>>
      BY <1>4 DEF Changes
    <3> QED
      BY <3>1, <3>2, <3>3
  <2>2. a = "hi" => AlarmOn(a, t) = (a \in alarms)
    BY <1>1, <1>4 DEF Change
  <2> QED
    BY <1>1, <2>1, <2>2
<1>5. CASE Change("hi", t) = <<hi>> /\ Change("lo", t) = <<lo>>
  <2>1. DOMAIN Changes(t) = 1..2 /\ Changes(t)[1] = hi /\ Changes(t)[2] = lo
    <3>1. /\ <<hi>> \in Seq({hi, lo}) /\ <<lo>> \in Seq({hi, lo})
          /\ Len(<<hi>>) = 1 /\ Len(<<lo>>) = 1
      OBVIOUS
    <3> QED
      BY <1>5, <3>1, Concatenation DEF Changes
  <2> QED
    BY <1>1, <2>1
<1> QED
  BY <1>2, <1>3, <1>4, <1>5 DEF Change, hi, lo

\* The log after a sample of an alarm whose last change had room.
LEMMA LoggedSample ==
  ASSUME Typed, Known, Lte, NEW t, Record("hygro", Changes(t)),
         alarms' = {b \in Alarms : AlarmOn(b, t)},
         NEW a \in Watched, a \notin history'.refused
  PROVE  Logged(a)'
<1> DEFINE log   == events["hygro"]
           news  == Changes(t)
           taken == IF Len(news) < Room("hygro") THEN Len(news) ELSE Room("hygro")
           added == [i \in 1..taken |-> <<recorded + i, news[i][1], news[i][2]>>]
<1>1. /\ events \in [Sources -> Seq(Event)] /\ log \in Seq(Event) /\ Len(log) \in Nat
      /\ Len(log) <= EventRoom /\ news \in Seq(News) /\ Len(news) \in Nat
  BY ChangesAreNews DEF Typed, EventsTyped, Sources
<1>2. taken \in Nat /\ taken <= Len(news)
  BY <1>1, Rooms DEF Room
<1>3. /\ events'["hygro"] = log \o added
      /\ history'.refused = (history.refused \ {news[i][1] : i \in 1..taken})
                               \cup {news[i][1] : i \in (taken + 1)..Len(news)}
      /\ history'.told = history.told
  BY <1>1 DEF Record, Known, Sources
<1> HIDE DEF news, taken
<1>4. /\ \A i \in DOMAIN news : news[i][1] = a => i \in 1..taken
      /\ (\A i \in DOMAIN news : news[i][1] # a) => a \notin history.refused
  <2>1. \A i \in DOMAIN news : i \in 1..taken \/ i \in (taken + 1)..Len(news)
    <3>1. DOMAIN news = 1..Len(news)
      BY <1>1
    <3> QED
      BY <1>1, <1>2, <3>1
  <2>2. \A i \in 1..taken : i \in DOMAIN news
    BY <1>1, <1>2
  <2>3. \A i \in (taken + 1)..Len(news) : news[i][1] # a
    BY <1>3
  <2>4. a \in history.refused => \E i \in 1..taken : news[i][1] = a
    BY <1>3
  <2> QED
    BY <2>1, <2>2, <2>3, <2>4
<1>5. /\ added \in Seq({<<recorded + i, news[i][1], news[i][2]>> : i \in 1..taken})
      /\ Len(added) = taken
  BY <1>2
<1>6. \A i \in 1..taken : /\ i \in DOMAIN news /\ i \in DOMAIN added
                          /\ added[i][2] = news[i][1] /\ added[i][3] = news[i][2]
  BY <1>1, <1>2
<1>7. DOMAIN added = 1..taken
  BY <1>1, <1>2
<1> HIDE DEF added, log
<1>8. DOMAIN (log \o added) = 1..(Len(log) + taken)
        /\ \A i \in 1..(Len(log) + taken) :
             (log \o added)[i] = IF i <= Len(log) THEN log[i] ELSE added[i - Len(log)]
  <2> DEFINE S == Event \cup {<<recorded + i, news[i][1], news[i][2]>> : i \in 1..taken}
  <2>1. log \in Seq(S) /\ added \in Seq(S)
    BY <1>1, <1>5
  <2> HIDE DEF S
  <2>2. DOMAIN (log \o added) = 1..(Len(log) + Len(added))
    BY <2>1, Concatenation
  <2>3. \A i \in 1..Len(log) : (log \o added)[i] = log[i]
    BY <2>1, Concatenation
  <2>4. \A i \in (Len(log) + 1)..(Len(log) + Len(added)) : (log \o added)[i] = added[i - Len(log)]
    BY <2>1, Concatenation
  <2> QED
    BY <1>1, <1>5, <2>2, <2>3, <2>4
<1>9. Logged(a)'
  <2> DEFINE after == log \o added
  <2>1. a \in Alarms
    BY DEF Watched
  <2>2. (a \in alarms') = AlarmOn(a, t)
    <3>1. AlarmOn(a, t) \in BOOLEAN
      BY Zenon DEF AlarmOn
    <3>2. a \in alarms' <=> AlarmOn(a, t)
      BY <2>1
    <3> QED
      BY <3>1, <3>2
  <2>3. CASE /\ AlarmOn(a, t) = (a \in alarms)
             /\ \A i \in DOMAIN news : news[i][1] # a
    <3>1. \A i \in DOMAIN after : i \notin DOMAIN log => after[i][2] # a
      <4> SUFFICES ASSUME NEW i \in DOMAIN after, i \notin DOMAIN log
                   PROVE  after[i][2] # a
        OBVIOUS
      <4>1. i - Len(log) \in 1..taken /\ after[i] = added[i - Len(log)]
        BY <1>1, <1>2, <1>8
      <4> QED
        BY <1>6, <2>3, <4>1
    <3>2. \A i \in DOMAIN log : i \in DOMAIN after /\ after[i] = log[i]
      BY <1>1, <1>2, <1>8
    <3>3. (a \in alarms') = (a \in alarms)
      BY <2>2, <2>3
    <3>4. CASE /\ \A i \in DOMAIN log : log[i][2] # a
               /\ a \in history.told <=> a \in alarms
      <4>1. \A i \in DOMAIN after : after[i][2] # a
        BY <3>1, <3>2, <3>4
      <4> QED
        BY <1>3, <3>3, <3>4, <4>1 DEF Logged
    <3>5. ASSUME NEW i \in DOMAIN log, log[i][2] = a, log[i][3] = (a \in alarms),
                 \A j \in DOMAIN log : log[j][2] = a => j <= i
          PROVE  Logged(a)'
      <4>1. i \in DOMAIN after /\ after[i][2] = a /\ after[i][3] = (a \in alarms')
        BY <3>2, <3>3, <3>5
      <4>2. \A j \in DOMAIN after : after[j][2] = a => j <= i
        BY <3>1, <3>2, <3>5
      <4> QED
        BY <1>3, <4>1, <4>2 DEF Logged
    <3>6. Logged(a)
      BY <1>4, <2>3 DEF Known
    <3> QED
      BY <3>4, <3>5, <3>6 DEF Logged, log
  <2>4. ASSUME NEW i \in DOMAIN news, news[i] = <<a, AlarmOn(a, t)>>,
               \A j \in DOMAIN news : news[j][1] = a => j <= i
        PROVE  Logged(a)'
    <3>0. i \in 1..taken
      BY <1>4, <2>4
    <3>1. /\ Len(log) + i \in DOMAIN after
          /\ after[Len(log) + i] = added[i]
      BY <1>1, <1>2, <1>8, <3>0
    <3>2. after[Len(log) + i][2] = a /\ after[Len(log) + i][3] = (a \in alarms')
      BY <1>6, <2>2, <2>4, <3>0, <3>1
    <3>3. \A j \in DOMAIN after : after[j][2] = a => j <= Len(log) + i
      <4> SUFFICES ASSUME NEW j \in DOMAIN after, after[j][2] = a, ~(j <= Len(log) + i)
                   PROVE  FALSE
        OBVIOUS
      <4>1. j - Len(log) \in 1..taken /\ after[j] = added[j - Len(log)]
              /\ ~(j - Len(log) <= i)
        BY <1>1, <1>2, <1>8, <3>0
      <4> QED
        BY <1>6, <2>4, <4>1
    <3> QED
      BY <1>3, <3>1, <3>2, <3>3 DEF Logged
  <2> QED
    BY <2>3, <2>4, OneChange DEF news
<1> QED
  BY <1>9

LEMMA KnownSample == Typed /\ Known /\ app_sensor_hygro_sample => Known'
<1> SUFFICES ASSUME Typed, Known, app_sensor_hygro_sample PROVE Known'
  OBVIOUS
<1>1. report = NoReport /\ UNCHANGED <<setting, report>>
  BY DEF app_sensor_hygro_sample, Starts
<1>2. CASE Reached("hygro", samples, SampleRoom) = {}
  BY <1>1, <1>2, KnownSame DEF app_sensor_hygro_sample
<1>3. CASE Reached("hygro", samples, SampleRoom) # {}
  <2>1. PICK t : Record("hygro", Changes(t)) /\ alarms' = {a \in Alarms : AlarmOn(a, t)}
    BY <1>3 DEF app_sensor_hygro_sample
  <2>2. DOMAIN history' = DOMAIN history /\ history'.told = history.told
    BY <2>1 DEF Record, Known
  <2>3. Lte' => \A a \in Watched' \ history'.refused : Logged(a)'
    BY <1>1, <2>1, LoggedSample DEF Lte, Watched
  <2> QED
    BY <1>1, <2>2, <2>3 DEF Known
<1> QED
  BY <1>2, <1>3

LEMMA KnownEvent == Typed /\ Known /\ HandleEvent => Known'
<1> SUFFICES ASSUME Typed, Known, HandleEvent PROVE Known'
  OBVIOUS
<1>1. UNCHANGED <<setting, alarms, report>>
  BY DEF HandleEvent
<1>2. handler[1] \in {"backup", "tamper"} /\ handler[2] \notin Alarms
        /\ events \in [Sources -> Seq(Event)]
  BY DEF HandleEvent, Typed, EventsTyped, Alarms
<1> DEFINE news == <<<<handler[2], handler[3]>>>>
<1>3. Record(handler[1], news)
  BY DEF HandleEvent
<1>4. Len(news) = 1 /\ news[1][1] = handler[2]
  OBVIOUS
<1> HIDE DEF news
<1> DEFINE taken == IF Len(news) < Room(handler[1]) THEN Len(news) ELSE Room(handler[1])
<1>5. /\ events'["hygro"] = events["hygro"]
      /\ DOMAIN history' = DOMAIN history /\ history'.told = history.told
      /\ history'.refused = (history.refused \ {news[i][1] : i \in 1..taken})
                               \cup {news[i][1] : i \in (taken + 1)..Len(news)}
  BY <1>2, <1>3 DEF Record, Known, Sources
<1>6. taken \in Nat /\ taken <= 1
  <2>1. Len(events[handler[1]]) \in Nat /\ Len(events[handler[1]]) <= EventRoom
    BY <1>2 DEF Typed, EventsTyped, Sources
  <2> QED
    BY <1>4, <2>1, Rooms DEF Room
<1> HIDE DEF taken
<1>7. \A i \in 1..taken \cup (taken + 1)..Len(news) : i = 1
  BY <1>4, <1>6
<1>8. history'.refused \cap Alarms = history.refused \cap Alarms
  BY <1>2, <1>4, <1>5, <1>7
<1> QED
  BY <1>1, <1>5, <1>8, KnownSame

\* Told() takes the last event of the report, which is the last one of the log.
LEMMA ToldIsLogged ==
  ASSUME Known, Typed, report # NoReport, NEW a \in Alarms, Logged(a)
  PROVE  Told(a) <=> a \in alarms
<1> DEFINE last == {i \in DOMAIN report["hygro"] : report["hygro"][i][2] = a}
<1>1. report["hygro"] = events["hygro"] /\ DOMAIN events["hygro"] \subseteq Nat
  BY DEF Known, Typed, EventsTyped, Sources
<1>2. CASE last = {}
  <2>1. a \in history.told <=> a \in alarms
    BY <1>1, <1>2 DEF Logged
  <2> QED
    BY <1>2, <2>1 DEF Told
<1>3. CASE last # {}
  <2>1. PICK i \in last : /\ report["hygro"][i][3] = (a \in alarms)
                          /\ \A j \in last : j <= i
    BY <1>1, <1>3 DEF Logged
  <2> DEFINE top == CHOOSE k \in last : \A j \in last : j <= k
  <2>2. top \in last /\ \A j \in last : j <= top
    BY <2>1
  <2>3. top = i
    BY <1>1, <2>1, <2>2
  <2>4. Told(a) = report["hygro"][top][3]
    BY <1>3 DEF Told
  <2> QED
    BY <2>1, <2>3, <2>4
<1> QED
  BY <1>2, <1>3

LEMMA KnownSend == Typed /\ Known /\ (SendLte \/ SendLrw \/ SendReturns) => Known'
<1> SUFFICES ASSUME Typed, Known, SendLte \/ SendLrw \/ SendReturns PROVE Known'
  OBVIOUS
<1>1. CASE SendLte
  <2>1. UNCHANGED <<setting, events, alarms, history>> /\ report' \in {events, NoReport}
    BY <1>1 DEF SendLte, Reported, data
  <2> QED
    BY <2>1 DEF Known, Logged, Lte, Watched
<1>2. CASE SendLrw
  <2>1. ~Lte' /\ report' = NoReport
    BY <1>2 DEF SendLrw, Starts, Lte
  <2>2. DOMAIN history' = DOMAIN history /\ history'.told = history.told
    BY <1>2 DEF SendLrw, Known
  <2> QED
    BY <2>1, <2>2 DEF Known
<1>3. CASE SendOk
  <2>1. /\ events'["hygro"] = <<>> /\ alarms' = alarms /\ setting' = setting
        /\ report # NoReport /\ report' = NoReport
    BY <1>3 DEF SendOk, Clear, Sources
  <2>2. /\ DOMAIN history' = DOMAIN history /\ history'.refused = history.refused
        /\ history'.told = {a \in Alarms : Told(a)}
    BY <1>3 DEF SendOk, Known
  <2>3. ASSUME Lte, NEW a \in Watched \ history.refused PROVE Logged(a)'
    <3>1. Told(a) <=> a \in alarms
      BY <2>1, <2>3, ToldIsLogged DEF Known, Watched
    <3>2. a \in history'.told <=> a \in alarms'
      BY <2>1, <2>2, <2>3, <3>1 DEF Watched
    <3> QED
      BY <2>1, <3>2 DEF Logged
  <2> QED
    BY <2>1, <2>2, <2>3 DEF Known, Lte, Watched
<1>4. CASE SendFails
  <2>1. UNCHANGED <<setting, events, alarms>> /\ report' = NoReport
    BY <1>4 DEF SendFails, Keep, data
  <2>2. /\ DOMAIN history' = DOMAIN history /\ history'.refused = history.refused
        /\ history'.told = history.told
    BY <1>4 DEF SendFails, Known
  <2> QED
    BY <2>1, <2>2 DEF Known, Logged, Lte, Watched
<1> QED
  BY <1>1, <1>2, <1>3, <1>4 DEF SendReturns

LEMMA KnownStep == Typed /\ Known /\ [Next]_vars => Known'
<1> SUFFICES ASSUME Typed, Known, [Next]_vars PROVE Known'
  OBVIOUS
<1> DEFINE quiet == UNCHANGED <<setting, events, alarms, report>>
                    /\ (UNCHANGED history \/ \E x : history' = [history EXCEPT !.disturbed = x])
<1>1. CASE quiet
  <2>1. /\ DOMAIN history' = DOMAIN history /\ history'.refused = history.refused
        /\ history'.told = history.told
    BY <1>1 DEF Known
  <2> QED
    BY <1>1, <2>1, KnownSame
<1>2. CASE Sample /\ ~app_sensor_hygro_sample
  BY <1>1, <1>2, PlainSamples DEF NoEvents
<1>3. CASE Aggreg
  BY <1>1, <1>3, PlainAggregations DEF Aggregates, RadonSilent
<1>4. CASE BackupWork \/ SendTimer \/ StartDelay \/ Interrupts \/ Others
  BY <1>1, <1>4
     DEF BackupWork, SendTimer, StartDelay, Interrupts, SampleTimers, AggregTimers, HourEnds,
         DelayExpires, Others, LineEvent, TamperEvent, Press, Click, data
<1>5. CASE UNCHANGED vars
  BY <1>1, <1>5 DEF vars, data
<1> QED
  BY <1>2, <1>3, <1>4, <1>5, KnownSample, KnownEvent, KnownSend DEF Next, AppWork

\* Over LTE, when no alarm event waits, the cloud knows whether an alarm is on whose report
\* is configured and whose last change found room in the buffer:
\* check_hygro_temperature() records each change of it once, and send_work_handler()
\* clears the events only after a report with all of them arrived.
THEOREM CloudKnowsAlarms == Spec => []AlarmsKnown
<1>1. Typed /\ Known => AlarmsKnown
  BY DEF AlarmsKnown, Known, Logged, Watched
<1> QED
  BY <1>1, TypedInit, TypedStep, KnownInit, KnownStep, PTL DEF Spec

-----------------------------------------------------------------------------
(* The queue of app_work *)

Work == ({"sample", "aggreg"} \X Kinds) \cup {<<"backup">>, <<"send">>}

\* No work waits twice: a second aggregation of one period would add a measurement.
Queued(q) ==
  /\ q \in Seq(Work)
  /\ \A i, j \in 1..Len(q) : q[i] = q[j] => i = j

LEMMA Submitted ==
  ASSUME NEW q, Queued(q), NEW work \in Work
  PROVE  Queued(Submit(q, work)) /\ Waiting(Submit(q, work)) = Waiting(q) \cup {work}
<1>1. CASE work \in Waiting(q)
  BY <1>1 DEF Submit
<1>2. CASE work \notin Waiting(q)
  <2> DEFINE r == Append(q, work)
  <2>1. /\ r \in Seq(Work) /\ Len(r) = Len(q) + 1 /\ Len(q) \in Nat
        /\ DOMAIN q = 1..Len(q) /\ DOMAIN r = 1..Len(r)
        /\ r[Len(q) + 1] = work /\ \A n \in 1..Len(q) : r[n] = q[n]
    BY DEF Queued
  <2>2. Submit(q, work) = r
    BY <1>2 DEF Submit
  <2> HIDE DEF r
  <2>3. 1..Len(r) = (1..Len(q)) \cup {Len(q) + 1}
    BY <2>1
  <2>4. Waiting(r) = Waiting(q) \cup {work}
    BY <2>1, <2>3 DEF Waiting
  <2>5. \A n \in 1..Len(q) : r[n] # work
    BY <1>2, <2>1 DEF Waiting
  <2>6. \A i, j \in 1..Len(r) : r[i] = r[j] => i = j
    BY <2>1, <2>3, <2>5 DEF Queued
  <2> QED
    BY <2>1, <2>2, <2>4, <2>6 DEF Queued
<1> QED
  BY <1>1, <1>2

LEMMA Begun ==
  ASSUME NEW q, Queued(q), q # <<>>
  PROVE  /\ Queued(Tail(q)) /\ Head(q) \in Work /\ Head(q) \in Waiting(q)
         /\ Waiting(Tail(q)) = Waiting(q) \ {Head(q)}
<1>1. /\ Tail(q) \in Seq(Work) /\ Len(Tail(q)) = Len(q) - 1 /\ Len(q) \in Nat /\ Len(q) # 0
      /\ \A n \in 1..Len(Tail(q)) : Tail(q)[n] = q[n + 1]
      /\ Head(q) = q[1] /\ q[1] \in Work
      /\ DOMAIN q = 1..Len(q) /\ DOMAIN Tail(q) = 1..Len(Tail(q))
  BY DEF Queued
<1>2. \A n \in 1..Len(Tail(q)) : n + 1 \in 1..Len(q) /\ n + 1 # 1
  BY <1>1
<1>3. \A i, j \in 1..Len(Tail(q)) : Tail(q)[i] = Tail(q)[j] => i = j
  <2> SUFFICES ASSUME NEW i \in 1..Len(Tail(q)), NEW j \in 1..Len(Tail(q)),
                      Tail(q)[i] = Tail(q)[j]
               PROVE  i = j
    OBVIOUS
  <2>1. i + 1 = j + 1
    BY <1>1, <1>2 DEF Queued
  <2> QED
    BY <1>1, <2>1
<1>4. Waiting(Tail(q)) \subseteq Waiting(q) \ {Head(q)}
  <2> SUFFICES ASSUME NEW n \in 1..Len(Tail(q))
               PROVE  Tail(q)[n] \in Waiting(q) /\ Tail(q)[n] # Head(q)
    BY <1>1 DEF Waiting
  <2>1. n + 1 \in 1..Len(q) /\ 1 \in 1..Len(q) /\ n + 1 # 1
    BY <1>1, <1>2
  <2>2. q[n + 1] # q[1]
    BY <2>1 DEF Queued
  <2> QED
    BY <1>1, <2>1, <2>2 DEF Waiting
<1>5. Waiting(q) \ {Head(q)} \subseteq Waiting(Tail(q))
  <2> SUFFICES ASSUME NEW n \in 1..Len(q), q[n] # Head(q) PROVE q[n] \in Waiting(Tail(q))
    BY <1>1 DEF Waiting
  <2>1. n # 1
    BY <1>1
  <2>2. n - 1 \in 1..Len(Tail(q)) /\ (n - 1) + 1 = n
    BY <1>1, <2>1
  <2> QED
    BY <1>1, <2>2 DEF Waiting
<1>6. Head(q) \in Waiting(q)
  <2>1. 1 \in 1..Len(q)
    BY <1>1
  <2> QED
    BY <1>1, <2>1 DEF Waiting
<1> QED
  BY <1>1, <1>3, <1>4, <1>5, <1>6 DEF Queued

\* The recursion of SubmitAll() has a solution.
Submission(f, q, what, kinds) ==
  f = [n \in 0..9 |->
         IF n = 0 THEN q
         ELSE IF Order[n] \in kinds THEN Submit(f[n - 1], <<what, Order[n]>>)
         ELSE f[n - 1]]

LEMMA SubmissionExists ==
  ASSUME NEW q, NEW what, NEW kinds
  PROVE  \E f : Submission(f, q, what, kinds)
<1> DEFINE Step(f, n) == IF n = 0 THEN q
                         ELSE IF Order[n] \in kinds THEN Submit(f[n - 1], <<what, Order[n]>>)
                         ELSE f[n - 1]
           Solves(f, m) == f = [n \in 0..m |-> Step(f, n)]
           Solved(m) == \E f : Solves(f, m)
<1>1. Solves([n \in 0..0 |-> q], 0)
  OBVIOUS
<1>2. ASSUME NEW m \in Nat, m # 0, Solved(m - 1) PROVE Solved(m)
  <2>1. PICK f : Solves(f, m - 1)
    BY <1>2
  <2> DEFINE g == [n \in 0..m |-> IF n = m THEN Step(f, m) ELSE f[n]]
  <2>2. \A n \in 0..m : g[n] = Step(g, n)
    <3> SUFFICES ASSUME NEW n \in 0..m PROVE g[n] = Step(g, n)
      OBVIOUS
    <3>1. n # 0 => n - 1 \in 0..m /\ n - 1 # m /\ g[n - 1] = f[n - 1]
      BY <1>2
    <3>2. Step(g, n) = Step(f, n)
      BY <3>1
    <3>3. n # m => n \in 0..(m - 1)
      BY <1>2
    <3>4. n # m => f[n] = Step(f, n)
      BY <2>1, <3>3
    <3> QED
      BY <3>2, <3>4
  <2>3. Solves(g, m)
    <3> HIDE DEF Step
    <3>1. g = [n \in 0..m |-> g[n]]
      OBVIOUS
    <3> HIDE DEF g
    <3>2. [n \in 0..m |-> g[n]] = [n \in 0..m |-> Step(g, n)]
      BY <2>2
    <3> QED
      BY <3>1, <3>2
  <2> QED
    BY <2>3
<1>3. Solved(0)
  BY <1>1
<1> HIDE DEF Solved
<1>4. Solved(1) /\ Solved(2) /\ Solved(3)
  BY <1>2, <1>3
<1>5. Solved(4) /\ Solved(5) /\ Solved(6)
  BY <1>2, <1>4
<1>6. Solved(7) /\ Solved(8) /\ Solved(9)
  BY <1>2, <1>5
<1> QED
  BY <1>6 DEF Solved, Submission

\* Every kind has its place in the order of app_work_init(): the works of all the kinds
\* are submitted, and nothing else.
LEMMA SubmittedAll ==
  ASSUME NEW q, Queued(q), NEW what \in {"sample", "aggreg"}, NEW kinds \in SUBSET Kinds
  PROVE  /\ Queued(SubmitAll(q, what, kinds))
         /\ Waiting(SubmitAll(q, what, kinds)) = Waiting(q) \cup {<<what, k>> : k \in kinds}
<1> DEFINE submitted == CHOOSE f : Submission(f, q, what, kinds)
           Works(n) == {<<what, k>> : k \in {Order[i] : i \in 1..n} \cap kinds}
           Right(n) == /\ Queued(submitted[n])
                       /\ Waiting(submitted[n]) = Waiting(q) \cup Works(n)
<1>1. Len(Order) = 9
  BY DEF Order
<1>2. SubmitAll(q, what, kinds) = submitted[9]
  BY <1>1 DEF SubmitAll, Submission
<1>3. Submission(submitted, q, what, kinds)
  BY SubmissionExists, Zenon
<1> HIDE DEF submitted
<1>4. \A n \in 1..9 : Order[n] \in Kinds
  <2>1. \A n \in 1..9 : n = 1 \/ n = 2 \/ n = 3 \/ n = 4 \/ n = 5 \/ n = 6 \/ n = 7 \/ n = 8 \/ n = 9
    OBVIOUS
  <2> QED
    BY <2>1 DEF Order, Kinds, One, Many
<1>5. {Order[i] : i \in 1..9} = Kinds
  <2>1. /\ Order[1] = "iaq" /\ Order[2] = "hygro" /\ Order[3] = "w1_therm"
        /\ Order[4] = "rtd_therm" /\ Order[5] = "tc_therm" /\ Order[6] = "soil_sensor"
        /\ Order[7] = "sps30" /\ Order[8] = "ble_tag" /\ Order[9] = "radon"
    BY DEF Order
  <2>2. \A k \in Kinds : \E i \in 1..9 : k = Order[i]
    BY <2>1 DEF Kinds, One, Many
  <2> QED
    BY <1>4, <2>2
<1>6. Right(0)
  BY <1>3 DEF Submission
<1>7. ASSUME NEW n \in 1..9, Right(n - 1) PROVE Right(n)
  <2>1. n \in 0..9 /\ n # 0
    OBVIOUS
  <2>2. submitted[n] = IF Order[n] \in kinds THEN Submit(submitted[n - 1], <<what, Order[n]>>)
                       ELSE submitted[n - 1]
    BY <1>3, <2>1 DEF Submission
  <2>3. 1..n = (1..(n - 1)) \cup {n}
    OBVIOUS
  <2>4. CASE Order[n] \in kinds
    <3>1. <<what, Order[n]>> \in Work
      BY <1>4 DEF Work
    <3>2. Works(n) = Works(n - 1) \cup {<<what, Order[n]>>}
      BY <2>3, <2>4
    <3> HIDE DEF Works
    <3> QED
      BY <1>7, <2>2, <2>4, <3>1, <3>2, Submitted
  <2>5. CASE Order[n] \notin kinds
    <3>1. Works(n) = Works(n - 1)
      BY <2>3, <2>5
    <3> HIDE DEF Works
    <3> QED
      BY <1>7, <2>2, <2>5, <3>1
  <2> QED
    BY <2>4, <2>5
<1> HIDE DEF Right
<1>8. Right(9)
  <2>1. Right(1) /\ Right(2) /\ Right(3)
    BY <1>6, <1>7
  <2>2. Right(4) /\ Right(5) /\ Right(6)
    BY <1>7, <2>1
  <2>3. Right(7) /\ Right(8) /\ Right(9)
    BY <1>7, <2>2
  <2> QED
    BY <2>3
<1>9. Works(9) = {<<what, k>> : k \in kinds}
  BY <1>5
<1> QED
  BY <1>2, <1>8, <1>9 DEF Right

-----------------------------------------------------------------------------
(* The times of the measurements *)

Due(k) == <<"aggreg", k>> \in Waiting(m_work_q)

\* The sensors of a kind are measured together, so that the first measurement of one is
\* the first of all and stamps once.
Alike == \A s, t \in Sensors : s[1] = t[1] => measurements[s] = measurements[t]

\* A series that has room ends with this period, or with the last one as long as the
\* aggregation of this one waits; what is full grows no more.
Steady(s) ==
  LET n == Len(measurements[s])
      first == timestamp[s[1]]
  IN /\ \A i \in 1..n : measurements[s][i] = first + i - 1
     /\ 0 < n /\ n < MeasurementRoom => first + n = IF Due(s[1]) THEN now ELSE now + 1

\* A period that goes without measurement or a measurement on demand breaks the series
\* until all of them are cleared; the queue and the likeness of the series stay.
Regular ==
  /\ Queued(m_work_q)
  /\ Alike
  /\ DOMAIN history = {"late", "lost", "refused", "told", "disturbed"}
  /\ history.disturbed \in BOOLEAN
  /\ history.disturbed = FALSE => \A s \in Sensors : Steady(s)

LEMMA RegularInit == Init => Regular
<1> SUFFICES ASSUME Init PROVE Regular
  OBVIOUS
<1>1. m_work_q = <<>> /\ Queued(<<>>)
  BY DEF Init, Queued
<1>2. \A s \in Sensors : measurements[s] = <<>>
  BY DEF Init
<1>3. \A s \in Sensors : Len(measurements[s]) = 0
  BY <1>2
<1>4. \A s \in Sensors : Steady(s)
  BY <1>3 DEF Steady
<1>5. DOMAIN history = {"late", "lost", "refused", "told", "disturbed"}
        /\ history.disturbed \in BOOLEAN
  BY DEF Init
<1> QED
  BY <1>1, <1>2, <1>4, <1>5 DEF Regular, Alike

\* A step that leaves the series alone.
LEMMA RegularSame ==
  ASSUME Regular, setting' = setting, Queued(m_work_q'),
         \A s \in Sensors : measurements'[s] = measurements[s],
         DOMAIN history' = DOMAIN history, history'.disturbed \in BOOLEAN,
         history'.disturbed = FALSE =>
           /\ history.disturbed = FALSE /\ UNCHANGED <<timestamp, now>>
           /\ \A k : Due(k)' <=> Due(k)
  PROVE  Regular'
<1>1. Sensors' = Sensors
  BY SensorsKept
<1>2. Alike'
  BY <1>1 DEF Regular, Alike
<1>3. ASSUME history'.disturbed = FALSE, NEW s \in Sensors PROVE Steady(s)'
  <2>1. Steady(s) /\ measurements'[s] = measurements[s] /\ UNCHANGED <<timestamp, now>>
          /\ (Due(s[1])' <=> Due(s[1]))
    BY <1>3 DEF Regular
  <2> QED
    BY <2>1 DEF Steady
<1> QED
  BY <1>1, <1>2, <1>3 DEF Regular

\* A work that aggregates nothing leaves what is due.
LEMMA WorkBegins ==
  ASSUME Regular, NEW work, Starts(work)
  PROVE  /\ Queued(m_work_q')
         /\ Waiting(m_work_q') = Waiting(m_work_q) \ {work}
         /\ work \in Work /\ work \in Waiting(m_work_q)
         /\ work[1] # "aggreg" => \A k : Due(k)' <=> Due(k)
<1>1. m_work_q # <<>> /\ Head(m_work_q) = work /\ m_work_q' = Tail(m_work_q)
  BY DEF Starts
<1>2. /\ Queued(m_work_q') /\ work \in Work /\ work \in Waiting(m_work_q)
      /\ Waiting(m_work_q') = Waiting(m_work_q) \ {work}
  BY <1>1, Begun DEF Regular
<1>3. work[1] # "aggreg" => \A k : <<"aggreg", k>> # work
  OBVIOUS
<1> QED
  BY <1>2, <1>3 DEF Due

LEMMA WorkSubmitted ==
  ASSUME Regular, NEW work \in Work, work[1] # "aggreg",
         m_work_q' = Submit(m_work_q, work)
  PROVE  Queued(m_work_q') /\ \A k : Due(k)' <=> Due(k)
<1>1. Queued(m_work_q') /\ Waiting(m_work_q') = Waiting(m_work_q) \cup {work}
  BY Submitted DEF Regular
<1>2. \A k : <<"aggreg", k>> # work
  OBVIOUS
<1> QED
  BY <1>1, <1>2 DEF Due

\* The timers: samples are no aggregations, and every kind is aggregated once.
LEMMA WorksSubmitted ==
  ASSUME Typed, NEW q, Queued(q)
  PROVE  /\ setting.kinds \in SUBSET Kinds
         /\ LET r == SubmitAll(q, "sample", setting.kinds)
            IN /\ Queued(r)
               /\ \A k : <<"aggreg", k>> \in Waiting(r) <=> <<"aggreg", k>> \in Waiting(q)
         /\ LET r == SubmitAll(q, "aggreg", setting.kinds)
            IN Queued(r) /\ \A k \in setting.kinds : <<"aggreg", k>> \in Waiting(r)
         /\ Queued(ManualAggreg(ManualSample(q)))
         /\ ManualSample(q) = SubmitAll(q, "sample", setting.kinds)
<1>1. setting.kinds \in SUBSET Kinds /\ setting.kinds \ {"sps30"} \in SUBSET Kinds
  BY DEF Typed, RestTyped, Setting
<1>2. \A k : <<"aggreg", k>> \notin {<<"sample", l>> : l \in setting.kinds}
  OBVIOUS
<1>3. PICK r : r = SubmitAll(q, "sample", setting.kinds)
  OBVIOUS
<1>4. Queued(r) /\ Waiting(r) = Waiting(q) \cup {<<"sample", l>> : l \in setting.kinds}
  BY <1>1, <1>3, SubmittedAll
<1>5. PICK t : t = SubmitAll(q, "aggreg", setting.kinds)
  OBVIOUS
<1>6. Queued(t) /\ Waiting(t) = Waiting(q) \cup {<<"aggreg", l>> : l \in setting.kinds}
  BY <1>1, <1>5, SubmittedAll
<1>7. ManualSample(q) = r
  BY <1>3 DEF ManualSample
<1>8. Queued(SubmitAll(r, "aggreg", setting.kinds \ {"sps30"}))
  BY <1>1, <1>4, SubmittedAll
<1>9. Queued(ManualAggreg(ManualSample(q)))
  BY <1>7, <1>8 DEF ManualAggreg
<1> QED
  BY <1>1, <1>2, <1>3, <1>4, <1>5, <1>6, <1>7, <1>9

\* Either all the sensors of a kind get a measurement or none does.
LEMMA ReachedAlike ==
  ASSUME Typed, Alike, NEW s \in Sensors
  PROVE  /\ s[2] \in Reached(s[1], Taken, MeasurementRoom) <=> Len(measurements[s]) < MeasurementRoom
         /\ \A i \in Reached(s[1], Taken, MeasurementRoom) :
              measurements[<<s[1], i>>] = measurements[s] /\ Len(measurements[s]) < MeasurementRoom
         /\ s[1] \in setting.kinds
<1>0. PICK k \in setting.kinds : s \in {k} \X (1..Count(k))
  BY DEF Sensors
<1>1. PICK n \in 1..Count(k) : s = <<k, n>>
  BY <1>0
<1>2. Count(k) \in Nat
  BY Rooms DEF Count
<1>3. ASSUME NEW i \in 1..Count(k)
      PROVE  /\ measurements[<<k, i>>] = measurements[s]
             /\ Taken[<<k, i>>] = Len(measurements[s])
  <2>1. <<k, i>> \in Sensors
    BY DEF Sensors
  <2>2. measurements[<<k, i>>] = measurements[s]
    BY <1>1, <2>1 DEF Alike
  <2>3. <<k, i>> \in DOMAIN measurements
    BY <2>1 DEF Typed, SeriesTyped
  <2> QED
    BY <2>2, <2>3 DEF Taken
<1>4. \A i \in 1..Count(k) : i \in Reached(k, Taken, MeasurementRoom) <=>
                             Len(measurements[s]) < MeasurementRoom
  <2> SUFFICES ASSUME NEW i \in 1..Count(k)
               PROVE  (\A j \in 1..i : Taken[<<k, j>>] < MeasurementRoom) <=>
                      Len(measurements[s]) < MeasurementRoom
    BY DEF Reached
  <2>1. i \in 1..i /\ \A j \in 1..i : j \in 1..Count(k)
    BY <1>2
  <2> QED
    BY <1>3, <2>1
<1>5. Reached(k, Taken, MeasurementRoom) \subseteq 1..Count(k)
  BY DEF Reached
<1> QED
  BY <1>1, <1>3, <1>4, <1>5

LEMMA RegularMeasures ==
  ASSUME Typed, Regular, NEW k, Aggregates(k)
  PROVE  Regular'
<1> DEFINE reached == Reached(k, Taken, MeasurementRoom)
<1>1. /\ UNCHANGED <<setting, now, history>> /\ Measure(k, reached)
      /\ Sensors' = Sensors
  BY SensorsKept DEF Aggregates, AddMeasurements
<1>2. Queued(m_work_q') /\ Due(k) /\ ~Due(k)' /\ \A l : l # k => (Due(l)' <=> Due(l))
  <2>1. Starts(<<"aggreg", k>>)
    BY DEF Aggregates
  <2>2. \A l : l # k => <<"aggreg", l>> # <<"aggreg", k>>
    OBVIOUS
  <2> QED
    BY <2>1, <2>2, WorkBegins DEF Due
<1>3. ASSUME NEW s \in Sensors
      PROVE  /\ s[1] = k /\ Len(measurements[s]) < MeasurementRoom =>
                  measurements'[s] = Append(measurements[s], now)
             /\ s[1] # k \/ ~(Len(measurements[s]) < MeasurementRoom) =>
                  measurements'[s] = measurements[s]
  <2>1. s \in DOMAIN measurements
    BY DEF Typed, SeriesTyped
  <2>2. measurements'[s] = IF s[1] = k /\ s[2] \in reached THEN Append(measurements[s], now)
                           ELSE measurements[s]
    BY <1>1, <2>1 DEF Measure
  <2>3. s[1] = k => (s[2] \in reached <=> Len(measurements[s]) < MeasurementRoom)
    BY ReachedAlike DEF Regular
  <2> HIDE DEF reached
  <2> QED
    BY <2>2, <2>3
<1>4. Alike'
  <2> SUFFICES ASSUME NEW s \in Sensors, NEW t \in Sensors, s[1] = t[1]
               PROVE  measurements'[s] = measurements'[t]
    BY <1>1 DEF Alike
  <2>1. measurements[s] = measurements[t]
    BY DEF Regular, Alike
  <2>2. CASE s[1] = k /\ Len(measurements[s]) < MeasurementRoom
    BY <1>3, <2>1, <2>2
  <2>3. CASE s[1] # k \/ ~(Len(measurements[s]) < MeasurementRoom)
    BY <1>3, <2>1, <2>3
  <2> QED
    BY <2>2, <2>3
<1>5. ASSUME NEW s \in Sensors
      PROVE  timestamp'[s[1]] = IF s[1] = k /\ measurements[s] = <<>> THEN now
                                ELSE timestamp[s[1]]
  <2>1. s[1] \in setting.kinds /\ timestamp \in [setting.kinds -> 0..MaxPeriods]
    BY ReachedAlike DEF Regular, Typed, SeriesTyped
  <2>2. CASE s[1] # k
    BY <1>1, <2>1, <2>2 DEF Measure
  <2>3. CASE s[1] = k
    <3>1. timestamp'[k] = IF Stamps(k, reached) THEN now ELSE timestamp[k]
      BY <1>1, <2>1, <2>3 DEF Measure
    <3>2. Stamps(k, reached) => measurements[s] = <<>>
      BY <2>3, ReachedAlike DEF Regular, Stamps
    <3>3. measurements[s] = <<>> => Stamps(k, reached)
      <4>1. measurements[s] = <<>> => Len(measurements[s]) < MeasurementRoom
        BY ClimeAssumption
      <4>2. measurements[s] = <<>> => s[2] \in reached /\ measurements[<<k, s[2]>>] = <<>>
        BY <2>3, <4>1, ReachedAlike DEF Regular
      <4> QED
        BY <4>2 DEF Stamps
    <3> QED
      BY <2>3, <3>1, <3>2, <3>3
  <2> QED
    BY <2>2, <2>3
<1>6. ASSUME history.disturbed = FALSE, NEW s \in Sensors PROVE Steady(s)'
  <2> DEFINE n == Len(measurements[s])
  <2>1. /\ measurements[s] \in Seq(0..MaxPeriods) /\ n \in Nat /\ n <= MeasurementRoom
        /\ timestamp[s[1]] \in Nat /\ now \in Nat /\ Steady(s) /\ MeasurementRoom \in Nat
    <3>1. /\ measurements[s] \in Seq(0..MaxPeriods)
          /\ Len(measurements[s]) <= MeasurementRoom
      BY DEF Typed, SeriesTyped
    <3>2. timestamp[s[1]] \in Nat
      BY Rooms, ReachedAlike DEF Typed, SeriesTyped, Regular
    <3>3. now \in Nat
      BY DEF Typed, RestTyped
    <3>4. Steady(s)
      BY <1>6 DEF Regular
    <3> QED
      BY <3>1, <3>2, <3>3, <3>4, Rooms
  <2>2. CASE s[1] # k
    <3>1. /\ measurements'[s] = measurements[s] /\ timestamp'[s[1]] = timestamp[s[1]]
          /\ (Due(s[1])' <=> Due(s[1])) /\ now' = now
      BY <1>1, <1>2, <1>3, <1>5, <2>2
    <3> QED
      BY <2>1, <3>1 DEF Steady
  <2>3. CASE s[1] = k /\ ~(n < MeasurementRoom)
    <3>1. measurements[s] # <<>>
      BY <2>1, <2>3, ClimeAssumption
    <3>2. measurements'[s] = measurements[s] /\ timestamp'[s[1]] = timestamp[s[1]]
      BY <1>3, <1>5, <2>3, <3>1
    <3> QED
      BY <2>1, <2>3, <3>2 DEF Steady
  <2>4. CASE s[1] = k /\ n < MeasurementRoom
    <3>1. /\ measurements'[s] = Append(measurements[s], now) /\ now' = now /\ ~Due(s[1])'
          /\ timestamp'[s[1]] = IF measurements[s] = <<>> THEN now ELSE timestamp[s[1]]
      BY <1>1, <1>2, <1>3, <1>5, <2>4
    <3>2. /\ Len(measurements'[s]) = n + 1 /\ measurements'[s][n + 1] = now
          /\ \A i \in 1..n : measurements'[s][i] = measurements[s][i]
      BY <2>1, <3>1
    <3>3. timestamp'[s[1]] + n = now
      <4>1. CASE n = 0
        BY <2>1, <3>1, <4>1
      <4>2. CASE n # 0
        <5>1. measurements[s] # <<>>
          BY <4>2
        <5>2. timestamp[s[1]] + n = now
          BY <1>2, <2>1, <2>4, <4>2 DEF Steady
        <5> QED
          BY <3>1, <5>1, <5>2
      <4> QED
        BY <4>1, <4>2
    <3>4. timestamp'[s[1]] \in Nat
      BY <2>1, <3>1
    <3>5. ASSUME NEW i \in 1..(n + 1) PROVE measurements'[s][i] = timestamp'[s[1]] + i - 1
      <4>1. CASE i = n + 1
        BY <2>1, <3>2, <3>3, <3>4, <4>1
      <4>2. CASE i # n + 1
        <5>1. i \in 1..n /\ n # 0
          BY <2>1, <4>2
        <5>2. measurements[s] # <<>>
          BY <5>1
        <5>3. measurements[s][i] = timestamp[s[1]] + i - 1
          BY <2>1, <5>1 DEF Steady
        <5> QED
          BY <3>1, <3>2, <5>1, <5>2, <5>3
      <4> QED
        BY <4>1, <4>2
    <3>6. timestamp'[s[1]] + (n + 1) = now + 1
      BY <2>1, <3>3, <3>4
    <3> QED
      BY <3>1, <3>2, <3>5, <3>6 DEF Steady
  <2> QED
    BY <2>2, <2>3, <2>4
<1> QED
  BY <1>1, <1>2, <1>4, <1>6 DEF Regular

\* The next period begins: every series that is not empty has been measured in this one,
\* or a report holds the queue up and the series are disturbed.
LEMMA RegularTimers ==
  ASSUME Typed, Regular, AggregTimers
  PROVE  Regular'
<1>1. /\ setting' = setting /\ UNCHANGED <<measurements, timestamp>> /\ now' = now + 1
      /\ now \in Nat /\ Sensors' = Sensors
  BY SensorsKept DEF AggregTimers, data, Typed, RestTyped
<1>2. Queued(m_work_q') /\ \A k \in setting.kinds : Due(k)'
  BY WorksSubmitted DEF AggregTimers, Regular, Due
<1>3. /\ DOMAIN history' = DOMAIN history
      /\ history'.disturbed \in BOOLEAN
      /\ history'.disturbed = FALSE => history.disturbed = FALSE /\ ~AggregationsWait
  <2>1. history' = [history EXCEPT !.disturbed = @ \/ AggregationsWait]
    BY DEF AggregTimers
  <2>2. history'.disturbed = (history.disturbed \/ AggregationsWait)
          /\ DOMAIN history' = DOMAIN history
    BY <2>1, Zenon DEF Regular
  <2> QED
    BY <2>2, Zenon DEF Regular
<1>4. Alike'
  BY <1>1 DEF Regular, Alike
<1>5. ASSUME history'.disturbed = FALSE, NEW s \in Sensors PROVE Steady(s)'
  <2>1. ~Due(s[1]) /\ Steady(s)
    BY <1>3, <1>5 DEF Due, AggregationsWait, Regular
  <2>2. s[1] \in setting.kinds /\ timestamp[s[1]] \in Nat /\ Len(measurements[s]) \in Nat
    BY Rooms, ReachedAlike DEF Typed, SeriesTyped, Regular
  <2>3. Due(s[1])'
    BY <1>2, <2>2
  <2> QED
    BY <1>1, <2>1, <2>2, <2>3 DEF Steady
<1> QED
  BY <1>1, <1>2, <1>3, <1>4, <1>5 DEF Regular

\* After the clear nothing is left to be irregular.
LEMMA RegularClear ==
  ASSUME Typed, Regular, Clear, setting' = setting, Queued(m_work_q'),
         DOMAIN history' = DOMAIN history, history'.disturbed \in BOOLEAN
  PROVE  Regular'
<1>1. Sensors' = Sensors
  BY SensorsKept
<1>2. \A s \in Sensors : measurements'[s] = <<>>
  BY DEF Clear, Typed, SeriesTyped
<1>3. \A s \in Sensors : Len(measurements'[s]) = 0
  BY <1>2
<1>4. \A s \in Sensors : Steady(s)'
  BY <1>3 DEF Steady
<1> QED
  BY <1>1, <1>2, <1>4 DEF Regular, Alike

LEMMA RegularSends ==
  ASSUME Typed, Regular, SendOk \/ SendLrw
  PROVE  Regular'
<1>1. CASE SendOk
  <2>1. Clear /\ setting' = setting /\ m_work_q' = m_work_q
    BY <1>1 DEF SendOk
  <2>2. DOMAIN history' = DOMAIN history /\ history'.disturbed = FALSE
    BY <1>1 DEF SendOk, Regular
  <2> QED
    BY <2>1, <2>2, RegularClear DEF Regular
<1>2. CASE SendLrw
  <2>1. Clear /\ setting' = setting /\ Queued(m_work_q')
    BY <1>2, WorkBegins DEF SendLrw
  <2>2. DOMAIN history' = DOMAIN history /\ history'.disturbed = FALSE
    BY <1>2 DEF SendLrw, Regular
  <2> QED
    BY <2>1, <2>2, RegularClear
<1> QED
  BY <1>1, <1>2

\* What leaves the series, the period and the aggregations alone.
LEMMA RegularQuiet ==
  ASSUME Regular, UNCHANGED <<setting, measurements, timestamp, now>>, Queued(m_work_q'),
         \A k : Due(k)' <=> Due(k), DOMAIN history' = DOMAIN history,
         history'.disturbed = history.disturbed
  PROVE  Regular'
BY RegularSame DEF Regular

LEMMA RegularSample ==
  ASSUME Typed, Regular, Sample
  PROVE  Regular'
<1>1. \E k \in Kinds : Starts(<<"sample", k>>)
  BY Zenon
     DEF Sample, Kinds, One, Many, app_sensor_iaq_sample, app_sensor_sps30_sample,
         app_sensor_w1_therm_sample, app_sensor_rtd_therm_sample,
         app_sensor_tc_therm_sample, app_sensor_soil_sensor_sample,
         app_sensor_ble_tag_sample, app_sensor_radon_sample, app_sensor_hygro_sample,
         SampleOrNan, SampleOrNone
<1>2. Queued(m_work_q') /\ \A k : Due(k)' <=> Due(k)
  <2>1. PICK k \in Kinds : Starts(<<"sample", k>>)
    BY <1>1
  <2>2. <<"sample", k>>[1] # "aggreg"
    OBVIOUS
  <2> QED
    BY <2>1, <2>2, WorkBegins
<1>3. UNCHANGED <<setting, measurements, timestamp, now>>
  BY PlainSamples DEF NoEvents, app_sensor_hygro_sample
<1>4. DOMAIN history' = DOMAIN history /\ history'.disturbed = history.disturbed
  <2>1. CASE app_sensor_hygro_sample
    <3>1. UNCHANGED history \/ \E t : Record("hygro", Changes(t))
      BY <2>1 DEF app_sensor_hygro_sample
    <3> QED
      BY <3>1 DEF Record, Regular
  <2>2. CASE ~app_sensor_hygro_sample
    BY <2>2, PlainSamples DEF NoEvents
  <2> QED
    BY <2>1, <2>2
<1> QED
  BY <1>2, <1>3, <1>4, RegularQuiet

\* The silent radon probe and the triple click disturb the series, the press of the
\* button is in none of them.
LEMMA RegularDisturbed ==
  ASSUME Typed, Regular, RadonSilent \/ Press \/ \E n \in 1..3 : Click(n)
  PROVE  Regular'
<1>1. CASE RadonSilent
  <2>1. Queued(m_work_q') /\ UNCHANGED <<setting, measurements>>
    BY <1>1, WorkBegins DEF RadonSilent
  <2>2. DOMAIN history' = DOMAIN history /\ history'.disturbed = TRUE
    BY <1>1 DEF RadonSilent, Regular
  <2> QED
    BY <2>1, <2>2, RegularSame
<1>2. CASE Press
  <2> DEFINE b == <<"button", 1>>
  <2>1. /\ UNCHANGED <<setting, timestamp, now, m_work_q, history>>
        /\ \/ measurements' = measurements
           \/ measurements' = [measurements EXCEPT ![b] = Append(@, now)]
    BY <1>2 DEF Press
  <2>2. \A s \in Sensors : s # b
    BY DEF Sensors, Typed, RestTyped, Setting, Kinds, One, Many
  <2>3. \A s \in Sensors : measurements'[s] = measurements[s]
    BY <2>1, <2>2 DEF Typed, SeriesTyped
  <2>4. \A k : Due(k)' <=> Due(k)
    BY <2>1 DEF Due
  <2> QED
    BY <2>1, <2>3, <2>4, RegularSame DEF Regular
<1>3. CASE \E n \in 1..3 : Click(n)
  <2>1. PICK n \in 1..3 : Click(n)
    BY <1>3
  <2>2. UNCHANGED <<setting, measurements, timestamp, now>>
    BY <2>1 DEF Click, data
  <2>3. history' = [history EXCEPT !.disturbed = @ \/ n = 3]
    BY <2>1 DEF Click
  <2>4. history'.disturbed = (history.disturbed \/ n = 3) /\ DOMAIN history' = DOMAIN history
    BY <2>3, Zenon DEF Regular
  <2>5. CASE n = 3
    <3>1. Queued(m_work_q')
      BY <2>1, <2>5, WorksSubmitted DEF Click, Regular
    <3>2. history'.disturbed = TRUE
      BY <2>4, <2>5, Zenon
    <3> QED
      BY <2>2, <2>4, <3>1, <3>2, RegularSame
  <2>6. CASE n # 3
    <3>1. m_work_q' = m_work_q \/ m_work_q' = ManualSample(m_work_q)
      BY <2>1, <2>6 DEF Click
    <3>2. Queued(m_work_q') /\ \A k : Due(k)' <=> Due(k)
      BY <3>1, WorksSubmitted DEF Due, Regular
    <3>3. history'.disturbed = history.disturbed
      BY <2>4, <2>6, Zenon DEF Regular
    <3> QED
      BY <2>2, <2>4, <3>2, <3>3, RegularQuiet
  <2> QED
    BY <2>5, <2>6
<1> QED
  BY <1>1, <1>2, <1>3

LEMMA RegularOthers ==
  ASSUME Typed, Regular,
         \/ SendLte \/ BackupWork \/ SendFails \/ SendTimer \/ StartDelay \/ HandleEvent
         \/ SampleTimers \/ HourEnds \/ DelayExpires
         \/ \E on \in BOOLEAN : LineEvent(on) \/ TamperEvent(on)
  PROVE  Regular'
<1>1. UNCHANGED <<setting, measurements, timestamp, now>>
  BY DEF SendLte, BackupWork, SendFails, Keep, SendTimer, StartDelay, HandleEvent,
         SampleTimers, HourEnds, DelayExpires, LineEvent, TamperEvent, data
<1>2. DOMAIN history' = DOMAIN history /\ history'.disturbed = history.disturbed
  <2>1. CASE SendFails
    BY <2>1 DEF SendFails, Regular
  <2>2. CASE HandleEvent
    BY <2>2 DEF HandleEvent, Record, Regular
  <2>3. CASE ~SendFails /\ ~HandleEvent
    BY <2>3 DEF SendLte, BackupWork, SendTimer, StartDelay, SampleTimers, HourEnds,
                DelayExpires, LineEvent, TamperEvent
  <2> QED
    BY <2>1, <2>2, <2>3
<1>3. Queued(m_work_q') /\ \A k : Due(k)' <=> Due(k)
  <2>1. CASE SendLte \/ BackupWork
    <3>1. PICK work \in {<<"send">>, <<"backup">>} : Starts(work)
      BY <2>1 DEF SendLte, BackupWork
    <3>2. work[1] # "aggreg"
      OBVIOUS
    <3> QED
      BY <3>1, <3>2, WorkBegins
  <2>2. CASE SendTimer \/ \E on \in BOOLEAN : LineEvent(on)
    <3>1. PICK work \in {<<"send">>, <<"backup">>} : m_work_q' = Submit(m_work_q, work)
      BY <2>2 DEF SendTimer, LineEvent
    <3>2. work[1] # "aggreg" /\ work \in Work
      BY DEF Work
    <3> QED
      BY <3>1, <3>2, WorkSubmitted
  <2>3. CASE SampleTimers
    BY <2>3, WorksSubmitted DEF SampleTimers, Due, Regular
  <2>4. CASE \/ SendFails \/ StartDelay \/ HandleEvent \/ HourEnds \/ DelayExpires
             \/ \E on \in BOOLEAN : TamperEvent(on)
    <3>1. m_work_q' = m_work_q
      BY <2>4 DEF SendFails, StartDelay, HandleEvent, HourEnds, DelayExpires, TamperEvent
    <3> QED
      BY <3>1 DEF Due, Regular
  <2> QED
    BY <2>1, <2>2, <2>3, <2>4
<1> QED
  BY <1>1, <1>2, <1>3, RegularQuiet

LEMMA RegularStep == Typed /\ Regular /\ [Next]_vars => Regular'
<1> SUFFICES ASSUME Typed, Regular, [Next]_vars PROVE Regular'
  OBVIOUS
<1>1. CASE Aggreg
  BY <1>1, PlainAggregations, RegularMeasures, RegularDisturbed
<1>2. CASE UNCHANGED vars
  <2>1. UNCHANGED <<setting, measurements, timestamp, now, m_work_q, history>>
    BY <1>2 DEF vars, data
  <2> QED
    BY <2>1, RegularQuiet DEF Due, Regular
<1> QED
  BY <1>1, <1>2, RegularSample, RegularTimers, RegularSends, RegularDisturbed, RegularOthers
     DEF Next, AppWork, SendReturns, Interrupts, Others

\* The measurements of a kind are one period apart from the period of its timestamp on,
\* in the series of every sensor: the aggregation work of a kind runs once a period, and
\* only the first measurement after a clear stamps.
THEOREM MeasurementsDated == Spec => []SeriesRegular
<1>1. Typed /\ Regular => SeriesRegular
  <2> SUFFICES ASSUME Typed, Regular, history.disturbed = FALSE, NEW s \in Sensors,
                      NEW i \in DOMAIN measurements[s]
               PROVE  measurements[s][i] = timestamp[s[1]] + i - 1
    BY DEF SeriesRegular, Regular
  <2>1. i \in 1..Len(measurements[s])
    BY DEF Typed, SeriesTyped
  <2> QED
    BY <2>1 DEF Regular, Steady
<1> QED
  BY <1>1, TypedInit, TypedStep, RegularInit, RegularStep, PTL DEF Spec

=============================================================================
