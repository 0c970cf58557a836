----------------------------- MODULE MCCtrClime -----------------------------
(* Small instances of CtrClime for TLC: variants of the application. *)
EXTENDS CtrClime

\* The reports that app_config.c turns on by default.
MCDefaults == {"connected", "disconnected"}

MCVariant == [kinds |-> {}, line |-> FALSE, tamper |-> FALSE, reports |-> MCDefaults,
              mode |-> "lte", room |-> 100, events |-> 0, periods |-> 0, clicks |-> 0,
              failures |-> 1]

\* The variants of applications/clime/project.yaml and probes of several sensors; rooms
\* 3 and 6 are report buffers that a long series outgrows.
MCClime  == [MCVariant EXCEPT !.kinds = {"hygro"}, !.reports = {"hi", "lo"}, !.events = 2,
                              !.periods = 3, !.failures = 0]
MCLow    == [MCVariant EXCEPT !.kinds = {"hygro"}, !.reports = {"lo"}, !.events = 2,
                              !.periods = 1]
MCIaq    == [MCVariant EXCEPT !.kinds = {"iaq"}, !.tamper = TRUE,
                              !.events = 1, !.clicks = 1, !.periods = 1,
                              !.failures = 0, !.room = 6]
MCRadon  == [MCVariant EXCEPT !.kinds = {"radon"}, !.line = TRUE,
                              !.reports = {"disconnected"}, !.events = 1, !.periods = 1]
MCProbes == [MCVariant EXCEPT !.kinds = {"w1_therm", "soil_sensor"}, !.room = 3,
                              !.periods = 3]
MCTags   == [MCVariant EXCEPT !.kinds = {"ble_tag", "sps30"}, !.periods = 1, !.clicks = 1]
MCLrw    == [MCVariant EXCEPT !.kinds = {"rtd_therm", "tc_therm"}, !.mode = "lrw",
                              !.periods = 2]
MCLine   == [MCVariant EXCEPT !.line = TRUE, !.mode = "lrw", !.events = 2]

MCVariants == {MCClime, MCLow, MCIaq, MCRadon, MCProbes, MCTags, MCLrw, MCLine}
=============================================================================
