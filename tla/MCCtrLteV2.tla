----------------------------- MODULE MCCtrLteV2 -----------------------------
(* Small instances of CtrLteV2 for TLC. *)
EXTENDS CtrLteV2, TLC

\* Model values: the threads that call, and no thread.
CONSTANTS c1, c2, NULL

\* Nothing tells two callers apart, and every property treats them alike.
MCSymmetry == Permutations(Callers)

\* Setting the modem up and keeping it up, with everything that can fail there.
MCSetup == [timeout |-> FALSE, gnss |-> FALSE, psm |-> BOOLEAN, reconnects |-> FALSE,
            alone |-> TRUE, faults |-> {"at", "check", "deregistered", "fplmn", "socket", "reset_loop",
                        "rfmux", "uart"},
            lines |-> 2, maxfaults |-> 3, calls |-> 0, commands |-> 1]

\* A request, GNSS and ctr_lte_v2_reconnect() racing with each other.
MCCommands == [timeout |-> FALSE, gnss |-> TRUE, psm |-> {TRUE}, reconnects |-> TRUE,
               alone |-> TRUE, faults |-> {}, lines |-> 1, maxfaults |-> 0, calls |-> 1, commands |-> 2]

\* ctr_lte_v2_reconnect() out of a reset loop, with any two of its own steps failing.
MCReconnectFails == [timeout |-> FALSE, gnss |-> FALSE, psm |-> {TRUE}, reconnects |-> TRUE,
                     alone |-> TRUE, faults |-> {"leave", "release", "reset_loop"}, lines |-> 1,
                     maxfaults |-> 2, calls |-> 0, commands |-> 2]

\* The same out of GNSS that has turned the radio off, or with an RF multiplexer in use.
MCReconnectGnss == [timeout |-> FALSE, gnss |-> TRUE, psm |-> {FALSE}, reconnects |-> TRUE,
                    alone |-> TRUE, faults |-> {"leave", "release", "rfmux"}, lines |-> 1,
                    maxfaults |-> 1, calls |-> 0, commands |-> 3]

\* Requests with a timeout of their own.
MCSoftTimeout == [timeout |-> TRUE, gnss |-> FALSE, psm |-> {TRUE}, reconnects |-> FALSE,
                  alone |-> TRUE, faults |-> {}, lines |-> 1, maxfaults |-> 0, calls |-> 2,
                  commands |-> 1]

\* Two threads that wait for each other, and datagrams that get lost in the modem.
MCRequests == [timeout |-> FALSE, gnss |-> FALSE, psm |-> {FALSE}, reconnects |-> FALSE,
               alone |-> FALSE, faults |-> {"recv", "send"}, lines |-> 1, maxfaults |-> 1,
               calls |-> 3, commands |-> 1]

\* One request that has to go the long way: a dialog that fails, a lost network or socket.
MCDetours == [MCRequests EXCEPT !.faults = {"at", "check", "deregistered", "reset_loop", "socket"},
                                !.calls = 1]

\* One request, and a datagram that the modem refuses.
MCOneRequest == [timeout |-> FALSE, gnss |-> FALSE, psm |-> {TRUE}, reconnects |-> FALSE,
                 alone |-> TRUE, faults |-> {"send"}, lines |-> 2, maxfaults |-> 1, calls |-> 1,
                 commands |-> 1]

MCMachine == {MCSetup, MCCommands, MCReconnectFails, MCReconnectGnss, MCSoftTimeout, MCRequests,
              MCDetours}
MCSendFails == {MCOneRequest}
MCReconnects == {MCCommands}
=============================================================================
