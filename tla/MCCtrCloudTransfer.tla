------------------------ MODULE MCCtrCloudTransfer --------------------------
(* Small instances of CtrCloudTransfer for TLC. *)
EXTENDS CtrCloudTransfer, TLC

\* Model values: the messages.
CONSTANTS m1, m2, d1, d2

MCParts == m1 :> 2 @@ m2 :> 3 @@ d1 :> 3 @@ d2 :> 2

\* Losses, reboots and answers that cannot be read; the numbers wrap after 5, and of
\* the two messages that wait the second one is too long for the buffer.
MCLossy == [seqmod |-> 6, downlinks |-> <<d2, d1>>, bufparts |-> 2,
            faults |-> {"bad", "reboot", "lose_up", "lose_down"},
            maxfaults |-> 2, calls |-> 5]

\* The same faults, more of them in fewer calls; no number comes round again and every
\* message has room.
MCManyLosses == [MCLossy EXCEPT !.seqmod = 40, !.bufparts = 3, !.maxfaults = 4, !.calls = 3]

\* Repeated datagrams, and a cloud that forgets the transfer.
MCRepeats == [seqmod |-> 40, downlinks |-> <<d1, d2>>, bufparts |-> 3,
              faults |-> {"forget", "duplicate", "lose_up", "lose_down"},
              maxfaults |-> 4, calls |-> 3]

\* Late datagrams too.
MCDelays == [seqmod |-> 40, downlinks |-> <<d1, d2>>, bufparts |-> 3,
             faults |-> {"forget", "duplicate", "lose_up", "lose_down", "timeout"},
             maxfaults |-> 3, calls |-> 3]

\* One repeated datagram.
MCOneRepeat == [seqmod |-> 6, downlinks |-> <<>>, bufparts |-> 2,
                faults |-> {"duplicate"}, maxfaults |-> 1, calls |-> 4]

\* One exchange that times out, and one packet that is lost.
MCOneTimeout == [seqmod |-> 40, downlinks |-> <<>>, bufparts |-> 2,
                 faults |-> {"timeout", "lose_up"}, maxfaults |-> 2, calls |-> 2]

\* The other ways into the endless restarts: an exchange that times out, and a cloud that
\* forgets the transfer on a link that loses datagrams.
MCTimeoutAlone == [seqmod |-> 40, downlinks |-> <<>>, bufparts |-> 3,
                   faults |-> {"timeout"}, maxfaults |-> 1, calls |-> 2]
MCForgetful == [seqmod |-> 40, downlinks |-> <<d1, d2>>, bufparts |-> 3,
                faults |-> {"forget", "lose_up", "lose_down"}, maxfaults |-> 3, calls |-> 3]

MCFaultyLinks == {MCLossy, MCManyLosses, MCRepeats, MCDelays}
\* Each of the three alone violates CallReturns.
MCSurplusAnswer == {MCOneRepeat, MCTimeoutAlone, MCForgetful}
MCLateAnswer == {MCOneTimeout}
=============================================================================
