-------------------------- MODULE TransferPromise ---------------------------
(***************************************************************************)
(* What ctr_cloud_transfer_uplink() and ctr_cloud_transfer_downlink()      *)
(* promise to ctr_cloud.c, without packets, numbers and fragments: a       *)
(* message arrives whole, during the call that uploads it and never after; *)
(* success means that it has arrived; a download takes the messages of the *)
(* cloud in their order, and says that there is none only when there is    *)
(* none.                                                                   *)
(***************************************************************************)
EXTENDS Sequences

CONSTANTS
  Message,   \* the messages the device may upload
  Down,      \* the messages the cloud may deliver
  NoMessage, \* what a call that uploads nothing has for a message
  Bytes      \* Bytes[m]: what message m looks like to the one who receives it

VARIABLES
  call,     \* the function that runs, and the message it uploads
  outcome,  \* what the last call returned, unless it failed
  received, \* all that the cloud has put together
  waiting,  \* the messages that the cloud keeps for the device
  got       \* all that the device has put together

vars == <<call, outcome, received, waiting, got>>

Idle == [op |-> "idle", message |-> NoMessage]

Init ==
  /\ call = Idle
  /\ outcome = "none"
  /\ received = {}
  /\ waiting \in Seq(Down)
  /\ got = {}

Upload ==
  /\ call = Idle
  /\ \E m \in Message : call' = [op |-> "uplink", message |-> m]
  /\ outcome' = "none"
  /\ UNCHANGED <<received, waiting, got>>

\* The message that is being uploaded arrives.
Arrive ==
  /\ call.op = "uplink"
  /\ received' = received \cup {Bytes[call.message]}
  /\ UNCHANGED <<call, outcome, waiting, got>>

Uploaded ==
  /\ call.op = "uplink"
  /\ Bytes[call.message] \in received
  /\ call' = Idle
  /\ outcome' = "uplink_ok"
  /\ UNCHANGED <<received, waiting, got>>

Download ==
  /\ call = Idle
  /\ call' = [op |-> "downlink", message |-> NoMessage]
  /\ outcome' = "none"
  /\ UNCHANGED <<received, waiting, got>>

\* The device has all of the oldest message that waits.
Obtain ==
  /\ call.op = "downlink"
  /\ waiting # <<>>
  /\ call' = [op |-> "final", message |-> NoMessage]
  /\ got' = got \cup {Bytes[Head(waiting)]}
  /\ UNCHANGED <<outcome, received, waiting>>

Downloaded ==
  /\ call.op = "final"
  /\ call' = Idle
  /\ outcome' = "downlink_ok"
  /\ UNCHANGED <<received, waiting, got>>

NothingWaits ==
  /\ call.op = "downlink"
  /\ waiting = <<>>
  /\ call' = Idle
  /\ outcome' = "poll"
  /\ UNCHANGED <<received, waiting, got>>

\* A call fails, or the device reboots; what arrived remains.
Fail ==
  /\ call' = Idle
  /\ outcome' = "none"
  /\ UNCHANGED <<received, waiting, got>>

\* The cloud lets go of a message that the device has.
Release ==
  /\ waiting # <<>>
  /\ Bytes[Head(waiting)] \in got
  /\ waiting' = Tail(waiting)
  /\ UNCHANGED <<call, outcome, received, got>>

Next ==
  \/ Upload \/ Arrive \/ Uploaded
  \/ Download \/ Obtain \/ Downloaded \/ NothingWaits
  \/ Fail \/ Release

Spec == Init /\ [][Next]_vars
=============================================================================
