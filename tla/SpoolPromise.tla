---------------------------- MODULE SpoolPromise ----------------------------
(***************************************************************************)
(* What the message spool of subsys/ctr_cloud promises to the application: *)
(* a message that was stored leaves the spool only after the cloud has it, *)
(* or as the oldest one when the spool is full (ctr_cloud_spool.h:32-35,   *)
(* ctr_cloud.c:889-890).  Messages are numbered in the order in which they *)
(* are stored.                                                             *)
(***************************************************************************)
EXTENDS Integers

CONSTANTS
  Message,   \* the messages, a set of numbers
  SpoolSize  \* the configuration item spool-size

VARIABLES
  kept,    \* the messages the spool holds
  entries, \* the number of entries of the spool, with or without a message
  sent     \* the messages the cloud has received

Init ==
  /\ kept = {}
  /\ entries \in Nat
  /\ sent = {}

\* An entry appears; its message is not there yet.
Create ==
  /\ entries' = entries + 1
  /\ UNCHANGED <<kept, sent>>

\* The message of an entry is complete; it is newer than all others.
Keep ==
  /\ \E m \in Message : (\A k \in kept : k < m) /\ kept' = kept \cup {m}
  /\ UNCHANGED <<entries, sent>>

\* The cloud receives a message, whether or not the spool could keep it.
Deliver ==
  /\ \E m \in Message : sent' = sent \cup {m}
  /\ UNCHANGED <<kept, entries>>

\* An entry goes that holds no message, or one that was delivered.
Release ==
  /\ entries' = entries - 1
  /\ kept' = kept \/ \E m \in kept \cap sent : kept' = kept \ {m}
  /\ UNCHANGED sent

\* The spool is full and loses its oldest message.
DropOldest ==
  /\ entries >= SpoolSize
  /\ entries' = entries - 1
  /\ \E m \in kept : (\A k \in kept : m <= k) /\ kept' = kept \ {m}
  /\ UNCHANGED sent

Next == Create \/ Keep \/ Deliver \/ Release \/ DropOldest

Spec == Init /\ [][Next]_<<kept, entries, sent>>
=============================================================================
