----------------------- MODULE CtrCloudSessionProofs ------------------------
(***************************************************************************)
(* Theorems about CtrCloudSession, for every set of images, every number   *)
(* of chunks, all faults in any number and any number of messages.         *)
(***************************************************************************)
EXTENDS CtrCloudSession, FiniteSetTheorems, WellFoundedInduction, TLAPS

-----------------------------------------------------------------------------
(* The queue of the cloud *)

Elements(q) == {q[n] : n \in 1..Len(q)}

\* Every nonempty set of numbers up to N has a least one: what takes the place of
\* induction over the length of the queue.
LEMMA LeastNumber ==
  ASSUME NEW N \in Nat, NEW D \in SUBSET (0..N), D # {}
  PROVE  \E i \in D : \A j \in D : i <= j
<1> DEFINE Below(i) == {j \in D : j < i}
           T == {Below(i) : i \in D}
<1>1. IsFiniteSet(D)
  <2>1. IsFiniteSet(0..N)
    BY FS_Interval
  <2> QED
    BY <2>1, FS_Subset
<1>2. T \subseteq FiniteSubsetsOf(D) /\ T # {}
  <2>1. ASSUME NEW i \in D PROVE Below(i) \in FiniteSubsetsOf(D)
    <3>1. Below(i) \in SUBSET D
      OBVIOUS
    <3>2. IsFiniteSet(Below(i))
      BY <1>1, <3>1, FS_Subset
    <3> QED
      BY <3>1, <3>2 DEF FiniteSubsetsOf
  <2> QED
    BY <2>1
<1>3. PICK S \in T : \A U \in T : <<U, S>> \notin StrictSubsetOrdering(D)
  BY <1>2, FS_StrictSubsetOrderingWellFounded, WFMin
<1>4. PICK i \in D : S = Below(i)
  BY <1>3
<1>5. ASSUME NEW j \in D, j < i PROVE FALSE
  <2>1. D \subseteq Nat /\ i \in Nat /\ j \in Nat
    OBVIOUS
  <2>2. \A k \in D : k < j => k < i
    BY <1>5, <2>1
  <2>3. ~(j < j)
    BY <2>1
  <2>4. Below(j) \subseteq Below(i) /\ j \in Below(i) /\ j \notin Below(j)
    BY <1>5, <2>2, <2>3
  <2>5. <<Below(j), S>> \in StrictSubsetOrdering(D)
    BY <2>4, <1>4 DEF StrictSubsetOrdering
  <2> QED
    BY <1>3, <2>5
<1> QED
  BY <1>5

\* What is in a queue after a message is added at its end.
LEMMA ElementsOfAppend ==
  ASSUME NEW S, NEW q \in Seq(S), NEW x \in S
  PROVE  /\ Append(q, x) \in Seq(S)
         /\ Elements(Append(q, x)) = Elements(q) \cup {x}
         /\ Append(q, x) # <<>> /\ (q # <<>> => Head(Append(q, x)) = Head(q))
<1>1. /\ Append(q, x) \in Seq(S) /\ Len(Append(q, x)) = Len(q) + 1 /\ Len(q) \in Nat
      /\ Append(q, x)[Len(q) + 1] = x
      /\ \A n \in 1..Len(q) : Append(q, x)[n] = q[n]
  OBVIOUS
<1>2. 1..(Len(q) + 1) = (1..Len(q)) \cup {Len(q) + 1}
  BY <1>1
<1>3. Elements(Append(q, x)) = Elements(q) \cup {x}
  BY <1>1, <1>2 DEF Elements
<1>4. q # <<>> => Head(Append(q, x)) = Head(q)
  BY <1>1
<1>5. Append(q, x) # <<>>
  <2>1. PICK p : p = Append(q, x)
    OBVIOUS
  <2>2. p \in Seq(S) /\ Len(p) # 0
    BY <1>1, <2>1
  <2>3. p # <<>>
    BY <2>2
  <2> QED
    BY <2>1, <2>3
<1> QED
  BY <1>1, <1>3, <1>4, <1>5

\* What is in a queue after a message is put ahead of it.
LEMMA ElementsOfPush ==
  ASSUME NEW S, NEW q \in Seq(S), NEW x \in S
  PROVE  /\ <<x>> \o q \in Seq(S) /\ <<x>> \o q # <<>>
         /\ Elements(<<x>> \o q) = Elements(q) \cup {x}
         /\ Head(<<x>> \o q) = x
<1> DEFINE p == <<x>> \o q
<1>1. p \in Seq(S) /\ Len(p) = Len(q) + 1 /\ Len(q) \in Nat
  OBVIOUS
<1>2. p[1] = x /\ \A n \in 1..Len(q) : p[n + 1] = q[n]
  OBVIOUS
<1>3. p # <<>> /\ Head(p) = x
  BY <1>1, <1>2
<1> HIDE DEF p
<1>4. Elements(p) \subseteq Elements(q) \cup {x}
  <2> SUFFICES ASSUME NEW n \in 1..Len(p), n # 1 PROVE p[n] \in Elements(q)
    BY <1>2 DEF Elements
  <2>1. n - 1 \in 1..Len(q) /\ (n - 1) + 1 = n
    BY <1>1
  <2> QED
    BY <1>2, <2>1 DEF Elements
<1>5. x \in Elements(p)
  BY <1>1, <1>2 DEF Elements
<1>6. Elements(q) \subseteq Elements(p)
  <2> SUFFICES ASSUME NEW n \in 1..Len(q) PROVE q[n] \in Elements(p)
    BY DEF Elements
  <2>1. n + 1 \in 1..Len(p)
    BY <1>1
  <2> QED
    BY <1>2, <2>1 DEF Elements
<1> QED
  BY <1>1, <1>3, <1>4, <1>5, <1>6 DEF p

\* What is in a queue after its first message has been taken.
LEMMA ElementsOfTail ==
  ASSUME NEW S, NEW q \in Seq(S), q # <<>>
  PROVE  /\ Tail(q) \in Seq(S) /\ Elements(Tail(q)) \subseteq Elements(q)
         /\ Head(q) \in Elements(q) /\ Head(q) \in S
<1>1. /\ Tail(q) \in Seq(S) /\ Len(Tail(q)) = Len(q) - 1 /\ Len(q) \in Nat /\ Len(q) # 0
      /\ \A n \in 1..Len(Tail(q)) : Tail(q)[n] = q[n + 1]
      /\ Head(q) = q[1]
  OBVIOUS
<1>2. \A n \in 1..Len(Tail(q)) : n + 1 \in 1..Len(q)
  BY <1>1
<1>3. 1 \in 1..Len(q)
  BY <1>1
<1> QED
  BY <1>1, <1>2, <1>3 DEF Elements

\* The recursion of OtherThanChunks() has a solution.
LEMMA OthersExists ==
  ASSUME NEW S, NEW q \in Seq(S)
  PROVE  \E f : f = [n \in 0..Len(q) |->
                       IF n = 0 THEN <<>>
                       ELSE IF q[n][1] = "chunk" THEN f[n - 1]
                       ELSE Append(f[n - 1], q[n])]
<1> DEFINE Step(f, n) == IF n = 0 THEN <<>>
                         ELSE IF q[n][1] = "chunk" THEN f[n - 1]
                         ELSE Append(f[n - 1], q[n])
           Solves(f, m) == f = [n \in 0..m |-> Step(f, n)]
           Unsolved == {m \in 0..Len(q) : ~\E f : Solves(f, m)}
<1>1. Len(q) \in Nat
  OBVIOUS
<1>2. CASE Unsolved = {}
  BY <1>1, <1>2
<1>3. CASE Unsolved # {}
  <2>1. PICK m \in Unsolved : \A j \in Unsolved : m <= j
    BY <1>1, <1>3, LeastNumber
  <2>2. m # 0
    <3>1. Solves([n \in 0..0 |-> <<>>], 0)
      OBVIOUS
    <3> QED
      BY <3>1
  <2>3. PICK f : Solves(f, m - 1)
    <3>1. m \in 0..Len(q) /\ m - 1 \in 0..Len(q) /\ ~(m <= m - 1)
      BY <1>1, <2>2
    <3>2. m - 1 \notin Unsolved
      BY <2>1, <3>1
    <3> QED
      BY <3>1, <3>2
  <2> DEFINE g == [n \in 0..m |-> IF n = m THEN Step(f, m) ELSE f[n]]
  <2>4. \A n \in 0..m : g[n] = Step(g, n)
    <3> SUFFICES ASSUME NEW n \in 0..m PROVE g[n] = Step(g, n)
      OBVIOUS
    <3>1. n # 0 => n - 1 \in 0..m /\ n - 1 # m /\ g[n - 1] = f[n - 1]
      BY <1>1
    <3>2. Step(g, n) = Step(f, n)
      BY <3>1
    <3>3. n # m => n \in 0..(m - 1)
      BY <1>1
    <3>4. n # m => f[n] = Step(f, n)
      BY <2>3, <3>3
    <3> QED
      BY <3>2, <3>4
  <2>5. Solves(g, m)
    <3> HIDE DEF Step
    <3>1. g = [n \in 0..m |-> g[n]]
      OBVIOUS
    <3> HIDE DEF g
    <3>2. [n \in 0..m |-> g[n]] = [n \in 0..m |-> Step(g, n)]
      BY <2>4
    <3> QED
      BY <3>1, <3>2
  <2> QED
    BY <2>5, <2>1
<1> QED
  BY <1>2, <1>3

\* OtherThanChunks() keeps what is not a chunk, and the first message if that is not
\* a chunk.
LEMMA OthersKept ==
  ASSUME NEW S, NEW q \in Seq(S)
  PROVE  /\ OtherThanChunks(q) \in Seq(S)
         /\ Elements(OtherThanChunks(q)) \subseteq {m \in Elements(q) : m[1] # "chunk"}
         /\ q # <<>> /\ Head(q)[1] # "chunk" =>
              OtherThanChunks(q) # <<>> /\ Head(OtherThanChunks(q)) = Head(q)
<1> DEFINE Kept == {m \in Elements(q) : m[1] # "chunk"}
           Fits(r, n) == /\ r \in Seq(Kept)
                         /\ n # 0 /\ Head(q)[1] # "chunk" => r # <<>> /\ Head(r) = Head(q)
           others == CHOOSE f : f = [n \in 0..Len(q) |->
                       IF n = 0 THEN <<>>
                       ELSE IF q[n][1] = "chunk" THEN f[n - 1]
                       ELSE Append(f[n - 1], q[n])]
           Misfits == {n \in 0..Len(q) : ~Fits(others[n], n)}
<1>1. Len(q) \in Nat /\ (q # <<>> => Head(q) = q[1]) /\ (q # <<>> <=> Len(q) # 0)
  OBVIOUS
<1>2. OtherThanChunks(q) = others[Len(q)]
  BY DEF OtherThanChunks
<1>3. others = [n \in 0..Len(q) |->
                  IF n = 0 THEN <<>>
                  ELSE IF q[n][1] = "chunk" THEN others[n - 1]
                  ELSE Append(others[n - 1], q[n])]
  BY OthersExists
<1> HIDE DEF others
<1>4. others[0] = <<>>
  BY <1>1, <1>3
<1>5. \A n \in 1..Len(q) :
        others[n] = IF q[n][1] = "chunk" THEN others[n - 1] ELSE Append(others[n - 1], q[n])
  <2> SUFFICES ASSUME NEW n \in 1..Len(q)
               PROVE  others[n] = IF q[n][1] = "chunk" THEN others[n - 1]
                                  ELSE Append(others[n - 1], q[n])
    OBVIOUS
  <2>1. n \in 0..Len(q) /\ n # 0
    BY <1>1
  <2> QED
    BY <1>3, <2>1
<1>6. ASSUME NEW n \in 1..Len(q), Fits(others[n - 1], n - 1) PROVE Fits(others[n], n)
  <2>1. CASE q[n][1] = "chunk"
    BY <1>1, <1>5, <1>6, <2>1
  <2>2. CASE q[n][1] # "chunk"
    <3>1. q[n] \in Kept /\ others[n] = Append(others[n - 1], q[n])
      BY <1>5, <2>2 DEF Elements
    <3>2. others[n] \in Seq(Kept) /\ others[n] # <<>>
      BY <1>6, <3>1
    <3>3. CASE n = 1
      BY <1>1, <1>4, <3>1, <3>2, <3>3
    <3>4. CASE n # 1
      <4>1. Head(q)[1] # "chunk" => others[n - 1] # <<>> /\ Head(others[n - 1]) = Head(q)
        BY <1>6, <3>4
      <4> HIDE DEF Kept
      <4>2. others[n - 1] # <<>> => Head(others[n]) = Head(others[n - 1])
        BY <1>6, <3>1, ElementsOfAppend
      <4> QED
        BY <3>2, <4>1, <4>2
    <3> QED
      BY <3>3, <3>4
  <2> QED
    BY <2>1, <2>2
<1>7. Fits(others[0], 0)
  BY <1>4
<1>8. Misfits = {}
  <2> SUFFICES ASSUME Misfits # {} PROVE FALSE
    OBVIOUS
  <2>1. PICK n \in Misfits : \A j \in Misfits : n <= j
    BY <1>1, LeastNumber
  <2>2. n # 0 /\ n \in 1..Len(q)
    BY <1>1, <1>7, <2>1
  <2>3. n - 1 \in 0..Len(q) /\ ~(n <= n - 1)
    BY <1>1, <2>2
  <2>4. Fits(others[n - 1], n - 1)
    BY <2>1, <2>3
  <2> QED
    BY <1>6, <2>1, <2>2, <2>4
<1>9. Fits(OtherThanChunks(q), Len(q))
  <2>1. Len(q) \in 0..Len(q)
    BY <1>1
  <2>2. Fits(others[Len(q)], Len(q))
    BY <1>8, <2>1
  <2> QED
    BY <1>2, <2>2
<1>10. Kept \subseteq S
  BY DEF Elements
<1>11. \A r \in Seq(Kept) : r \in Seq(S) /\ Elements(r) \subseteq Kept
  BY <1>10 DEF Elements
<1> QED
  BY <1>1, <1>9, <1>11

-----------------------------------------------------------------------------
(* The inductive invariant *)

\* The first n chunks of an image.
Part(i, n) == [k \in 1..n |-> <<i, k>>]

ChunkMessages == {"chunk"} \X Updates \X (1..Chunks)

\* The chunks under way: those that wait at the cloud and the one in the buffer.
UnderWay == (Elements(queue) \cup (IF pc = "chunk" THEN {buf} ELSE {})) \cap ChunkMessages

\* init_work_handler(), and the part of it before the update id is read.
InitPoints == {"start", "wait", "session", "decoder", "encoder", "upload_config",
               "confirm", "confirm_image", "ack", "done"}
BeforeConfirm == {"start", "wait", "session", "decoder", "encoder", "upload_config",
                  "confirm"}

\* What the work holds in its buffer.
BufferFits ==
  /\ pc \in {"chunk", "schedule", "swap", "save_id", "reboot"} => buf \in ChunkMessages
  /\ pc \in {"confirm_image", "ack"} => buf \in {"ack"} \X (Updates \cup {Nothing})
  /\ pc = "config" => buf = <<"config">>
  /\ pc = "answer" =>
       buf \in {<<"shell">>} \cup ({"error"} \X Updates)
                 \cup ({"next"} \X Updates \X (1..(Chunks - 1)))

\* All chunks under way are of one image: the one the cloud serves, and the one in
\* the slot while the DFU target is at work on it.
OneImage ==
  /\ \A m, n \in UnderWay : m[2] = n[2]
  /\ \A m \in UnderWay : cloud.serves # Nothing => m[2] = cloud.serves
  /\ \A m \in UnderWay : dfu # Nothing /\ dfu # 0 /\ m[3] # 1 => slot = Part(m[2], dfu)

\* What is in the slot, as far as somebody relies on it.
SlotHolds ==
  /\ pc = "answer" /\ buf[1] = "next" => dfu = buf[3] /\ slot = Part(buf[2], dfu)
  /\ pc \in {"schedule", "swap", "save_id", "reboot"} => slot = Part(buf[2], Chunks)
  /\ pc \in {"swap", "save_id", "reboot"} => scheduled
  /\ pc \in InitPoints => ~scheduled

\* A saved update id is that of the image on trial, unless an earlier initialization
\* could not get rid of it.
IdOnTrial ==
  /\ pc = "ack" => confirmed
  /\ ~left_over =>
       /\ pc \notin InitPoints \cup {"reboot"} => update_id = Nothing
       /\ pc = "reboot" => update_id \in {Nothing, buf[2]}
       /\ pc \in InitPoints /\ update_id # Nothing /\ ~confirmed => image = update_id
       /\ pc = "confirm_image" /\ buf[2] # Nothing /\ ~confirmed => image = buf[2]
       /\ pc = "ack" /\ buf[2] # Nothing => image = buf[2]

\* How far the initialization has told the cloud of this image.
Synced ==
  /\ pc = "session" =>
       /\ queue # <<>>
       /\ Head(queue) = <<"session", [decoder |-> cloud.decoder,
                                      encoder |-> cloud.encoder, config |-> cloud.config]>>
  /\ pc \in InitPoints \ {"start", "wait", "session"} => m_session # Nothing
  /\ pc = "decoder" => m_session.decoder = cloud.decoder
  /\ pc \in {"decoder", "encoder"} => m_session.encoder = cloud.encoder
  /\ pc \in InitPoints \ {"start", "wait", "session", "decoder"} => cloud.decoder = image
  /\ pc \in InitPoints \ {"start", "wait", "session", "decoder", "encoder"} =>
       cloud.encoder = image
  /\ pc \in InitPoints => ~initialized

IInv ==
  /\ TypeOK /\ BufferFits /\ OneImage /\ SlotHolds /\ IdOnTrial /\ Synced
  /\ InitializedMeansSynced
-----------------------------------------------------------------------------
(* Type correctness *)

\* What init_work_handler(), the poll work and the application send.
Uplinks ==
  {<<"create_session">>, <<"data">>, <<"shell">>}
    \cup ({"decoder", "encoder"} \X Images) \cup ({"config"} \X Nat)
    \cup ({"download", "error", "swap"} \X Updates)
    \cup ({"ack"} \X (Updates \cup {Nothing}))
    \cup ({"next"} \X Updates \X (1..(Chunks - 1)))

\* The cloud takes an uplink: its queue and what it knows keep their types.
LEMMA CloudTyped ==
  ASSUME TypeOK, NEW up \in Uplinks, CloudTakes(up)
  PROVE  queue' \in Seq(Messages) /\ cloud' \in Clouds
<1>1. queue \in Seq(Messages) /\ cloud \in Clouds /\ Chunks \in Nat /\ 1 \in 1..Chunks
  BY SessionAssumption DEF TypeOK
<1>2. CASE /\ up[1] = "create_session" /\ UNCHANGED cloud
           /\ queue' = <<<<"session", [decoder |-> cloud.decoder, encoder |-> cloud.encoder,
                                       config |-> cloud.config]>>>> \o queue
  <2>1. <<"session", [decoder |-> cloud.decoder, encoder |-> cloud.encoder,
                      config |-> cloud.config]>> \in Messages
    BY <1>1 DEF Clouds, Sessions, Messages
  <2> QED
    BY <1>1, <1>2, <2>1, ElementsOfPush
<1>3. CASE /\ UNCHANGED queue
           /\ \/ up[1] = "decoder" /\ cloud' = [cloud EXCEPT !.decoder = up[2]]
              \/ up[1] = "encoder" /\ cloud' = [cloud EXCEPT !.encoder = up[2]]
              \/ up[1] = "config" /\ cloud' = [cloud EXCEPT !.config = up[2]]
              \/ up[1] = "error" /\ cloud' = [cloud EXCEPT !.serves = Nothing]
  BY <1>1, <1>3 DEF Clouds, Uplinks
<1>4. CASE /\ UNCHANGED queue /\ up[1] = "swap"
           /\ cloud' = [cloud EXCEPT !.swapped = @ \cup {up[2]}, !.serves = Nothing]
  <2>1. up[2] \in Updates
    BY <1>4 DEF Uplinks
  <2> QED
    BY <1>1, <1>4, <2>1 DEF Clouds
<1>5. CASE /\ UNCHANGED queue /\ up[1] = "ack"
           /\ cloud' = [cloud EXCEPT !.acked = @ \cup {up[2]}]
  BY <1>1, <1>5 DEF Clouds, Uplinks
<1>6. CASE /\ up[1] = "download"
           /\ queue' = Append(OtherThanChunks(queue), <<"chunk", up[2], 1>>)
           /\ cloud' = [cloud EXCEPT !.serves = up[2]]
  <2>1. up[2] \in Updates
    BY <1>6 DEF Uplinks
  <2>2. <<"chunk", up[2], 1>> \in Messages
    BY <1>1, <2>1 DEF Messages
  <2>3. cloud' \in Clouds
    BY <1>1, <1>6, <2>1 DEF Clouds
  <2> QED
    BY <1>1, <1>6, <2>2, <2>3, OthersKept, ElementsOfAppend
<1>7. CASE /\ up[1] = "next" /\ UNCHANGED cloud
           /\ queue' = Append(queue, <<"chunk", up[2], up[3] + 1>>)
  <2>1. up \in {"next"} \X Updates \X (1..(Chunks - 1))
    BY <1>7 DEF Uplinks
  <2>2. up[3] + 1 \in 1..Chunks
    BY <1>1, <2>1
  <2>3. <<"chunk", up[2], up[3] + 1>> \in Messages
    BY <2>1, <2>2 DEF Messages
  <2> QED
    BY <1>1, <1>7, <2>3, ElementsOfAppend
<1>8. CASE UNCHANGED outside
  BY <1>1, <1>8 DEF outside
<1> QED
  BY <1>2, <1>3, <1>4, <1>5, <1>6, <1>7, <1>8 DEF CloudTakes

\* Faults are used up one by one.
LEMMA FaultTyped ==
  ASSUME TypeOK, NEW kind, Fault(kind)
  PROVE  faults' \in 0..MaxFaults
BY SessionAssumption DEF TypeOK, Fault

\* An uplink that works or fails keeps the types of what it changes.
LEMMA UplinkTyped ==
  ASSUME TypeOK, NEW up \in Uplinks, UplinkWorks(up) \/ UplinkFails(up)
  PROVE  /\ queue' \in Seq(Messages) /\ cloud' \in Clouds /\ told' \in BOOLEAN
         /\ faults' \in 0..MaxFaults /\ pushes' \in 0..MaxPushes
<1>1. queue \in Seq(Messages) /\ cloud \in Clouds /\ told \in BOOLEAN
      /\ faults \in 0..MaxFaults /\ pushes \in 0..MaxPushes
  BY DEF TypeOK
<1>2. CASE UplinkWorks(up)
  BY <1>1, <1>2, CloudTyped DEF UplinkWorks
<1>3. CASE UplinkFails(up)
  BY <1>1, <1>3, CloudTyped, FaultTyped DEF UplinkFails, outside
<1> QED
  BY <1>2, <1>3

\* So does a downlink; what it takes is the first message or nothing.
LEMMA DownlinkTyped ==
  ASSUME TypeOK, Downlink(Waiting) \/ DownlinkFails
  PROVE  /\ queue' \in Seq(Messages) /\ cloud' \in Clouds /\ told' \in BOOLEAN
         /\ faults' \in 0..MaxFaults /\ pushes' \in 0..MaxPushes
         /\ cloud' = cloud /\ Elements(queue') \subseteq Elements(queue)
<1>1. queue \in Seq(Messages) /\ cloud \in Clouds /\ told \in BOOLEAN
      /\ faults \in 0..MaxFaults /\ pushes \in 0..MaxPushes
  BY DEF TypeOK
<1>2. CASE Downlink(Waiting)
  <2>1. CASE queue # <<>> /\ queue' = Tail(queue) /\ UNCHANGED faults
    BY <1>1, <1>2, <2>1, ElementsOfTail DEF Downlink
  <2>2. CASE UNCHANGED <<queue, faults>>
    BY <1>1, <1>2, <2>2 DEF Downlink
  <2>3. CASE Fault("downlink_again") /\ UNCHANGED queue
    BY <1>1, <1>2, <2>3, FaultTyped DEF Downlink
  <2> QED
    BY <1>2, <2>1, <2>2, <2>3 DEF Downlink
<1>3. CASE DownlinkFails
  BY <1>1, <1>3, FaultTyped DEF DownlinkFails, outside
<1> QED
  BY <1>2, <1>3

\* What waits at the cloud is one of the messages.
LEMMA WaitingTyped ==
  ASSUME TypeOK, queue # <<>>
  PROVE  /\ Waiting \in Messages /\ Waiting \in Elements(queue) /\ Kind = Waiting[1]
         /\ Kind = "session" => Waiting[2] \in Sessions
         /\ Kind = "chunk" => Waiting \in ChunkMessages
         /\ Kind = "config" => Waiting = <<"config">>
         /\ Kind = "shell" => Waiting = <<"shell">>
<1>1. queue \in Seq(Messages)
  BY DEF TypeOK
<1>2. Head(queue) \in Messages /\ Head(queue) \in Elements(queue)
  BY <1>1, ElementsOfTail
<1>3. Waiting = Head(queue) /\ Kind = Head(queue)[1]
  BY DEF Waiting, Kind
<1> QED
  BY <1>2, <1>3 DEF Messages, ChunkMessages

\* The first element of a whole image says which image it is.
LEMMA WholeStarts ==
  ASSUME Whole(slot)
  PROVE  slot[1][1] \in Images /\ slot = WholeImage(slot[1][1])
<1>1. PICK i \in Images : slot = WholeImage(i)
  BY DEF Whole
<1>2. 1 \in 1..Chunks
  BY SessionAssumption
<1>3. slot[1] = <<i, 1>>
  BY <1>1, <1>2 DEF WholeImage
<1> QED
  BY <1>1, <1>3

\* The bootloader and the reset of the RAM keep the types.
LEMMA BootTyped ==
  ASSUME TypeOK, Boot
  PROVE  /\ pc' = "start" /\ m_session' = Nothing /\ initialized' = FALSE
         /\ poll' = "none" /\ told' = FALSE /\ dfu' = Nothing /\ scheduled' = FALSE
         /\ image' \in Images /\ confirmed' \in BOOLEAN
<1>1. CASE Whole(slot) /\ (scheduled \/ ~confirmed)
  <2>1. image' = slot[1][1] /\ confirmed' = ~scheduled
    BY <1>1 DEF Boot
  <2> QED
    BY <1>1, <2>1, WholeStarts DEF Boot, Goto, TypeOK
<1>2. CASE ~(Whole(slot) /\ (scheduled \/ ~confirmed))
  BY <1>2 DEF Boot, Goto, TypeOK
<1> QED
  BY <1>1, <1>2

\* The steps of init_work_handler() keep the types.
LEMMA InitWorkTyped ==
  ASSUME TypeOK, BufferFits, Synced, InitWork
  PROVE  TypeOK'
<1> USE DEF TypeOK
<1>1. CASE InitBegins \/ InitEnds
  BY <1>1 DEF InitBegins, InitEnds, Goto, ram, flash, outside
<1>2. CASE CreateSession
  <2>1. <<"create_session">> \in Uplinks
    BY DEF Uplinks
  <2> QED
    BY <1>2, <2>1, UplinkTyped DEF CreateSession, Goto, flash
<1>3. CASE TakeSession
  <2>1. CASE Downlink(Waiting) /\ m_session' = Waiting[2]
    <3>1. queue # <<>> /\ Kind = "session"
      BY <1>3 DEF TakeSession, Synced, Kind
    <3> QED
      BY <1>3, <2>1, <3>1, DownlinkTyped, WaitingTyped
      DEF TakeSession, Goto, flash, Schedule
  <2>2. CASE DownlinkFails /\ UNCHANGED <<m_session, poll>>
    BY <1>3, <2>2, DownlinkTyped DEF TakeSession, Goto, flash
  <2> QED
    BY <1>3, <2>1, <2>2 DEF TakeSession
<1>4. CASE UploadDecoder
  <2>1. <<"decoder", image>> \in Uplinks
    BY DEF Uplinks
  <2>2. m_session \in Sessions
    BY <1>4 DEF UploadDecoder, UploadOnce, Synced, InitPoints
  <2>3. [m_session EXCEPT !.decoder = image] \in Sessions
    BY <2>2 DEF Sessions
  <2> QED
    BY <1>4, <2>1, <2>3, UplinkTyped
    DEF UploadDecoder, UploadOnce, Uplink, Goto, flash, Schedule, outside
<1>5. CASE UploadEncoder
  <2>1. <<"encoder", image>> \in Uplinks
    BY DEF Uplinks
  <2>2. m_session \in Sessions
    BY <1>5 DEF UploadEncoder, UploadOnce, Synced, InitPoints
  <2>3. [m_session EXCEPT !.encoder = image] \in Sessions
    BY <2>2 DEF Sessions
  <2> QED
    BY <1>5, <2>1, <2>3, UplinkTyped
    DEF UploadEncoder, UploadOnce, Uplink, Goto, flash, Schedule, outside
<1>6. CASE UploadConfig
  <2>1. <<"config", config>> \in Uplinks
    BY DEF Uplinks
  <2>2. m_session \in Sessions
    BY <1>6 DEF UploadConfig, Synced, InitPoints
  <2>3. [m_session EXCEPT !.config = config] \in Sessions
    BY <2>2 DEF Sessions
  <2> QED
    BY <1>6, <2>1, <2>3, UplinkTyped
    DEF UploadConfig, Uplink, Goto, flash, Schedule, outside
<1>7. CASE ReadUpdateId
  <2>1. update_id' \in {update_id, Nothing} /\ pc' \in {"done", "confirm_image"}
    BY <1>7 DEF ReadUpdateId, Goto
  <2>2. faults' \in 0..MaxFaults
    BY <1>7, FaultTyped DEF ReadUpdateId
  <2> QED
    BY <1>7, <2>1, <2>2 DEF ReadUpdateId, ram, outside
<1>8. CASE ConfirmImage
  BY <1>8, FaultTyped DEF ConfirmImage, Goto, ram, outside
<1>9. CASE ReportConfirmed
  <2>1. buf \in Uplinks
    BY <1>9 DEF ReportConfirmed, BufferFits, Uplinks
  <2> QED
    BY <1>9, <2>1, UplinkTyped DEF ReportConfirmed, Uplink, Goto, flash, Schedule
<1> QED
  BY <1>1, <1>2, <1>3, <1>4, <1>5, <1>6, <1>7, <1>8, <1>9 DEF InitWork

\* The steps of the poll work keep the types.
LEMMA PollWorkTyped ==
  ASSUME TypeOK, BufferFits, PollWork
  PROVE  TypeOK'
<1> USE DEF TypeOK
<1>1. CASE Poll \/ ChunkMismatch
  BY <1>1 DEF Poll, ChunkMismatch, PollFails, Goto, ram, flash, outside, Schedule
<1>2. CASE PollRefused
  BY <1>2, DownlinkTyped DEF PollRefused, PollFails, Goto, flash, Schedule
<1>3. CASE PollSimple
  <2>1. m_session' \in Sessions \cup {Nothing}
    <3>1. Kind = "session" => queue # <<>>
      BY DEF Kind
    <3> QED
      BY <1>3, <3>1, WaitingTyped DEF PollSimple
  <2> QED
    BY <1>3, <2>1, DownlinkTyped DEF PollSimple, PollEnds, Goto, flash, Schedule
<1>4. CASE PollMore
  BY <1>4, DownlinkTyped DEF PollMore, Goto, flash
<1>5. CASE Answer
  <2>1. buf \in Uplinks
    BY <1>5 DEF Answer, BufferFits, Uplinks
  <2> QED
    BY <1>5, <2>1, UplinkTyped DEF Answer, PollEnds, PollFails, Goto, flash, Schedule
<1>6. CASE ProcessConfig
  <2>1. CASE Boot /\ config' = config + 1 /\ UNCHANGED faults
    <3>1. config' \in Nat /\ UNCHANGED <<update_id, left_over, outside, pushes, faults>>
      BY <1>6, <2>1 DEF ProcessConfig
    <3> QED
      BY <2>1, <3>1, BootTyped DEF outside
  <2>2. CASE /\ Fault("config") /\ PollFails
             /\ UNCHANGED <<m_session, initialized, told, dfu, slot, scheduled, image,
                            confirmed, config>>
    BY <1>6, <2>2, FaultTyped DEF ProcessConfig, PollFails, Goto, Schedule, outside
  <2> QED
    BY <1>6, <2>1, <2>2 DEF ProcessConfig
<1>7. CASE RefuseChunk
  BY <1>7, FaultTyped DEF RefuseChunk, Goto, flash, outside
<1>8. CASE WriteChunk
  <2>1. /\ buf[3] \in 1..Chunks /\ Chunks \in Nat /\ 0 \in 0..Chunks /\ 1 \in 0..Chunks
        /\ buf[3] # 1 => dfu = buf[3] - 1 /\ dfu \in 0..Chunks /\ dfu + 1 \in 0..Chunks
    <3>1. buf \in ChunkMessages
      BY <1>8 DEF WriteChunk, BufferFits
    <3>2. buf[3] \in 1..Chunks /\ Chunks \in Nat /\ Chunks > 1
      BY <3>1, SessionAssumption DEF ChunkMessages
    <3>3. buf[3] # 1 => dfu = buf[3] - 1
      BY <1>8 DEF WriteChunk, Expected
    <3> QED
      BY <3>2, <3>3
  <2>2. dfu' \in 0..Chunks
    BY <1>8, <2>1 DEF WriteChunk
  <2>3. poll' \in {"none", "now", "later"} /\ faults' \in 0..MaxFaults /\ scheduled' \in BOOLEAN
    BY <1>8, FaultTyped DEF WriteChunk, PollFails, Schedule
  <2>4. pc' \in {"schedule", "answer", "idle"}
    BY <1>8 DEF WriteChunk, PollFails, Goto
  <2> QED
    BY <1>8, <2>2, <2>3, <2>4 DEF WriteChunk, outside
<1>9. CASE ScheduleUpdate
  BY <1>9, FaultTyped DEF ScheduleUpdate, PollFails, Goto, Schedule, outside
<1>10. CASE ReportSwap
  <2>1. <<"swap", buf[2]>> \in Uplinks
    BY <1>10 DEF ReportSwap, BufferFits, Uplinks, ChunkMessages
  <2> QED
    BY <1>10, <2>1, UplinkTyped DEF ReportSwap, PollFails, Goto, flash, Schedule
<1>11. CASE SaveUpdateId
  <2>1. buf[2] \in Updates
    BY <1>11 DEF SaveUpdateId, BufferFits, ChunkMessages
  <2> QED
    BY <1>11, <2>1, FaultTyped DEF SaveUpdateId, Goto, ram, outside
<1>12. CASE Reboot
  BY <1>12, BootTyped DEF Reboot, outside
<1> QED
  BY <1>1, <1>2, <1>3, <1>4, <1>5, <1>6, <1>7, <1>8, <1>9, <1>10, <1>11, <1>12 DEF PollWork

\* So do the application, the timers, the cloud and a reset.
LEMMA OthersTyped ==
  ASSUME TypeOK,
         RetryDue \/ AppUplink \/ PollAsked \/ CloudPushes \/ CloudRestarts \/ Reset
  PROVE  TypeOK'
<1> USE DEF TypeOK
<1>1. CASE RetryDue \/ PollAsked
  BY <1>1 DEF RetryDue, PollAsked, Schedule, flash, outside
<1>2. CASE AppUplink
  <2>1. pushes' \in 0..MaxPushes
    BY <1>2, SessionAssumption DEF AppUplink
  <2>2. PICK up \in {<<"data">>} \cup {<<"download", u>> : u \in Updates \ {image}} :
           \/ /\ CloudTakes(up)
              /\ told' = (queue' # <<>>)
              /\ poll' = IF told' THEN Schedule("now") ELSE poll
              /\ UNCHANGED faults
           \/ Fault("uplink") /\ UNCHANGED <<outside, told, poll>>
    BY <1>2 DEF AppUplink
  <2>3. up \in Uplinks
    BY DEF Uplinks
  <2>4. CASE /\ CloudTakes(up)
             /\ told' = (queue' # <<>>)
             /\ poll' = IF told' THEN Schedule("now") ELSE poll
             /\ UNCHANGED faults
    <3>1. queue' \in Seq(Messages) /\ cloud' \in Clouds
      BY <2>3, <2>4, CloudTyped
    <3> QED
      BY <1>2, <2>1, <2>4, <3>1 DEF AppUplink, Schedule, flash
  <2>5. CASE Fault("uplink") /\ UNCHANGED <<outside, told, poll>>
    BY <1>2, <2>1, <2>5, FaultTyped DEF AppUplink, flash, outside
  <2> QED
    BY <2>2, <2>4, <2>5
<1>3. CASE CloudPushes
  <2>1. pushes' \in 0..MaxPushes
    BY <1>3, SessionAssumption DEF CloudPushes
  <2>2. PICK kind \in {"data", "shell", "config"} : queue' = Append(queue, <<kind>>)
    BY <1>3 DEF CloudPushes
  <2>3. <<kind>> \in Messages
    BY DEF Messages
  <2>4. queue' \in Seq(Messages)
    BY <2>2, <2>3, ElementsOfAppend
  <2> QED
    BY <1>3, <2>1, <2>4 DEF CloudPushes, ram, flash
<1>4. CASE CloudRestarts
  <2>1. <<"chunk", cloud.serves, 1>> \in Messages
    BY <1>4, SessionAssumption DEF CloudRestarts, Messages, Clouds
  <2>2. queue' \in Seq(Messages)
    BY <1>4, <2>1, OthersKept, ElementsOfAppend DEF CloudRestarts
  <2> QED
    BY <1>4, <2>2, FaultTyped DEF CloudRestarts, ram, flash
<1>5. CASE Reset
  BY <1>5, BootTyped, FaultTyped DEF Reset, outside
<1> QED
  BY <1>1, <1>2, <1>3, <1>4, <1>5

-----------------------------------------------------------------------------
(* The buffer *)

\* The steps of init_work_handler() leave in the buffer what the next one expects.
LEMMA InitWorkBuffer ==
  ASSUME TypeOK, BufferFits, InitWork
  PROVE  BufferFits'
<1>1. CASE ReadUpdateId
  <2>1. \/ pc' = "done"
        \/ pc' = "confirm_image" /\ buf' \in {"ack"} \X {update_id, Nothing}
    BY <1>1 DEF ReadUpdateId, Goto
  <2> QED
    BY <2>1 DEF TypeOK, BufferFits
<1>2. CASE ConfirmImage
  <2>1. UNCHANGED buf /\ pc = "confirm_image" /\ pc' \in {"done", "ack"}
    BY <1>2 DEF ConfirmImage, Goto
  <2> QED
    BY <2>1 DEF BufferFits
<1>3. CASE ~ReadUpdateId /\ ~ConfirmImage
  <2>1. pc' \in {"wait", "session", "decoder", "encoder", "upload_config", "confirm",
                 "done", "idle"}
    BY <1>3 DEF InitWork, InitBegins, CreateSession, TakeSession, UploadDecoder,
                UploadEncoder, UploadOnce, UploadConfig, ReportConfirmed, InitEnds, Goto
  <2> QED
    BY <2>1 DEF BufferFits
<1> QED
  BY <1>1, <1>2, <1>3

\* So do the steps of the poll work.
LEMMA PollWorkBuffer ==
  ASSUME TypeOK, BufferFits, PollWork
  PROVE  BufferFits'
<1>1. CASE PollMore
  <2>1. queue # <<>> /\ Kind \in {"shell", "config", "chunk"}
    BY <1>1 DEF PollMore, Kind
  <2>2. buf' = Waiting /\ pc' = IF Kind = "shell" THEN "answer" ELSE Kind
    BY <1>1 DEF PollMore, Goto
  <2> QED
    BY <2>1, <2>2, WaitingTyped DEF BufferFits
<1>2. CASE RefuseChunk
  <2>1. pc' = "answer" /\ buf' = <<"error", buf[2]>>
    BY <1>2 DEF RefuseChunk, Goto
  <2>2. buf[2] \in Updates
    BY <1>2 DEF RefuseChunk, BufferFits, ChunkMessages
  <2> QED
    BY <2>1, <2>2 DEF BufferFits
<1>3. CASE WriteChunk
  <2>1. buf \in ChunkMessages
    BY <1>3 DEF WriteChunk, BufferFits
  <2>2. \/ pc' = "idle"
        \/ pc' = "schedule" /\ buf' = buf
        \/ pc' = "answer" /\ buf' = <<"next", buf[2], dfu'>> /\ dfu' # Chunks
             /\ dfu' = (IF buf[3] = 1 THEN 0 ELSE dfu) + 1
    BY <1>3 DEF WriteChunk, PollFails, Goto
  <2>3. CASE pc' = "answer" /\ buf' = <<"next", buf[2], dfu'>> /\ dfu' # Chunks
               /\ dfu' = (IF buf[3] = 1 THEN 0 ELSE dfu) + 1
    <3>1. buf[2] \in Updates /\ buf[3] \in 1..Chunks /\ Chunks \in Nat
      BY <2>1, SessionAssumption DEF ChunkMessages
    <3>2. buf[3] # 1 => dfu = buf[3] - 1
      BY <1>3 DEF WriteChunk, Expected
    <3>3. dfu' \in 1..(Chunks - 1)
      BY <2>3, <3>1, <3>2
    <3> QED
      BY <2>3, <3>1, <3>3 DEF BufferFits
  <2> QED
    BY <2>1, <2>2, <2>3 DEF BufferFits
<1>4. CASE ScheduleUpdate \/ ReportSwap \/ SaveUpdateId
  <2>1. \/ pc' = "idle"
        \/ pc' \in {"swap", "save_id", "reboot"} /\ buf' = buf /\ buf \in ChunkMessages
    BY <1>4 DEF ScheduleUpdate, ReportSwap, SaveUpdateId, PollFails, Goto, BufferFits
  <2> QED
    BY <2>1 DEF BufferFits
<1>5. CASE Poll \/ PollRefused \/ PollSimple \/ Answer \/ ProcessConfig \/ ChunkMismatch \/ Reboot
  <2>1. pc' \in {"poll", "idle", "start"}
    BY <1>5 DEF Poll, PollRefused, PollSimple, Answer, ProcessConfig, ChunkMismatch,
                Reboot, PollFails, PollEnds, Boot, Goto
  <2> QED
    BY <2>1 DEF BufferFits
<1> QED
  BY <1>1, <1>2, <1>3, <1>4, <1>5 DEF PollWork

\* The others leave it alone, or the device starts anew.
LEMMA OthersBuffer ==
  ASSUME BufferFits,
         RetryDue \/ AppUplink \/ PollAsked \/ CloudPushes \/ CloudRestarts \/ Reset
  PROVE  BufferFits'
<1>1. UNCHANGED <<pc, buf>> \/ pc' = "start"
  BY DEF RetryDue, AppUplink, PollAsked, CloudPushes, CloudRestarts, Reset, Boot, Goto
<1> QED
  BY <1>1 DEF BufferFits

-----------------------------------------------------------------------------
(* The chunks under way *)

\* The chunks under way are of one image after a step that adds none.
LEMMA FewerChunks ==
  ASSUME TypeOK, OneImage, UnderWay' \subseteq UnderWay,
         cloud'.serves \in {cloud.serves, Nothing},
         UNCHANGED <<dfu, slot>> \/ dfu' = Nothing
  PROVE  OneImage'
BY SessionAssumption DEF OneImage

\* The cloud adds a chunk only for a download and for a request of the next one.
LEMMA CloudAddsChunks ==
  ASSUME TypeOK, NEW up \in Uplinks, CloudTakes(up), up[1] # "download"
  PROVE  /\ cloud'.serves \in {cloud.serves, Nothing}
         /\ \/ Elements(queue') \cap ChunkMessages \subseteq Elements(queue)
            \/ /\ up[1] = "next" /\ cloud.serves = up[2] /\ cloud' = cloud
               /\ Elements(queue') = Elements(queue) \cup {<<"chunk", up[2], up[3] + 1>>}
<1>1. queue \in Seq(Messages) /\ cloud \in Clouds
  BY DEF TypeOK
<1>2. CASE /\ up[1] = "create_session" /\ UNCHANGED cloud
           /\ queue' = <<<<"session", [decoder |-> cloud.decoder, encoder |-> cloud.encoder,
                                       config |-> cloud.config]>>>> \o queue
  <2>1. PICK m : m = <<"session", [decoder |-> cloud.decoder, encoder |-> cloud.encoder,
                                   config |-> cloud.config]>>
    OBVIOUS
  <2>2. m \in Messages /\ m \notin ChunkMessages
    BY <1>1, <2>1 DEF Clouds, Sessions, Messages, ChunkMessages
  <2>3. Elements(<<m>> \o queue) = Elements(queue) \cup {m}
    BY <1>1, <2>2, ElementsOfPush
  <2>4. queue' = <<m>> \o queue
    BY <1>2, <2>1
  <2> QED
    BY <1>2, <2>2, <2>3, <2>4
<1>3. CASE UNCHANGED queue /\ cloud'.serves \in {cloud.serves, Nothing}
  BY <1>3
<1>4. CASE /\ up[1] = "next" /\ cloud.serves = up[2] /\ UNCHANGED cloud
           /\ queue' = Append(queue, <<"chunk", up[2], up[3] + 1>>)
  <2>1. up \in {"next"} \X Updates \X (1..(Chunks - 1)) /\ Chunks \in Nat
    BY <1>4, SessionAssumption DEF Uplinks
  <2>2. up[3] + 1 \in 1..Chunks
    BY <2>1
  <2>3. <<"chunk", up[2], up[3] + 1>> \in Messages
    BY <2>1, <2>2 DEF Messages
  <2>4. PICK m : m = <<"chunk", up[2], up[3] + 1>>
    OBVIOUS
  <2>5. Elements(Append(queue, m)) = Elements(queue) \cup {m}
    BY <1>1, <2>3, <2>4, ElementsOfAppend
  <2>6. queue' = Append(queue, m)
    BY <1>4, <2>4
  <2> QED
    BY <1>4, <2>4, <2>5, <2>6
<1>5. \/ /\ up[1] = "create_session" /\ UNCHANGED cloud
         /\ queue' = <<<<"session", [decoder |-> cloud.decoder, encoder |-> cloud.encoder,
                                     config |-> cloud.config]>>>> \o queue
      \/ UNCHANGED queue /\ cloud'.serves \in {cloud.serves, Nothing}
      \/ /\ up[1] = "next" /\ cloud.serves = up[2] /\ UNCHANGED cloud
         /\ queue' = Append(queue, <<"chunk", up[2], up[3] + 1>>)
  BY <1>1 DEF CloudTakes, Clouds, outside
<1> QED
  BY <1>2, <1>3, <1>4, <1>5

\* An uplink of init_work_handler() or of the poll work, other than a request of the
\* next chunk, adds none.
LEMMA UplinkAddsNone ==
  ASSUME TypeOK, NEW up \in Uplinks, up[1] \notin {"download", "next"},
         UplinkWorks(up) \/ UplinkFails(up)
  PROVE  /\ cloud'.serves \in {cloud.serves, Nothing}
         /\ Elements(queue') \cap ChunkMessages \subseteq Elements(queue)
<1>1. CASE CloudTakes(up)
  BY <1>1, CloudAddsChunks
<1>2. CASE UNCHANGED outside
  BY <1>2 DEF outside
<1> QED
  BY <1>1, <1>2 DEF UplinkWorks, UplinkFails

\* Under way are no more chunks than before when none comes to the queue and the
\* buffer takes none but from there.
LEMMA UnderWayShrinks ==
  ASSUME Elements(queue') \cap ChunkMessages \subseteq Elements(queue),
         pc' = "chunk" => buf' \in Elements(queue) \/ (pc = "chunk" /\ buf' = buf)
  PROVE  UnderWay' \subseteq UnderWay
BY DEF UnderWay, ChunkMessages

\* The steps of init_work_handler() add no chunk.
LEMMA InitWorkOneImage ==
  ASSUME TypeOK, BufferFits, OneImage, InitWork
  PROVE  OneImage'
<1>1. /\ UNCHANGED <<dfu, slot>> /\ pc' # "chunk"
      /\ \/ UNCHANGED outside
         \/ Downlink(Waiting) \/ DownlinkFails
         \/ \E up \in Uplinks :
              up[1] \notin {"download", "next"} /\ (UplinkWorks(up) \/ UplinkFails(up))
  <2>1. CASE InitBegins \/ ReadUpdateId \/ ConfirmImage \/ InitEnds
    BY <2>1 DEF InitBegins, ReadUpdateId, ConfirmImage, InitEnds, Goto, ram, flash
  <2>2. CASE CreateSession
    <3>1. <<"create_session">> \in Uplinks
      BY DEF Uplinks
    <3>2. UplinkWorks(<<"create_session">>) \/ UplinkFails(<<"create_session">>)
      BY <2>2 DEF CreateSession
    <3> QED
      BY <2>2, <3>1, <3>2 DEF CreateSession, Goto, flash
  <2>3. CASE TakeSession
    BY <2>3 DEF TakeSession, Goto, flash
  <2>4. CASE UploadDecoder
    <3>1. <<"decoder", image>> \in Uplinks
      BY DEF Uplinks, TypeOK
    <3>2. \/ UNCHANGED outside
          \/ UplinkWorks(<<"decoder", image>>) \/ UplinkFails(<<"decoder", image>>)
      BY <2>4 DEF UploadDecoder, UploadOnce, Uplink
    <3> QED
      BY <2>4, <3>1, <3>2 DEF UploadDecoder, UploadOnce, Goto, flash
  <2>5. CASE UploadEncoder
    <3>1. <<"encoder", image>> \in Uplinks
      BY DEF Uplinks, TypeOK
    <3>2. \/ UNCHANGED outside
          \/ UplinkWorks(<<"encoder", image>>) \/ UplinkFails(<<"encoder", image>>)
      BY <2>5 DEF UploadEncoder, UploadOnce, Uplink
    <3> QED
      BY <2>5, <3>1, <3>2 DEF UploadEncoder, UploadOnce, Goto, flash
  <2>6. CASE UploadConfig
    <3>1. <<"config", config>> \in Uplinks
      BY DEF Uplinks, TypeOK
    <3>2. \/ UNCHANGED outside
          \/ UplinkWorks(<<"config", config>>) \/ UplinkFails(<<"config", config>>)
      BY <2>6 DEF UploadConfig, Uplink
    <3> QED
      BY <2>6, <3>1, <3>2 DEF UploadConfig, Goto, flash
  <2>7. CASE ReportConfirmed
    <3>1. buf \in {"ack"} \X (Updates \cup {Nothing})
      BY <2>7 DEF ReportConfirmed, BufferFits
    <3>2. buf \in Uplinks /\ buf[1] \notin {"download", "next"}
      BY <3>1 DEF Uplinks
    <3>3. UplinkWorks(buf) \/ UplinkFails(buf)
      BY <2>7 DEF ReportConfirmed, Uplink
    <3> QED
      BY <2>7, <3>2, <3>3 DEF ReportConfirmed, Goto, flash
  <2> QED
    BY <2>1, <2>2, <2>3, <2>4, <2>5, <2>6, <2>7 DEF InitWork
<1>2. /\ Elements(queue') \cap ChunkMessages \subseteq Elements(queue)
      /\ cloud'.serves \in {cloud.serves, Nothing}
  <2>1. CASE UNCHANGED outside
    BY <2>1 DEF outside
  <2>2. CASE Downlink(Waiting) \/ DownlinkFails
    BY <2>2, DownlinkTyped
  <2>3. CASE \E up \in Uplinks :
               up[1] \notin {"download", "next"} /\ (UplinkWorks(up) \/ UplinkFails(up))
    BY <2>3, UplinkAddsNone
  <2> QED
    BY <1>1, <2>1, <2>2, <2>3
<1> QED
  BY <1>1, <1>2, UnderWayShrinks, FewerChunks

\* The answer of a chunk asks for the next one of the image that the slot holds.
LEMMA AnswerOneImage ==
  ASSUME TypeOK, BufferFits, OneImage, SlotHolds, Answer
  PROVE  OneImage'
<1>1. pc' = "idle" /\ UNCHANGED <<dfu, slot>> /\ (UplinkWorks(buf) \/ UplinkFails(buf))
  BY DEF Answer, PollEnds, PollFails, Goto, flash
<1>2. buf \in Uplinks /\ buf[1] # "download"
  BY DEF Answer, BufferFits, Uplinks
<1>3. CASE UNCHANGED outside
  BY <1>1, <1>3, UnderWayShrinks, FewerChunks DEF outside
<1>4. CASE CloudTakes(buf)
  <2>1. CASE Elements(queue') \cap ChunkMessages \subseteq Elements(queue)
    BY <1>1, <1>2, <1>4, <2>1, CloudAddsChunks, UnderWayShrinks, FewerChunks
  <2>2. CASE /\ buf[1] = "next" /\ cloud.serves = buf[2] /\ cloud' = cloud
             /\ Elements(queue') = Elements(queue) \cup {<<"chunk", buf[2], buf[3] + 1>>}
    <3>1. dfu = buf[3] /\ slot = Part(buf[2], dfu)
      BY <2>2 DEF Answer, SlotHolds
    <3>2. buf[2] \in Updates /\ buf[2] # Nothing
      BY <2>2, SessionAssumption DEF Answer, BufferFits
    <3>3. PICK n : n = <<"chunk", buf[2], buf[3] + 1>>
      OBVIOUS
    <3>4. UnderWay' \subseteq UnderWay \cup {n} /\ n[2] = buf[2]
      BY <1>1, <2>2, <3>3 DEF UnderWay
    <3>5. \A m \in UnderWay' : m[2] = buf[2]
      BY <2>2, <3>2, <3>4 DEF OneImage
    <3> QED
      BY <1>1, <2>2, <3>1, <3>2, <3>5 DEF OneImage
  <2> QED
    BY <1>2, <1>4, <2>1, <2>2, CloudAddsChunks
<1> QED
  BY <1>1, <1>3, <1>4 DEF UplinkWorks, UplinkFails

\* A chunk that follows the last one written completes a longer part of its image.
LEMMA PartGrows ==
  ASSUME NEW i, NEW k \in 1..Chunks
  PROVE  /\ Part(i, 1) = Append(<<>>, <<i, 1>>)
         /\ Part(i, k) = Append(Part(i, k - 1), <<i, k>>)
         /\ Part(i, Chunks) = WholeImage(i)
<1>1. k \in Nat /\ k - 1 \in Nat /\ k # 0
  BY SessionAssumption
<1>2. Part(i, k - 1) \in Seq({i} \X Nat) /\ Len(Part(i, k - 1)) = k - 1
  BY <1>1 DEF Part
<1>3. Part(i, k) = Append(Part(i, k - 1), <<i, k>>)
  <2> DEFINE p == Append(Part(i, k - 1), <<i, k>>)
  <2>1. p \in Seq({i} \X Nat) /\ Len(p) = k
    BY <1>1, <1>2
  <2>2. \A n \in 1..k : p[n] = <<i, n>>
    BY <1>1, <1>2 DEF Part
  <2>3. p = [n \in 1..k |-> p[n]]
    BY <2>1
  <2> HIDE DEF p
  <2>4. p = [n \in 1..k |-> <<i, n>>]
    BY <2>2, <2>3
  <2> QED
    BY <2>4 DEF Part, p
<1>4. Part(i, 1) = Append(<<>>, <<i, 1>>)
  <2>1. Append(<<>>, <<i, 1>>) = <<<<i, 1>>>>
    OBVIOUS
  <2>2. Part(i, 1) = <<<<i, 1>>>>
    BY DEF Part
  <2> QED
    BY <2>1, <2>2
<1>5. Part(i, Chunks) = WholeImage(i)
  BY DEF Part, WholeImage
<1> QED
  BY <1>3, <1>4, <1>5

\* A chunk that is written leaves in the slot the chunks of its image up to this one.
LEMMA ChunkWritten ==
  ASSUME BufferFits, OneImage, WriteChunk, pc' # "idle"
  PROVE  dfu' = buf[3] /\ slot' = Part(buf[2], dfu')
<1>1. buf \in ChunkMessages /\ buf \in UnderWay /\ buf[3] \in 1..Chunks /\ Chunks \in Nat
  BY SessionAssumption DEF WriteChunk, BufferFits, UnderWay, ChunkMessages
<1>2. CASE buf[3] = 1
  <2>1. slot' = Append(<<>>, <<buf[2], 1>>) /\ dfu' = 1
    BY <1>2 DEF WriteChunk, PollFails, Goto
  <2> QED
    BY <1>1, <1>2, <2>1, PartGrows
<1>3. CASE buf[3] # 1
  <2>1. slot' = Append(slot, <<buf[2], buf[3]>>) /\ dfu = buf[3] - 1 /\ dfu' = dfu + 1
    BY <1>3 DEF WriteChunk, Expected, PollFails, Goto
  <2>2. dfu # Nothing /\ dfu # 0 /\ dfu + 1 = buf[3]
    BY <1>1, <1>3, <2>1, SessionAssumption
  <2>3. slot = Part(buf[2], buf[3] - 1)
    BY <1>1, <1>3, <2>1, <2>2 DEF OneImage
  <2> QED
    BY <1>1, <2>1, <2>2, <2>3, PartGrows
<1> QED
  BY <1>2, <1>3

\* What is written is of the image that the other chunks under way are of.
LEMMA WriteOneImage ==
  ASSUME TypeOK, BufferFits, OneImage, WriteChunk
  PROVE  OneImage'
<1>1. /\ pc = "chunk" /\ pc' # "chunk" /\ queue' = queue /\ cloud' = cloud
      /\ buf \in ChunkMessages /\ buf \in UnderWay
  BY DEF WriteChunk, BufferFits, PollFails, Goto, outside, UnderWay
<1>2. UnderWay' \subseteq UnderWay
  BY <1>1 DEF UnderWay
<1>3. \A m \in UnderWay' : m[2] = buf[2]
  BY <1>1, <1>2 DEF OneImage
<1>4. CASE pc' = "idle"
  <2>1. IF buf[3] = 1 THEN dfu' = 0 ELSE UNCHANGED <<dfu, slot>>
    BY <1>4 DEF WriteChunk, Goto
  <2> QED
    BY <1>1, <1>2, <2>1 DEF OneImage
<1>5. CASE pc' # "idle"
  <2>1. slot' = Part(buf[2], dfu')
    BY <1>1, <1>5, ChunkWritten
  <2> QED
    BY <1>1, <1>2, <1>3, <2>1 DEF OneImage
<1> QED
  BY <1>4, <1>5

\* The steps of the poll work keep the chunks under way of one image.
LEMMA PollWorkOneImage ==
  ASSUME TypeOK, BufferFits, OneImage, SlotHolds, PollWork
  PROVE  OneImage'
<1>1. CASE Poll \/ ChunkMismatch \/ SaveUpdateId
  <2>1. UNCHANGED <<queue, cloud, dfu, slot>> /\ pc' # "chunk"
    BY <1>1 DEF Poll, ChunkMismatch, SaveUpdateId, PollFails, Goto, ram, flash, outside
  <2> QED
    BY <2>1, UnderWayShrinks, FewerChunks
<1>2. CASE PollRefused \/ PollSimple
  <2>1. UNCHANGED <<dfu, slot>> /\ pc' # "chunk" /\ (Downlink(Waiting) \/ DownlinkFails)
    BY <1>2 DEF PollRefused, PollSimple, PollFails, PollEnds, Goto, flash
  <2> QED
    BY <2>1, DownlinkTyped, UnderWayShrinks, FewerChunks
<1>3. CASE PollMore
  <2>1. UNCHANGED <<dfu, slot>> /\ Downlink(Waiting) /\ queue # <<>> /\ buf' = Waiting
    BY <1>3 DEF PollMore, Kind, flash
  <2> QED
    BY <2>1, DownlinkTyped, WaitingTyped, UnderWayShrinks, FewerChunks
<1>4. CASE RefuseChunk \/ ScheduleUpdate
  <2>1. UNCHANGED <<queue, cloud, slot>> /\ pc' # "chunk" /\ dfu' \in {dfu, Nothing}
    BY <1>4 DEF RefuseChunk, ScheduleUpdate, PollFails, Goto, flash, outside
  <2> QED
    BY <2>1, UnderWayShrinks, FewerChunks
<1>5. CASE ProcessConfig \/ Reboot
  <2>1. /\ UNCHANGED <<queue, cloud>> /\ pc' # "chunk"
        /\ dfu' = Nothing \/ UNCHANGED <<dfu, slot>>
    BY <1>5 DEF ProcessConfig, Reboot, PollFails, Boot, Goto, outside
  <2> QED
    BY <2>1, UnderWayShrinks, FewerChunks
<1>6. CASE ReportSwap
  <2>1. <<"swap", buf[2]>> \in Uplinks
    BY <1>6 DEF ReportSwap, BufferFits, Uplinks, ChunkMessages
  <2>2. /\ UNCHANGED <<dfu, slot>> /\ pc' # "chunk"
        /\ UplinkWorks(<<"swap", buf[2]>>) \/ UplinkFails(<<"swap", buf[2]>>)
    BY <1>6 DEF ReportSwap, PollFails, Goto, flash
  <2>3. /\ cloud'.serves \in {cloud.serves, Nothing}
        /\ Elements(queue') \cap ChunkMessages \subseteq Elements(queue)
    BY <2>1, <2>2, UplinkAddsNone
  <2> QED
    BY <2>2, <2>3, UnderWayShrinks, FewerChunks
<1> QED
  BY <1>1, <1>2, <1>3, <1>4, <1>5, <1>6, AnswerOneImage, WriteOneImage DEF PollWork

\* A download and a cloud that begins again leave only the first chunk under way.
LEMMA OthersOneImage ==
  ASSUME TypeOK, BufferFits, OneImage,
         RetryDue \/ AppUplink \/ PollAsked \/ CloudPushes \/ CloudRestarts \/ Reset
  PROVE  OneImage'
<1>0. queue \in Seq(Messages) /\ cloud \in Clouds /\ 1 \in 1..Chunks
  BY SessionAssumption DEF TypeOK
<1>1. CASE RetryDue \/ PollAsked \/ Reset
  <2>1. /\ UNCHANGED <<queue, cloud>>
        /\ UNCHANGED <<pc, buf>> \/ pc' # "chunk"
        /\ dfu' = Nothing \/ UNCHANGED <<dfu, slot>>
    BY <1>1 DEF RetryDue, PollAsked, Reset, Boot, Goto, outside, flash
  <2> QED
    BY <1>1, <2>1, UnderWayShrinks, FewerChunks DEF RetryDue, PollAsked, Reset, outside
<1>2. CASE CloudPushes
  <2>1. PICK kind \in {"data", "shell", "config"} : queue' = Append(queue, <<kind>>)
    BY <1>2 DEF CloudPushes
  <2>2. <<kind>> \in Messages /\ <<kind>> \notin ChunkMessages
    BY DEF Messages, ChunkMessages
  <2>3. Elements(Append(queue, <<kind>>)) = Elements(queue) \cup {<<kind>>}
    BY <1>0, <2>2, ElementsOfAppend
  <2>4. Elements(queue') \cap ChunkMessages \subseteq Elements(queue)
    BY <2>1, <2>2, <2>3
  <2>5. UNCHANGED <<pc, buf, dfu, slot, cloud>>
    BY <1>2 DEF CloudPushes, ram, flash
  <2> QED
    BY <2>4, <2>5, UnderWayShrinks, FewerChunks
<1>3. ASSUME NEW u \in Updates, queue' = Append(OtherThanChunks(queue), <<"chunk", u, 1>>)
      PROVE  Elements(queue') \cap ChunkMessages \subseteq {<<"chunk", u, 1>>}
  <2>1. PICK m : m = <<"chunk", u, 1>>
    OBVIOUS
  <2>2. m \in Messages
    BY <1>0, <2>1 DEF Messages
  <2>3. PICK q : q = OtherThanChunks(queue)
    OBVIOUS
  <2>4. q \in Seq(Messages) /\ Elements(q) \cap ChunkMessages = {}
    BY <1>0, <2>3, OthersKept DEF ChunkMessages
  <2>5. Elements(Append(q, m)) = Elements(q) \cup {m}
    BY <2>2, <2>4, ElementsOfAppend
  <2>6. queue' = Append(q, m)
    BY <1>3, <2>1, <2>3
  <2> QED
    BY <2>1, <2>4, <2>5, <2>6
<1>4. CASE CloudRestarts
  <2>1. cloud.serves \in Updates /\ UNCHANGED <<pc, buf, dfu, slot, cloud>>
    BY <1>0, <1>4 DEF CloudRestarts, Clouds, ram, flash
  <2>2. Elements(queue') \cap ChunkMessages \subseteq {<<"chunk", cloud.serves, 1>>}
    BY <1>3, <1>4, <2>1 DEF CloudRestarts
  <2>3. UnderWay' \subseteq UnderWay \cup {<<"chunk", cloud.serves, 1>>}
    BY <2>1, <2>2 DEF UnderWay
  <2>4. \A m \in UnderWay' : m[2] = cloud.serves
    BY <1>4, <2>3 DEF OneImage, CloudRestarts
  <2>5. \A m \in UnderWay' : m[3] # 1 => m \in UnderWay
    BY <2>3
  <2> QED
    BY <2>1, <2>4, <2>5 DEF OneImage
<1>5. CASE AppUplink
  <2>1. PICK up \in {<<"data">>} \cup {<<"download", u>> : u \in Updates \ {image}} :
           CloudTakes(up) \/ UNCHANGED outside
    BY <1>5 DEF AppUplink
  <2>2. up \in Uplinks /\ UNCHANGED <<pc, buf, dfu, slot>> /\ pc # "chunk"
    BY <1>5 DEF Uplinks, AppUplink, flash
  <2>3. CASE UNCHANGED outside
    BY <2>2, <2>3, UnderWayShrinks, FewerChunks DEF outside
  <2>4. CASE CloudTakes(up) /\ up[1] # "download"
    <3>1. up = <<"data">>
      BY <2>4
    <3>2. /\ cloud'.serves \in {cloud.serves, Nothing}
          /\ Elements(queue') \cap ChunkMessages \subseteq Elements(queue)
      BY <2>2, <2>4, <3>1, CloudAddsChunks
    <3> QED
      BY <2>2, <3>2, UnderWayShrinks, FewerChunks
  <2>5. CASE CloudTakes(up) /\ up[1] = "download"
    <3>1. PICK u \in Updates : up = <<"download", u>>
      BY <2>5
    <3>2. /\ queue' = Append(OtherThanChunks(queue), <<"chunk", u, 1>>)
          /\ cloud'.serves = u
      BY <1>0, <2>5, <3>1 DEF CloudTakes, Clouds
    <3>3. UnderWay' \subseteq {<<"chunk", u, 1>>}
      BY <1>3, <2>2, <3>2 DEF UnderWay
    <3>4. \A m \in UnderWay' : m[2] = u /\ m[3] = 1
      BY <3>3
    <3> QED
      BY <3>2, <3>4 DEF OneImage
  <2> QED
    BY <2>1, <2>3, <2>4, <2>5
<1> QED
  BY <1>1, <1>2, <1>4, <1>5

-----------------------------------------------------------------------------
(* The secondary slot and the image on trial *)

\* The slot holds what the poll work relies on, and no update is left scheduled when
\* the device initializes.
LEMMA SlotHoldsSteps ==
  ASSUME TypeOK, BufferFits, OneImage, SlotHolds, Next
  PROVE  SlotHolds'
<1>1. CASE InitWork
  <2>1. pc \in InitPoints /\ pc' \in InitPoints \cup {"idle"} /\ scheduled' = scheduled
    BY <1>1 DEF InitWork, InitBegins, CreateSession, TakeSession, UploadDecoder,
                UploadEncoder, UploadOnce, UploadConfig, ReadUpdateId, ConfirmImage,
                ReportConfirmed, InitEnds, Goto, flash, InitPoints
  <2> QED
    BY <2>1 DEF SlotHolds, InitPoints
<1>2. CASE Poll \/ PollRefused \/ PollSimple \/ Answer \/ ChunkMismatch
  <2>1. pc' \in {"poll", "idle"}
    BY <1>2 DEF Poll, PollRefused, PollSimple, Answer, ChunkMismatch, PollFails,
                PollEnds, Goto
  <2> QED
    BY <2>1 DEF SlotHolds, InitPoints
<1>3. CASE PollMore
  <2>1. /\ queue # <<>> /\ Kind \in {"shell", "config", "chunk"} /\ buf' = Waiting
        /\ pc' = IF Kind = "shell" THEN "answer" ELSE Kind
    BY <1>3 DEF PollMore, Kind, Goto
  <2>2. pc' = "answer" => buf' = <<"shell">>
    BY <2>1, WaitingTyped
  <2> QED
    BY <2>1, <2>2 DEF SlotHolds, InitPoints
<1>4. CASE RefuseChunk
  <2>1. pc' = "answer" /\ buf'[1] = "error"
    BY <1>4 DEF RefuseChunk, Goto
  <2> QED
    BY <2>1 DEF SlotHolds, InitPoints
<1>5. CASE WriteChunk
  <2>1. \/ pc' = "idle"
        \/ pc' = "schedule" /\ buf' = buf /\ dfu' = Chunks
        \/ pc' = "answer" /\ buf' = <<"next", buf[2], dfu'>>
    BY <1>5 DEF WriteChunk, PollFails, Goto
  <2> QED
    BY <1>5, <2>1, ChunkWritten DEF SlotHolds, InitPoints
<1>6. CASE ScheduleUpdate \/ ReportSwap \/ SaveUpdateId
  <2>1. /\ pc \in {"schedule", "swap", "save_id"}
        /\ \/ pc' = "idle"
           \/ /\ pc' \in {"swap", "save_id", "reboot"} /\ UNCHANGED <<buf, slot>>
              /\ scheduled' = TRUE \/ (pc # "schedule" /\ scheduled' = scheduled)
    BY <1>6 DEF ScheduleUpdate, ReportSwap, SaveUpdateId, PollFails, Goto, flash, ram
  <2> QED
    BY <2>1 DEF SlotHolds, InitPoints
<1>7. CASE ProcessConfig \/ Reboot \/ Reset
  <2>1. pc' = "idle" \/ (pc' = "start" /\ scheduled' = FALSE)
    BY <1>7 DEF ProcessConfig, Reboot, Reset, PollFails, Boot, Goto
  <2> QED
    BY <2>1 DEF SlotHolds, InitPoints
<1>8. CASE RetryDue \/ AppUplink \/ PollAsked \/ CloudPushes \/ CloudRestarts
  <2>1. UNCHANGED <<pc, buf, dfu, slot, scheduled>>
    BY <1>8 DEF RetryDue, AppUplink, PollAsked, CloudPushes, CloudRestarts, ram, flash
  <2> QED
    BY <2>1 DEF SlotHolds
<1> QED
  BY <1>1, <1>2, <1>3, <1>4, <1>5, <1>6, <1>7, <1>8 DEF Next, PollWork

\* The image that runs after the bootloader is the one on trial, or confirmed.
LEMMA BootOnTrial ==
  ASSUME TypeOK, BufferFits, SlotHolds, IdOnTrial, Boot, UNCHANGED <<update_id, left_over>>
  PROVE  IdOnTrial'
<1>1. pc' = "start"
  BY DEF Boot, Goto
<1>2. SUFFICES ASSUME ~left_over, update_id # Nothing, ~confirmed' PROVE image' = update_id
  BY <1>1 DEF IdOnTrial, InitPoints
<1>3. CASE pc = "reboot"
  <2>1. update_id = buf[2] /\ scheduled /\ slot = WholeImage(buf[2]) /\ buf[2] \in Images
    <3>1. 1 \in 1..Chunks
      BY SessionAssumption
    <3>2. slot = Part(buf[2], Chunks) /\ scheduled
      BY <1>3 DEF SlotHolds
    <3>3. slot = WholeImage(buf[2])
      BY <3>1, <3>2, PartGrows
    <3>4. buf[2] \in Images
      BY <1>3 DEF BufferFits, ChunkMessages, Images
    <3> QED
      BY <1>2, <1>3, <3>2, <3>3, <3>4 DEF IdOnTrial
  <2>2. Whole(slot)
    BY <2>1 DEF Whole
  <2>3. image' = slot[1][1]
    BY <2>1, <2>2 DEF Boot
  <2>4. 1 \in 1..Chunks
    BY SessionAssumption
  <2>5. slot[1] = <<buf[2], 1>>
    BY <2>1, <2>4 DEF WholeImage
  <2> QED
    BY <2>1, <2>3, <2>5
<1>4. CASE pc # "reboot"
  <2>1. pc \in InitPoints
    BY <1>2, <1>4 DEF IdOnTrial
  <2>2. ~scheduled
    BY <2>1 DEF SlotHolds
  <2>3. UNCHANGED <<image, confirmed>>
    BY <1>2, <2>2 DEF Boot
  <2> QED
    BY <1>2, <2>1, <2>3 DEF IdOnTrial
<1> QED
  BY <1>3, <1>4

\* A saved id, and what is acknowledged from it, is that of the image on trial.
LEMMA IdOnTrialSteps ==
  ASSUME TypeOK, BufferFits, SlotHolds, IdOnTrial, Next
  PROVE  IdOnTrial'
<1>1. CASE InitBegins \/ CreateSession \/ TakeSession \/ UploadDecoder \/ UploadEncoder \/ UploadConfig
  <2>1. /\ pc \in BeforeConfirm /\ pc' \in BeforeConfirm
        /\ UNCHANGED <<image, confirmed, update_id, left_over>>
    BY <1>1 DEF InitBegins, CreateSession, TakeSession, UploadDecoder, UploadEncoder,
                UploadOnce, UploadConfig, Goto, flash, BeforeConfirm
  <2> QED
    BY <2>1 DEF IdOnTrial, BeforeConfirm, InitPoints
<1>2. CASE ReadUpdateId
  <2>1. /\ pc = "confirm" /\ update_id' \in {update_id, Nothing}
        /\ UNCHANGED <<image, confirmed, left_over>>
        /\ \/ pc' = "done"
           \/ pc' = "confirm_image" /\ buf' \in {"ack"} \X {update_id, Nothing}
    BY <1>2 DEF ReadUpdateId, Goto
  <2> QED
    BY <2>1 DEF IdOnTrial, InitPoints
<1>3. CASE ConfirmImage
  <2>1. /\ pc = "confirm_image" /\ UNCHANGED <<buf, image, update_id, left_over>>
        /\ \/ pc' = "done" /\ UNCHANGED confirmed
           \/ pc' = "ack" /\ ~confirmed /\ confirmed' = TRUE
    BY <1>3 DEF ConfirmImage, Goto
  <2> QED
    BY <2>1 DEF IdOnTrial, InitPoints
<1>4. CASE ReportConfirmed
  <2>1. /\ pc = "ack" /\ pc' = "done"
        /\ UNCHANGED <<image, confirmed, update_id, left_over>>
    BY <1>4 DEF ReportConfirmed, Goto, flash
  <2> QED
    BY <2>1 DEF IdOnTrial, InitPoints
<1>11. CASE InitEnds
  <2>1. pc' = "idle" /\ UNCHANGED update_id /\ left_over' = (update_id # Nothing)
    BY <1>11 DEF InitEnds, Goto
  <2> QED
    BY <2>1 DEF IdOnTrial, InitPoints
<1>5. CASE SaveUpdateId
  <2>1. /\ pc = "save_id" /\ pc' = "reboot" /\ UNCHANGED buf
        /\ \/ update_id' = buf[2]
           \/ UNCHANGED <<update_id, left_over>>
    BY <1>5 DEF SaveUpdateId, Goto
  <2> QED
    BY <2>1 DEF IdOnTrial, InitPoints
<1>6. CASE RetryDue \/ AppUplink \/ PollAsked \/ CloudPushes \/ CloudRestarts
  <2>1. UNCHANGED <<pc, buf, image, confirmed, update_id, left_over>>
    BY <1>6 DEF RetryDue, AppUplink, PollAsked, CloudPushes, CloudRestarts, ram, flash
  <2> QED
    BY <2>1 DEF IdOnTrial
<1>7. CASE Boot /\ UNCHANGED <<update_id, left_over>>
  BY <1>7, BootOnTrial
<1>8. CASE PollWork /\ ~SaveUpdateId /\ ~Boot
  <2>1. /\ pc \in {"idle", "poll", "answer", "config", "chunk", "schedule", "swap"}
        /\ pc' \in {"idle", "poll", "answer", "config", "chunk", "schedule", "swap",
                    "save_id"}
        /\ UNCHANGED <<update_id, left_over>>
    BY <1>8
    DEF PollWork, Poll, PollRefused, PollSimple, PollMore, Answer, ProcessConfig,
        RefuseChunk, ChunkMismatch, WriteChunk, ScheduleUpdate, ReportSwap, Reboot,
        PollFails, PollEnds, Goto, flash
  <2> QED
    BY <2>1 DEF IdOnTrial, InitPoints
<1>9. Boot /\ (ProcessConfig \/ Reboot \/ Reset) => UNCHANGED <<update_id, left_over>>
  BY DEF ProcessConfig, Reboot, Reset
<1>10. CASE PollWork /\ ~SaveUpdateId /\ Boot
  <2>1. ProcessConfig \/ Reboot
    <3>1. pc' = "start"
      BY <1>10 DEF Boot, Goto
    <3> QED
      BY <1>10, <3>1
      DEF PollWork, Poll, PollRefused, PollSimple, PollMore, Answer,
          RefuseChunk, ChunkMismatch, WriteChunk, ScheduleUpdate, ReportSwap,
          PollFails, PollEnds, Goto, Kind
  <2> QED
    BY <1>7, <1>9, <1>10, <2>1
<1>12. CASE Reset
  BY <1>7, <1>9, <1>12 DEF Reset
<1> QED
  BY <1>1, <1>2, <1>3, <1>4, <1>5, <1>6, <1>8, <1>10, <1>11, <1>12 DEF Next, InitWork

-----------------------------------------------------------------------------
(* What the cloud knows of the image *)

\* The answer to a session goes ahead of all else and says what the cloud has.
LEMMA SessionAnswered ==
  ASSUME TypeOK, CloudTakes(<<"create_session">>)
  PROVE  /\ cloud' = cloud /\ queue' # <<>>
         /\ Head(queue') = <<"session", [decoder |-> cloud.decoder,
                                         encoder |-> cloud.encoder,
                                         config |-> cloud.config]>>
<1>1. PICK m : m = <<"session", [decoder |-> cloud.decoder, encoder |-> cloud.encoder,
                                 config |-> cloud.config]>>
  OBVIOUS
<1>2. queue' = <<m>> \o queue /\ cloud' = cloud
  BY <1>1 DEF CloudTakes, outside
<1>3. m \in Messages
  BY <1>1 DEF TypeOK, Clouds, Sessions, Messages
<1>4. <<m>> \o queue # <<>> /\ Head(<<m>> \o queue) = m
  BY <1>3, ElementsOfPush DEF TypeOK
<1> QED
  BY <1>1, <1>2, <1>4

\* Only the three uploads change what the cloud has of this image.
LEMMA CloudKeepsImage ==
  ASSUME TypeOK, NEW up, CloudTakes(up), up[1] \notin {"decoder", "encoder", "config"}
  PROVE  cloud'.decoder = cloud.decoder /\ cloud'.encoder = cloud.encoder
BY DEF CloudTakes, TypeOK, Clouds, outside

\* The steps of init_work_handler(): when it ends, the cloud has this image.
LEMMA InitWorkSynced ==
  ASSUME TypeOK, BufferFits, Synced, InitWork
  PROVE  Synced' /\ InitializedMeansSynced'
<1> USE DEF InitPoints
<1>1. CASE InitBegins \/ ReadUpdateId \/ ConfirmImage
  <2>1. /\ \/ pc = "start" /\ pc' = "wait"
           \/ /\ pc \in {"confirm", "confirm_image"}
              /\ pc' \in {"confirm_image", "ack", "done"}
        /\ UNCHANGED <<m_session, initialized, image, cloud>>
    BY <1>1 DEF InitBegins, ReadUpdateId, ConfirmImage, Goto, ram, flash, outside
  <2> QED
    BY <2>1 DEF Synced, InitializedMeansSynced
<1>2. CASE CreateSession
  <2>1. /\ pc = "wait" /\ initialized' = initialized
        /\ pc' = "wait" \/ (pc' = "session" /\ CloudTakes(<<"create_session">>))
    BY <1>2 DEF CreateSession, UplinkWorks, Goto
  <2> QED
    BY <2>1, SessionAnswered DEF Synced, InitializedMeansSynced
<1>3. CASE TakeSession
  <2>1. /\ pc = "session" /\ initialized' = initialized
        /\ \/ pc' = "wait"
           \/ pc' = "decoder" /\ m_session' = Waiting[2] /\ cloud' = cloud
    BY <1>3 DEF TakeSession, Downlink, Goto
  <2>2. Waiting = <<"session", [decoder |-> cloud.decoder, encoder |-> cloud.encoder,
                                config |-> cloud.config]>>
    BY <2>1 DEF Synced, Waiting
  <2>3. Waiting[2] \in Sessions
    BY <2>2 DEF TypeOK, Clouds, Sessions
  <2> QED
    BY <2>1, <2>2, <2>3, SessionAssumption DEF Synced, InitializedMeansSynced
<1>4. CASE UploadDecoder
  <2>1. m_session \in Sessions /\ cloud \in Clouds
    BY <1>4 DEF UploadDecoder, UploadOnce, Synced, TypeOK
  <2>2. [m_session EXCEPT !.decoder = image] \in Sessions
    BY <2>1 DEF Sessions, TypeOK
  <2>3. /\ pc = "decoder" /\ UNCHANGED <<initialized, image>>
        /\ \/ pc' = "wait"
           \/ /\ pc' = "encoder" /\ m_session.decoder = image
              /\ UNCHANGED <<m_session, cloud>>
           \/ /\ pc' = "encoder" /\ m_session' = [m_session EXCEPT !.decoder = image]
              /\ CloudTakes(<<"decoder", image>>)
    BY <1>4 DEF UploadDecoder, UploadOnce, Uplink, UplinkWorks, Goto, flash, outside
  <2>4. CloudTakes(<<"decoder", image>>) => cloud' = [cloud EXCEPT !.decoder = image]
    BY DEF CloudTakes
  <2> QED
    BY <2>1, <2>2, <2>3, <2>4, SessionAssumption
    DEF Synced, InitializedMeansSynced, Sessions, Clouds
<1>5. CASE UploadEncoder
  <2>1. m_session \in Sessions /\ cloud \in Clouds
    BY <1>5 DEF UploadEncoder, UploadOnce, Synced, TypeOK
  <2>2. [m_session EXCEPT !.encoder = image] \in Sessions
    BY <2>1 DEF Sessions, TypeOK
  <2>3. /\ pc = "encoder" /\ UNCHANGED <<initialized, image>>
        /\ \/ pc' = "wait"
           \/ /\ pc' = "upload_config" /\ m_session.encoder = image
              /\ UNCHANGED <<m_session, cloud>>
           \/ /\ pc' = "upload_config" /\ m_session' = [m_session EXCEPT !.encoder = image]
              /\ CloudTakes(<<"encoder", image>>)
    BY <1>5 DEF UploadEncoder, UploadOnce, Uplink, UplinkWorks, Goto, flash, outside
  <2>4. CloudTakes(<<"encoder", image>>) => cloud' = [cloud EXCEPT !.encoder = image]
    BY DEF CloudTakes
  <2> QED
    BY <2>1, <2>2, <2>3, <2>4, SessionAssumption
    DEF Synced, InitializedMeansSynced, Sessions, Clouds
<1>6. CASE UploadConfig
  <2>1. m_session \in Sessions /\ cloud \in Clouds
    BY <1>6 DEF UploadConfig, Synced, TypeOK
  <2>2. [m_session EXCEPT !.config = config] \in Sessions
    BY <2>1 DEF Sessions, TypeOK
  <2>3. /\ pc = "upload_config" /\ pc' = "confirm" /\ UNCHANGED <<initialized, image>>
        /\ m_session' \in {m_session, [m_session EXCEPT !.config = config]}
        /\ cloud' = cloud \/ CloudTakes(<<"config", config>>)
    BY <1>6 DEF UploadConfig, Uplink, UplinkWorks, UplinkFails, Goto, flash, outside
  <2>4. CloudTakes(<<"config", config>>) => cloud' = [cloud EXCEPT !.config = config]
    BY DEF CloudTakes
  <2>5. cloud'.decoder = cloud.decoder /\ cloud'.encoder = cloud.encoder
    BY <2>1, <2>3, <2>4 DEF Clouds
  <2> QED
    BY <2>1, <2>2, <2>3, <2>5, SessionAssumption DEF Synced, InitializedMeansSynced
<1>7. CASE ReportConfirmed
  <2>1. /\ pc = "ack" /\ pc' = "done" /\ UNCHANGED <<m_session, initialized, image>>
        /\ cloud' = cloud \/ CloudTakes(buf)
    BY <1>7 DEF ReportConfirmed, Uplink, UplinkWorks, UplinkFails, Goto, flash, outside
  <2>2. buf[1] = "ack"
    BY <2>1 DEF BufferFits
  <2>3. cloud'.decoder = cloud.decoder /\ cloud'.encoder = cloud.encoder
    BY <2>1, <2>2, CloudKeepsImage
  <2> QED
    BY <2>1, <2>3 DEF Synced, InitializedMeansSynced
<1>8. CASE InitEnds
  <2>1. pc = "done" /\ pc' = "idle" /\ UNCHANGED <<m_session, image, cloud>>
    BY <1>8 DEF InitEnds, Goto, flash, outside
  <2> QED
    BY <2>1 DEF Synced, InitializedMeansSynced
<1> QED
  BY <1>1, <1>2, <1>3, <1>4, <1>5, <1>6, <1>7, <1>8 DEF InitWork

\* Nothing that comes later undoes it before the device starts anew.
LEMMA OthersSynced ==
  ASSUME TypeOK, BufferFits, Synced, InitializedMeansSynced, Next, ~InitWork
  PROVE  Synced' /\ InitializedMeansSynced'
<1> USE DEF InitPoints
<1>1. CASE Boot
  <2>1. pc' = "start" /\ initialized' = FALSE
    BY <1>1 DEF Boot, Goto
  <2> QED
    BY <2>1 DEF Synced, InitializedMeansSynced
<1>2. CASE PollWork /\ ~Boot
  <2>1. pc' \notin InitPoints /\ UNCHANGED <<initialized, image>>
    BY <1>2
    DEF PollWork, Poll, PollRefused, PollSimple, PollMore, Answer, ProcessConfig,
        RefuseChunk, ChunkMismatch, WriteChunk, ScheduleUpdate, ReportSwap, SaveUpdateId,
        Reboot, PollFails, PollEnds, Goto, ram, flash
  <2>2. \/ UNCHANGED cloud \/ PollSimple \/ Answer \/ ReportSwap
    BY <1>2, DownlinkTyped
    DEF PollWork, Poll, PollRefused, PollMore, ProcessConfig, RefuseChunk, ChunkMismatch,
        WriteChunk, ScheduleUpdate, SaveUpdateId, Reboot, outside
  <2>3. cloud'.decoder = cloud.decoder /\ cloud'.encoder = cloud.encoder
    <3>1. CASE PollSimple
      BY <3>1, DownlinkTyped DEF PollSimple
    <3>2. CASE Answer
      <4>1. cloud' = cloud \/ CloudTakes(buf)
        BY <3>2 DEF Answer, UplinkWorks, UplinkFails, outside
      <4>2. buf[1] \in {"shell", "error", "next"}
        BY <3>2 DEF Answer, BufferFits
      <4> QED
        BY <4>1, <4>2, CloudKeepsImage
    <3>3. CASE ReportSwap
      <4>1. cloud' = cloud \/ CloudTakes(<<"swap", buf[2]>>)
        BY <3>3 DEF ReportSwap, UplinkWorks, UplinkFails, outside
      <4> QED
        BY <4>1, CloudKeepsImage
    <3> QED
      BY <2>2, <3>1, <3>2, <3>3
  <2>4. m_session' = m_session \/ m_session' \in Sessions
    <3>1. CASE PollSimple
      <4>1. Kind = "session" => queue # <<>>
        BY DEF Kind
      <4> QED
        BY <3>1, <4>1, WaitingTyped DEF PollSimple
    <3>2. CASE ~PollSimple
      BY <1>2, <3>2
      DEF PollWork, Poll, PollRefused, PollMore, Answer, ProcessConfig,
          RefuseChunk, ChunkMismatch, WriteChunk, ScheduleUpdate, ReportSwap, SaveUpdateId,
          Reboot, ram
    <3> QED
      BY <3>1, <3>2
  <2> QED
    BY <2>1, <2>3, <2>4, SessionAssumption DEF Synced, InitializedMeansSynced
<1>3. CASE RetryDue \/ PollAsked
  BY <1>3 DEF RetryDue, PollAsked, flash, outside, Synced, InitializedMeansSynced
<1>4. CASE AppUplink
  <2>1. PICK up \in {<<"data">>} \cup {<<"download", u>> : u \in Updates \ {image}} :
           CloudTakes(up) \/ UNCHANGED outside
    BY <1>4 DEF AppUplink
  <2>2. cloud'.decoder = cloud.decoder /\ cloud'.encoder = cloud.encoder
    BY <2>1, CloudKeepsImage DEF outside
  <2>3. pc \in {"start", "idle"} /\ UNCHANGED <<pc, m_session, initialized, image>>
    BY <1>4 DEF AppUplink, flash
  <2> QED
    BY <2>2, <2>3 DEF Synced, InitializedMeansSynced
<1>5. CASE CloudPushes
  <2>1. PICK kind \in {"data", "shell", "config"} : queue' = Append(queue, <<kind>>)
    BY <1>5 DEF CloudPushes
  <2>2. <<kind>> \in Messages /\ queue \in Seq(Messages)
    BY DEF Messages, TypeOK
  <2>3. /\ Append(queue, <<kind>>) # <<>>
        /\ queue # <<>> => Head(Append(queue, <<kind>>)) = Head(queue)
    BY <2>2, ElementsOfAppend
  <2>4. UNCHANGED <<pc, m_session, initialized, image, cloud>>
    BY <1>5 DEF CloudPushes, ram, flash
  <2> QED
    BY <2>1, <2>3, <2>4 DEF Synced, InitializedMeansSynced
<1>6. CASE CloudRestarts
  <2>1. PICK m : m = <<"chunk", cloud.serves, 1>>
    OBVIOUS
  <2>2. m \in Messages /\ queue \in Seq(Messages)
    BY <1>6, <2>1, SessionAssumption DEF CloudRestarts, Messages, TypeOK, Clouds
  <2>3. PICK q : q = OtherThanChunks(queue)
    OBVIOUS
  <2>4. /\ q \in Seq(Messages)
        /\ queue # <<>> /\ Head(queue)[1] # "chunk" => q # <<>> /\ Head(q) = Head(queue)
    BY <2>2, <2>3, OthersKept
  <2>5. queue' = Append(q, m)
    BY <1>6, <2>1, <2>3 DEF CloudRestarts
  <2>6. Append(q, m) # <<>> /\ (q # <<>> => Head(Append(q, m)) = Head(q))
    BY <2>2, <2>4, ElementsOfAppend
  <2>7. UNCHANGED <<pc, m_session, initialized, image, cloud>>
    BY <1>6 DEF CloudRestarts, ram, flash
  <2> QED
    BY <2>4, <2>5, <2>6, <2>7 DEF Synced, InitializedMeansSynced
<1> QED
  BY <1>1, <1>2, <1>3, <1>4, <1>5, <1>6 DEF Next, Reset

-----------------------------------------------------------------------------
(* The theorems *)

\* The initial values of the image and of the counters are of their types.
LEMMA InitValues ==
  Init => /\ image \in Images /\ config \in Nat
          /\ faults \in 0..MaxFaults /\ pushes \in 0..MaxPushes
BY SessionAssumption DEF Init, Images

\* The device that is switched on for the first time satisfies the invariant.
LEMMA InitEstablishes == Init => IInv
<1> SUFFICES ASSUME Init PROVE IInv
  OBVIOUS
<1> USE DEF Init
<1>1. TypeOK
  <2>1. cloud \in Clouds /\ <<>> \in Seq(Messages)
    BY DEF Clouds
  <2> QED
    BY <2>1, InitValues DEF TypeOK
<1>2. BufferFits /\ SlotHolds /\ IdOnTrial /\ Synced /\ InitializedMeansSynced
  BY SessionAssumption
  DEF BufferFits, SlotHolds, IdOnTrial, Synced, InitializedMeansSynced, InitPoints
<1>3. OneImage
  <2>1. Elements(<<>>) = {}
    BY DEF Elements
  <2> QED
    BY <2>1 DEF OneImage, UnderWay
<1> QED
  BY <1>1, <1>2, <1>3 DEF IInv

\* Every step keeps the invariant.
LEMMA StepKeeps == IInv /\ [Next]_vars => IInv'
<1> SUFFICES ASSUME IInv, [Next]_vars PROVE IInv'
  OBVIOUS
<1> USE DEF IInv
<1>1. CASE Next
  <2>1. InitWork \/ PollWork
          \/ (RetryDue \/ AppUplink \/ PollAsked \/ CloudPushes \/ CloudRestarts \/ Reset)
    BY <1>1 DEF Next
  <2>2. TypeOK'
    BY <2>1, InitWorkTyped, PollWorkTyped, OthersTyped
  <2>3. BufferFits'
    BY <2>1, InitWorkBuffer, PollWorkBuffer, OthersBuffer
  <2>4. OneImage'
    BY <2>1, InitWorkOneImage, PollWorkOneImage, OthersOneImage
  <2>5. SlotHolds' /\ IdOnTrial'
    BY <1>1, SlotHoldsSteps, IdOnTrialSteps
  <2>6. Synced' /\ InitializedMeansSynced'
    BY <1>1, InitWorkSynced, OthersSynced
  <2> QED
    BY <2>2, <2>3, <2>4, <2>5, <2>6
<1>2. CASE UNCHANGED vars
  BY <1>2 DEF vars, TypeOK, BufferFits, OneImage, SlotHolds, IdOnTrial, Synced,
              InitializedMeansSynced, UnderWay
<1> QED
  BY <1>1, <1>2

\* The inductive invariant holds of every behaviour of init_work_handler(), the
\* poll work, the cloud and the bootloader.
THEOREM SessionInvariant == Spec => []IInv
<1> QED
  BY InitEstablishes, StepKeeps, PTL DEF Spec

\* Every variable of ctr_cloud.c and of the flash has its type at all times.
THEOREM TypeCorrect == Spec => []TypeOK
<1>1. IInv => TypeOK
  BY DEF IInv
<1> QED
  BY <1>1, SessionInvariant, PTL

\* Once ctr_cloud_wait_initialized() returns the cloud has the decoder and the encoder of
\* the image that runs, whatever resets, lost answers and updates came before.
THEOREM SyncedOnceInitialized == Spec => []InitializedMeansSynced
<1>1. IInv => InitializedMeansSynced
  BY DEF IInv
<1> QED
  BY <1>1, SessionInvariant, PTL

\* Only dfu_target_schedule_update() marks the slot, and then it holds a whole image.
LEMMA ScheduledWhole ==
  ASSUME IInv, Next, ~scheduled, scheduled'
  PROVE  Whole(slot')
<1> USE DEF IInv
<1>1. CASE InitWork
  <2>1. scheduled' = scheduled
    BY <1>1 DEF InitWork, InitBegins, CreateSession, TakeSession, UploadDecoder,
                UploadEncoder, UploadOnce, UploadConfig, ReadUpdateId, ConfirmImage,
                ReportConfirmed, InitEnds, flash
  <2> QED
    BY <2>1
<1>2. CASE ScheduleUpdate
  <2>1. slot' = slot /\ slot = Part(buf[2], Chunks) /\ buf[2] \in Images
    BY <1>2 DEF ScheduleUpdate, SlotHolds, BufferFits, ChunkMessages, Images
  <2>2. 1 \in 1..Chunks
    BY SessionAssumption
  <2>3. slot' = WholeImage(buf[2])
    BY <2>1, <2>2, PartGrows
  <2> QED
    BY <2>1, <2>3 DEF Whole
<1>3. CASE PollWork /\ ~ScheduleUpdate
  <2>1. scheduled' \in {scheduled, FALSE}
    BY <1>3
    DEF PollWork, Poll, PollRefused, PollSimple, PollMore, Answer, ProcessConfig,
        RefuseChunk, ChunkMismatch, WriteChunk, ReportSwap, SaveUpdateId, Reboot, Boot,
        flash
  <2> QED
    BY <2>1
<1>4. CASE RetryDue \/ AppUplink \/ PollAsked \/ CloudPushes \/ CloudRestarts \/ Reset
  <2>1. scheduled' \in {scheduled, FALSE}
    BY <1>4 DEF RetryDue, AppUplink, PollAsked, CloudPushes, CloudRestarts, Reset, Boot,
                flash
  <2> QED
    BY <2>1
<1> QED
  BY <1>1, <1>2, <1>3, <1>4 DEF Next

\* An update is handed to the bootloader by ctr_cloud_process_dlfirmware() only when
\* the slot holds every chunk of one image, each once and in order.
THEOREM WholeImagesOnly == Spec => OnlyWholeImages
<1>1. IInv /\ [Next]_vars => [~scheduled /\ scheduled' => Whole(slot')]_vars
  BY ScheduledWhole
<1> QED
  BY <1>1, SessionInvariant, PTL DEF Spec, OnlyWholeImages

\* Only a report of the swap and an acknowledgement change what the cloud knows of
\* the updates.
LEMMA CloudKeepsReports ==
  ASSUME TypeOK, NEW up, CloudTakes(up), up[1] \notin {"swap", "ack"}
  PROVE  cloud'.swapped = cloud.swapped /\ cloud'.acked = cloud.acked
BY DEF CloudTakes, TypeOK, Clouds, outside

\* They are the uplinks of ReportSwap and ReportConfirmed.
LEMMA OnlyTwoReport ==
  ASSUME IInv, Next, ~ReportSwap, ~ReportConfirmed
  PROVE  cloud'.swapped = cloud.swapped /\ cloud'.acked = cloud.acked
<1> USE DEF IInv
<1>1. SUFFICES ASSUME cloud' # cloud
               PROVE  \E up : CloudTakes(up) /\ up[1] \notin {"swap", "ack"}
  BY CloudKeepsReports
<1>2. CASE InitWork
  <2>1. CASE CreateSession
    <3>1. CloudTakes(<<"create_session">>)
      BY <1>1, <2>1 DEF CreateSession, UplinkWorks, UplinkFails, outside
    <3> QED
      BY <3>1
  <2>2. CASE UploadDecoder
    <3>1. CloudTakes(<<"decoder", image>>)
      BY <1>1, <2>2 DEF UploadDecoder, UploadOnce, Uplink, UplinkWorks, UplinkFails, outside
    <3> QED
      BY <3>1
  <2>3. CASE UploadEncoder
    <3>1. CloudTakes(<<"encoder", image>>)
      BY <1>1, <2>3 DEF UploadEncoder, UploadOnce, Uplink, UplinkWorks, UplinkFails, outside
    <3> QED
      BY <3>1
  <2>4. CASE UploadConfig
    <3>1. CloudTakes(<<"config", config>>)
      BY <1>1, <2>4 DEF UploadConfig, Uplink, UplinkWorks, UplinkFails, outside
    <3> QED
      BY <3>1
  <2> QED
    BY <1>1, <1>2, <2>1, <2>2, <2>3, <2>4, DownlinkTyped
    DEF InitWork, InitBegins, TakeSession, ReadUpdateId, ConfirmImage, InitEnds, outside
<1>3. CASE PollWork
  <2>1. CASE Answer
    <3>1. CloudTakes(buf)
      BY <1>1, <2>1 DEF Answer, UplinkWorks, UplinkFails, outside
    <3>2. buf[1] \in {"shell", "error", "next"}
      BY <2>1 DEF Answer, BufferFits
    <3> QED
      BY <3>1, <3>2
  <2> QED
    BY <1>1, <1>3, <2>1, DownlinkTyped
    DEF PollWork, Poll, PollRefused, PollSimple, PollMore, ProcessConfig, RefuseChunk,
        ChunkMismatch, WriteChunk, ScheduleUpdate, SaveUpdateId, Reboot, outside
<1>4. CASE AppUplink
  <2>1. PICK up \in {<<"data">>} \cup {<<"download", u>> : u \in Updates \ {image}} :
           CloudTakes(up) \/ UNCHANGED outside
    BY <1>4 DEF AppUplink
  <2> QED
    BY <1>1, <2>1 DEF outside
<1>5. CASE RetryDue \/ PollAsked \/ CloudPushes \/ CloudRestarts \/ Reset
  BY <1>1, <1>5 DEF RetryDue, PollAsked, CloudPushes, CloudRestarts, Reset, outside
<1> QED
  BY <1>2, <1>3, <1>4, <1>5 DEF Next

\* What the device says of the image on trial and of the swapped one is so.
LEMMA ReportsAreTrue ==
  ASSUME IInv, Next
  PROVE  /\ \A u \in cloud.acked' \ cloud.acked : u # Nothing => confirmed /\ (image = u \/ left_over)
         /\ \A u \in cloud.swapped' \ cloud.swapped :
              scheduled /\ slot = WholeImage(u)
<1> USE DEF IInv
<1>0. cloud \in Clouds
  BY DEF TypeOK
<1>1. CASE ReportConfirmed
  <2>1. pc = "ack" /\ (cloud' = cloud \/ CloudTakes(buf))
    BY <1>1 DEF ReportConfirmed, Uplink, UplinkWorks, UplinkFails, outside
  <2>2. buf[1] = "ack"
    BY <2>1 DEF BufferFits
  <2>3. CloudTakes(buf) => cloud' = [cloud EXCEPT !.acked = @ \cup {buf[2]}]
    BY <2>2 DEF CloudTakes
  <2>4. confirmed /\ (buf[2] # Nothing => image = buf[2] \/ left_over)
    BY <2>1 DEF IdOnTrial
  <2> QED
    BY <1>0, <2>1, <2>3, <2>4 DEF Clouds
<1>2. CASE ReportSwap
  <2>1. pc = "swap" /\ (cloud' = cloud \/ CloudTakes(<<"swap", buf[2]>>))
    BY <1>2 DEF ReportSwap, UplinkWorks, UplinkFails, outside
  <2>2. CloudTakes(<<"swap", buf[2]>>) =>
          cloud' = [cloud EXCEPT !.swapped = @ \cup {buf[2]}, !.serves = Nothing]
    BY DEF CloudTakes
  <2>3. scheduled /\ slot = Part(buf[2], Chunks) /\ 1 \in 1..Chunks
    BY <2>1, SessionAssumption DEF SlotHolds
  <2>4. slot = WholeImage(buf[2])
    BY <2>3, PartGrows
  <2>5. cloud'.acked = cloud.acked
    BY <1>0, <2>1, <2>2 DEF Clouds
  <2>6. cloud'.swapped \subseteq cloud.swapped \cup {buf[2]}
    BY <1>0, <2>1, <2>2 DEF Clouds
  <2> QED
    BY <2>3, <2>4, <2>5, <2>6
<1>3. CASE ~ReportConfirmed /\ ~ReportSwap
  BY <1>3, OnlyTwoReport
<1> QED
  BY <1>1, <1>2, <1>3

\* A chunk is asked for when all before it are in flash.
LEMMA NextIsTrue ==
  ASSUME IInv, pc = "answer", buf[1] = "next"
  PROVE  slot = SubSeq(WholeImage(buf[2]), 1, buf[3])
<1>1. slot = Part(buf[2], buf[3])
  BY DEF IInv, SlotHolds
<1>2. buf[3] \in 1..(Chunks - 1) /\ Chunks \in Nat
  BY SessionAssumption DEF IInv, BufferFits
<1>3. PICK k : k = buf[3]
  OBVIOUS
<1>4. PICK w : w = WholeImage(buf[2])
  OBVIOUS
<1>5. w \in Seq({buf[2]} \X Nat) /\ Len(w) = Chunks /\ \A n \in 1..Chunks : w[n] = <<buf[2], n>>
  BY <1>2, <1>4 DEF WholeImage
<1>6. k \in Nat /\ 1 <= k /\ k <= Chunks
  BY <1>2, <1>3
<1>7. SubSeq(w, 1, k) = [n \in 1..k |-> w[n]]
  BY <1>2, <1>5, <1>6
<1>8. [n \in 1..k |-> w[n]] = [n \in 1..k |-> <<buf[2], n>>]
  BY <1>2, <1>5, <1>6
<1> QED
  BY <1>1, <1>3, <1>4, <1>7, <1>8 DEF Part

\* The cloud is told the truth of chunks, swapped images and acknowledged ones, but for an
\* id that an earlier initialization could not read or delete.
THEOREM CloudToldTheTruth == Spec => ReportsTrue
<1>1. IInv /\ [Next]_vars =>
        [/\ \A u \in cloud.acked' \ cloud.acked :
              u # Nothing => confirmed /\ (image = u \/ left_over)
         /\ \A u \in cloud.swapped' \ cloud.swapped :
              scheduled /\ slot = WholeImage(u)
         /\ pc = "answer" /\ buf[1] = "next" =>
              slot = SubSeq(WholeImage(buf[2]), 1, buf[3])]_vars
  BY ReportsAreTrue, NextIsTrue
<1> QED
  BY <1>1, SessionInvariant, PTL DEF Spec, ReportsTrue

=============================================================================
