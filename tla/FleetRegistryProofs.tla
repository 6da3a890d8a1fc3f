------------------------ MODULE FleetRegistryProofs ------------------------
(***************************************************************************)
(* Proofs about the fleet registry, for every number of devices, requests, *)
(* errors and crashes and every assignment of command_ids to requests: its *)
(* commands are answered once, it implements CommandDelivery whatever      *)
(* fails, and without SQLite errors its database mirrors its cache.        *)
(***************************************************************************)
EXTENDS FleetRegistry, TLAPS

----------------------------------------------------------------------------
(* Sequences: the two operations of a command queue, append and pop(0).    *)

\* Appending x adds x to the elements.
LEMMA AppendRange ==
    ASSUME NEW S, NEW s \in Seq(S), NEW x \in S
    PROVE  Append(s, x) \in Seq(S) /\ Range(Append(s, x)) = Range(s) \cup {x}
<1>1. /\ Append(s, x) \in Seq(S)
      /\ DOMAIN Append(s, x) = 1 .. Len(s) + 1
      /\ \A i \in 1 .. Len(s) : Append(s, x)[i] = s[i]
      /\ Append(s, x)[Len(s) + 1] = x
  OBVIOUS
<1>2. DOMAIN s = 1 .. Len(s) /\ Len(s) \in Nat
  OBVIOUS
<1>3. ASSUME NEW i \in 1 .. Len(s) + 1
      PROVE  i \in 1 .. Len(s) \/ i = Len(s) + 1
  BY <1>2
<1>4. 1 .. Len(s) \subseteq 1 .. Len(s) + 1 /\ Len(s) + 1 \in 1 .. Len(s) + 1
  BY <1>2
<1> QED
  BY <1>1, <1>2, <1>3, <1>4 DEF Range

\* A queue without repetitions stays so when a new element is appended.
LEMMA AppendInjective ==
    ASSUME NEW S, NEW s \in Seq(S), NEW x \in S,
           IsInjective(s), x \notin Range(s)
    PROVE  IsInjective(Append(s, x))
<1>1. /\ DOMAIN Append(s, x) = 1 .. Len(s) + 1
      /\ \A i \in 1 .. Len(s) : Append(s, x)[i] = s[i]
      /\ Append(s, x)[Len(s) + 1] = x
  OBVIOUS
<1>2. DOMAIN s = 1 .. Len(s) /\ Len(s) \in Nat
  OBVIOUS
<1>3. ASSUME NEW i \in 1 .. Len(s) + 1
      PROVE  i \in 1 .. Len(s) \/ i = Len(s) + 1
  BY <1>2
<1> QED
  BY <1>1, <1>2, <1>3 DEF Range, IsInjective

\* pop(0) takes the head away and leaves the other elements as they are.
LEMMA TailFacts ==
    ASSUME NEW S, NEW s \in Seq(S), s # <<>>
    PROVE  /\ Tail(s) \in Seq(S) /\ Head(s) \in S
           /\ Head(s) \in Range(s)
           /\ Range(Tail(s)) \subseteq Range(s)
           /\ Range(s) \subseteq Range(Tail(s)) \cup {Head(s)}
           /\ IsInjective(s) => IsInjective(Tail(s)) /\ Head(s) \notin Range(Tail(s))
<1>1. /\ Len(s) \in Nat \ {0} /\ DOMAIN s = 1 .. Len(s)
      /\ Tail(s) \in Seq(S) /\ Head(s) = s[1]
      /\ DOMAIN Tail(s) = 1 .. Len(s) - 1
      /\ \A i \in 1 .. Len(s) - 1 : Tail(s)[i] = s[i + 1]
  OBVIOUS
<1>2. Head(s) \in S /\ Head(s) \in Range(s)
  BY <1>1 DEF Range
<1>3. \A i \in 1 .. Len(s) - 1 : i + 1 \in 1 .. Len(s) /\ i + 1 # 1
  BY <1>1
<1>4. \A i \in 1 .. Len(s) : i = 1 \/ (i - 1 \in 1 .. Len(s) - 1 /\ i - 1 + 1 = i)
  BY <1>1
<1>5. Range(Tail(s)) \subseteq Range(s)
  BY <1>1, <1>3 DEF Range
<1>6. ASSUME NEW i \in 1 .. Len(s)
      PROVE  s[i] \in Range(Tail(s)) \cup {Head(s)}
  <2>1. CASE i = 1
    BY <1>1, <2>1
  <2>2. CASE i # 1
    <3>1. i - 1 \in DOMAIN Tail(s) /\ Tail(s)[i - 1] = s[i]
      BY <1>1, <1>4, <2>2
    <3> QED
      BY <3>1 DEF Range
  <2> QED
    BY <2>1, <2>2
<1>7. ASSUME IsInjective(s)
      PROVE  IsInjective(Tail(s)) /\ Head(s) \notin Range(Tail(s))
  <2>1. ASSUME NEW i \in 1 .. Len(s) - 1, NEW j \in 1 .. Len(s) - 1, Tail(s)[i] = Tail(s)[j]
        PROVE  i = j
    <3>1. i + 1 = j + 1
      BY <1>1, <1>3, <1>7, <2>1 DEF IsInjective
    <3> QED
      BY <3>1, <1>1
  <2>2. \A i \in 1 .. Len(s) - 1 : Tail(s)[i] # s[1]
    BY <1>1, <1>3, <1>7 DEF IsInjective
  <2> QED
    BY <1>1, <2>1, <2>2 DEF IsInjective, Range
<1> QED
  BY <1>1, <1>2, <1>5, <1>6, <1>7 DEF Range

\* The empty queue.
LEMMA EmptyFacts ==
    ASSUME NEW S
    PROVE  <<>> \in Seq(S) /\ Range(<<>>) = {} /\ IsInjective(<<>>)
  BY DEF Range, IsInjective

\* The queues Restart chooses from are sequences of requests.
LEMMA QueuesAreSequences == Queues \subseteq Seq(Requests)
  BY DEF Queues

----------------------------------------------------------------------------
(* Types.                                                                  *)

\* The initial state is well typed.
LEMMA TypeInit == Init => TypeOK
<1> SUFFICES ASSUME Init PROVE TypeOK
  OBVIOUS
<1>1. pending \in [Devices -> Seq(Requests)] /\ handed \in [Devices -> Seq(Requests)]
  BY EmptyFacts DEF Init
<1> QED
  BY <1>1, RegistryAssumption DEF Init, TypeOK

\* The mark changes no row's request or device, it settles every row that
\* carries the command_id of q, and it makes no row pending.
LEMMA MarkFacts ==
    ASSUME TypeOK, NEW q \in Requests, MarkDelivered(q)
    PROVE  /\ rows' \subseteq Row
           /\ \A r \in rows' : \E s \in rows :
                 /\ r.req = s.req /\ r.dev = s.dev
                 /\ r.status = "pending" => r = s /\ IdOf[s.req] # IdOf[q]
           /\ \A s \in rows : s.status = "pending" /\ IdOf[s.req] # IdOf[q] => s \in rows'
           /\ \A s \in rows : \E r \in rows' : r.req = s.req /\ r.dev = s.dev
<1> DEFINE Marked(s) == IF IdOf[s.req] = IdOf[q] THEN [s EXCEPT !.status = "delivered"] ELSE s
<1>1. rows' = {Marked(s) : s \in rows}
  BY DEF MarkDelivered
<1>2. ASSUME NEW s \in rows
      PROVE  /\ Marked(s) \in Row /\ Marked(s).req = s.req /\ Marked(s).dev = s.dev
             /\ IdOf[s.req] # IdOf[q] => Marked(s) = s
             /\ IdOf[s.req] = IdOf[q] => Marked(s).status = "delivered"
  <2>1. s \in Row
    BY DEF TypeOK
  <2> QED
    BY <2>1 DEF Row
<1> HIDE DEF Marked
<1>3. rows' \subseteq Row
  BY <1>1, <1>2
<1>4. ASSUME NEW r \in rows'
      PROVE  \E s \in rows :
                 /\ r.req = s.req /\ r.dev = s.dev
                 /\ r.status = "pending" => r = s /\ IdOf[s.req] # IdOf[q]
  <2>1. PICK s \in rows : r = Marked(s)
    BY <1>1
  <2>2. r.status = "pending" => IdOf[s.req] # IdOf[q]
    BY <1>2, <2>1
  <2> QED
    BY <1>2, <2>1, <2>2
<1>5. ASSUME NEW s \in rows PROVE Marked(s) \in rows'
  BY <1>1
<1> QED
  BY <1>2, <1>3, <1>4, <1>5

\* The cache and the devices table stay typed under a heartbeat.
LEMMA HeartbeatType ==
    ASSUME TypeOK, NEW d \in Devices, NEW t \in Times,
           \/ HeartbeatNoop(d, t)
           \/ HeartbeatCommand(d, t)
           \/ HeartbeatUpsertFails(d, t)
           \/ HeartbeatMarkFails(d, t)
    PROVE  TypeOK'
<1>1. t \in Nat
  BY RegistryAssumption
<1>2. /\ lastSeen' \in [Devices -> Nat] /\ rowSeen' \in [Devices -> Nat]
      /\ devices' \subseteq Devices /\ rowDevices' \subseteq Devices
  BY ZenonT(60), <1>1 DEF TypeOK, HeartbeatNoop, HeartbeatCommand, HeartbeatUpsertFails,
       HeartbeatMarkFails, ApplyHeartbeat, Upsert, dbVars
<1>3. pending[d] # <<>> => Tail(pending[d]) \in Seq(Requests) /\ Head(pending[d]) \in Requests
  BY TailFacts DEF TypeOK
<1>4. pending' \in [Devices -> Seq(Requests)]
  BY <1>3 DEF TypeOK, HeartbeatNoop, HeartbeatCommand, HeartbeatUpsertFails, HeartbeatMarkFails
<1>5. handed' \in [Devices -> Seq(Requests)]
  <2>1. CASE HeartbeatCommand(d, t)
    <3>1. Append(handed[d], Head(pending[d])) \in Seq(Requests)
      BY <1>3, <2>1 DEF TypeOK, HeartbeatCommand
    <3> QED
      BY <2>1, <3>1 DEF TypeOK, HeartbeatCommand
  <2>2. CASE UNCHANGED handed
    BY <2>2 DEF TypeOK
  <2> QED
    BY <2>1, <2>2 DEF HeartbeatNoop, HeartbeatUpsertFails, HeartbeatMarkFails
<1>6. rows' \subseteq Row
  BY <1>3, MarkFacts DEF TypeOK, HeartbeatNoop, HeartbeatCommand, HeartbeatUpsertFails,
       HeartbeatMarkFails, dbVars
<1>7. dbErrors' \in 0 .. MaxDbErrors
  BY RegistryAssumption DEF TypeOK, HeartbeatNoop, HeartbeatCommand,
       HeartbeatUpsertFails, HeartbeatMarkFails, DbOk, DbFails
<1> QED
  BY <1>2, <1>4, <1>5, <1>6, <1>7 DEF TypeOK, HeartbeatNoop, HeartbeatCommand,
       HeartbeatUpsertFails, HeartbeatMarkFails, ApplyHeartbeat

\* An empty cache is well typed.
LEMMA LoseCacheType ==
    ASSUME TypeOK, LoseCache
    PROVE  /\ up' \in BOOLEAN /\ crashes' \in 0 .. MaxCrashes
           /\ devices' \subseteq Devices /\ deploying' \subseteq Devices
           /\ lastSeen' \in [Devices -> Nat]
           /\ pending' \in [Devices -> Seq(Requests)]
<1>1. [d \in Devices |-> <<>>] \in [Devices -> Seq(Requests)]
  BY EmptyFacts
<1>2. crashes' \in 0 .. MaxCrashes
  BY RegistryAssumption DEF TypeOK, LoseCache
<1>3. lastSeen' \in [Devices -> Nat]
  BY DEF LoseCache
<1> QED
  BY <1>1, <1>2, <1>3 DEF LoseCache

\* Queueing a request keeps the queues, the stamps and the rows typed.
LEMMA EnqueueType ==
    ASSUME TypeOK, NEW d \in Devices, NEW q \in Requests, Enqueue(d, q)
    PROVE  /\ pending' \in [Devices -> Seq(Requests)]
           /\ issued' \in Nat
           /\ stamp' \in [Requests -> 0 .. issued']
           /\ Inserted(d, q) => rows' \subseteq Row /\ dbErrors' = dbErrors
<1>1. Append(pending[d], q) \in Seq(Requests)
  BY DEF TypeOK
<1>2. pending' \in [Devices -> Seq(Requests)]
  BY <1>1 DEF TypeOK, Enqueue
<1>3. issued' \in Nat /\ stamp' \in [Requests -> 0 .. issued']
  BY DEF TypeOK, Enqueue
<1>4. Inserted(d, q) => rows' \subseteq Row /\ dbErrors' = dbErrors
  BY DEF TypeOK, Inserted, Row, DbOk
<1> QED
  BY <1>2, <1>3, <1>4

\* Every action keeps the types.
LEMMA TypeStep == TypeOK /\ [Next]_vars => TypeOK'
<1> SUFFICES ASSUME TypeOK, [Next]_vars PROVE TypeOK'
  OBVIOUS
<1> USE DEF cacheVars, dbVars, history
<1>1. ASSUME NEW d \in Devices, Register(d) PROVE TypeOK'
  <2>1. rowSeen' \in [Devices -> Nat] /\ rowDevices' \subseteq Devices
    BY <1>1 DEF TypeOK, Register, Upsert
  <2>2. dbErrors' \in 0 .. MaxDbErrors
    BY <1>1, RegistryAssumption DEF TypeOK, Register, DbOk, DbFails
  <2> QED
    BY <1>1, <2>1, <2>2 DEF TypeOK, Register
<1>2. ASSUME NEW d \in Devices, RemoveDevice(d) PROVE TypeOK'
  <2>1. /\ devices' \subseteq Devices /\ rowDevices' \subseteq Devices
        /\ rows' \subseteq Row
    BY <1>2 DEF TypeOK, RemoveDevice, DeleteDevice
  <2>5. lastSeen' \in [Devices -> Nat] /\ rowSeen' \in [Devices -> Nat]
    <3>1. lastSeen' = [lastSeen EXCEPT ![d] = 0]
      BY <1>2 DEF RemoveDevice
    <3>2. rowSeen' = [rowSeen EXCEPT ![d] = 0] \/ rowSeen' = rowSeen
      BY <1>2 DEF RemoveDevice, DeleteDevice
    <3> QED
      BY <3>1, <3>2 DEF TypeOK
  <2>2. pending' \in [Devices -> Seq(Requests)]
    BY <1>2, EmptyFacts DEF TypeOK, RemoveDevice
  <2>3. removed' \subseteq Requests
    <3>1. Range(pending[d]) \subseteq Requests
      BY DEF TypeOK, Range
    <3>2. PendingRows(d) \subseteq Requests
      BY DEF TypeOK, PendingRows, Row
    <3> QED
      BY <1>2, <3>1, <3>2 DEF TypeOK, RemoveDevice
  <2>4. dbErrors' \in 0 .. MaxDbErrors
    BY <1>2, RegistryAssumption DEF TypeOK, RemoveDevice, DbOk, DbFails
  <2> QED
    BY <1>2, <2>1, <2>2, <2>3, <2>4, <2>5 DEF TypeOK, RemoveDevice
<1>3. ASSUME NEW d \in Devices, DeploySkip(d) PROVE TypeOK'
  BY <1>3 DEF TypeOK, DeploySkip
<1>4. ASSUME NEW d \in Devices, NEW q \in Requests, QueueCommand(d, q) PROVE TypeOK'
  <2>1. Enqueue(d, q)
    BY <1>4 DEF QueueCommand
  <2>2. rows' \subseteq Row /\ dbErrors' \in 0 .. MaxDbErrors
    BY <1>4, <2>1, EnqueueType, RegistryAssumption DEF TypeOK, QueueCommand, DbFails
  <2> QED
    BY <1>4, <2>1, <2>2, EnqueueType DEF TypeOK, QueueCommand, Enqueue
<1>5. ASSUME NEW d \in Devices, NEW q \in Requests, DeployOne(d, q) PROVE TypeOK'
  <2>1. Enqueue(d, q)
    BY <1>5 DEF DeployOne
  <2>2. /\ rows' \subseteq Row /\ dbErrors' \in 0 .. MaxDbErrors
        /\ deploying' \subseteq Devices
    BY <1>5, <2>1, EnqueueType, RegistryAssumption DEF TypeOK, DeployOne, DbFails
  <2> QED
    BY <1>5, <2>1, <2>2, EnqueueType DEF TypeOK, DeployOne, Enqueue
<1>6. ASSUME NEW d \in Devices, NEW t \in Times, HeartbeatDies(d, t) PROVE TypeOK'
  <2>1. rowSeen' \in [Devices -> Nat] /\ rowDevices' \subseteq Devices
    BY <1>6, RegistryAssumption DEF TypeOK, HeartbeatDies, Upsert
  <2> QED
    BY <1>6, <2>1, LoseCacheType DEF TypeOK, HeartbeatDies
<1>7. ASSUME NEW targets \in SUBSET Devices, DeployStart(targets) PROVE TypeOK'
  BY <1>7 DEF TypeOK, DeployStart
<1>8. CASE Crash
  BY <1>8, LoseCacheType DEF TypeOK, Crash
<1>9. CASE Restart
  <2>1. pending' \in [Devices -> Seq(Requests)]
    <3>1. PICK loaded \in [Devices -> Queues] : pending' = loaded
      BY <1>9 DEF Restart
    <3> QED
      BY <3>1, QueuesAreSequences
  <2> QED
    BY <1>9, <2>1 DEF TypeOK, Restart
<1>10. CASE UNCHANGED vars
  BY <1>10 DEF TypeOK, vars
<1> QED
  BY <1>1, <1>2, <1>3, <1>4, <1>5, <1>6, <1>7, <1>8, <1>9, <1>10, HeartbeatType DEF Next

\* Every reachable state of the registry is well typed.
THEOREM TypeCorrect == Spec => []TypeOK
<1>1. Init => TypeOK
  BY TypeInit
<1>2. TypeOK /\ [Next]_vars => TypeOK'
  BY TypeStep
<1> QED
  BY <1>1, <1>2, PTL DEF Spec

----------------------------------------------------------------------------
(* A request is in one place at a time.                                    *)

\* Initially every request is nowhere.
LEMMA OnePlaceInit == Init => OnePlace
  BY EmptyFacts
  DEF Init, OnePlace, UnissuedIsNowhere, OneRowPerId, QueuedOnce, AnsweredOnce,
      Settled, RemovedStaysRemoved

\* Losing queued requests, with everything else as it was, is harmless.
LEMMA QueuesShrink ==
    ASSUME OnePlace, UNCHANGED <<stamp, handed, rows, removed>>,
           \A d \in Devices : IsInjective(pending'[d]) /\ Range(pending'[d]) \subseteq Range(pending[d])
    PROVE  OnePlace'
<1>1. UnissuedIsNowhere'
  BY DEF OnePlace, UnissuedIsNowhere
<1>2. OneRowPerId'
  BY DEF OnePlace, OneRowPerId
<1>3. QueuedOnce'
  BY DEF OnePlace, QueuedOnce
<1>4. AnsweredOnce'
  BY DEF OnePlace, AnsweredOnce, Settled
<1>5. Settled(removed)' /\ RemovedStaysRemoved'
  BY DEF OnePlace, Settled, RemovedStaysRemoved
<1> QED
  BY <1>1, <1>2, <1>3, <1>4, <1>5 DEF OnePlace

\* A request that is queued for the first time is in one place, whether or
\* not its row could be inserted.
LEMMA EnqueueOnePlace ==
    ASSUME TypeOK, OnePlace, NEW d \in Devices, NEW q \in Requests, Enqueue(d, q),
           Inserted(d, q) \/ UNCHANGED rows
    PROVE  OnePlace'
<1> USE DEF OnePlace
<1>1. /\ stamp[q] = 0 /\ stamp'[q] # 0
      /\ \A r \in Requests \ {q} : stamp'[r] = stamp[r]
  BY DEF Enqueue, TypeOK
<1>2. /\ \A e \in Devices : q \notin Range(pending[e]) /\ q \notin Range(handed[e])
      /\ \A r \in rows : r.req # q
      /\ q \notin removed
  BY <1>1 DEF UnissuedIsNowhere
<1>3. /\ Range(pending'[d]) = Range(pending[d]) \cup {q}
      /\ IsInjective(pending'[d])
      /\ \A e \in Devices \ {d} : pending'[e] = pending[e]
  <2>1. pending[d] \in Seq(Requests) /\ IsInjective(pending[d])
    BY DEF TypeOK, QueuedOnce
  <2>2. /\ pending'[d] = Append(pending[d], q)
        /\ \A e \in Devices \ {d} : pending'[e] = pending[e]
    BY DEF Enqueue, TypeOK
  <2> QED
    BY <1>2, <2>1, <2>2, AppendRange, AppendInjective
<1>4. UNCHANGED <<handed, removed>>
  BY DEF Enqueue
<1>5. /\ rows \subseteq rows'
      /\ \A r \in rows' \ rows : r.req = q /\ r.dev = d /\ r.status = "pending" /\ ~IdTaken(q)
      /\ \A r, s \in rows' \ rows : r = s
  BY DEF Inserted
<1>6. UnissuedIsNowhere'
  BY <1>1, <1>3, <1>4, <1>5 DEF UnissuedIsNowhere
<1>7. OneRowPerId'
  BY <1>5 DEF OneRowPerId, IdTaken
<1>8. QueuedOnce'
  BY <1>2, <1>3, <1>5 DEF QueuedOnce
<1>9. AnsweredOnce'
  BY <1>2, <1>3, <1>4, <1>5 DEF AnsweredOnce, Settled
<1>10. Settled(removed)' /\ RemovedStaysRemoved'
  BY <1>2, <1>3, <1>4, <1>5 DEF Settled, RemovedStaysRemoved
<1> QED
  BY <1>6, <1>7, <1>8, <1>9, <1>10

\* What pop(0) takes from the queue of d is nowhere in the queues any more.
LEMMA PopFacts ==
    ASSUME TypeOK, OnePlace, NEW d \in Devices, pending[d] # <<>>,
           pending' = [pending EXCEPT ![d] = Tail(@)]
    PROVE  /\ Head(pending[d]) \in Requests
           /\ Head(pending[d]) \in Range(pending[d])
           /\ \A e \in Devices : /\ IsInjective(pending'[e])
                                 /\ Range(pending'[e]) \subseteq Range(pending[e])
                                 /\ Head(pending[d]) \notin Range(pending'[e])
<1>1. pending[d] \in Seq(Requests) /\ IsInjective(pending[d])
  BY DEF TypeOK, OnePlace, QueuedOnce
<1>2. pending'[d] = Tail(pending[d]) /\ \A e \in Devices \ {d} : pending'[e] = pending[e]
  BY DEF TypeOK
<1>3. /\ Head(pending[d]) \in Requests /\ Head(pending[d]) \in Range(pending[d])
      /\ IsInjective(pending'[d]) /\ Range(pending'[d]) \subseteq Range(pending[d])
      /\ Head(pending[d]) \notin Range(pending'[d])
  BY <1>1, <1>2, TailFacts
<1>4. ASSUME NEW e \in Devices \ {d}
      PROVE  IsInjective(pending[e]) /\ Head(pending[d]) \notin Range(pending[e])
  BY <1>3 DEF OnePlace, QueuedOnce
<1> QED
  BY <1>2, <1>3, <1>4

\* Answering the head of a queue moves it from the queue to the answers, and
\* the mark settles its row.
LEMMA CommandOnePlace ==
    ASSUME TypeOK, OnePlace, NEW d \in Devices, NEW t \in Times, HeartbeatCommand(d, t)
    PROVE  OnePlace'
<1> DEFINE q == Head(pending[d])
<1>1. /\ pending[d] # <<>> /\ pending' = [pending EXCEPT ![d] = Tail(@)]
      /\ MarkDelivered(q) /\ UNCHANGED <<stamp, removed>>
      /\ handed' = [handed EXCEPT ![d] = Append(@, q)]
  BY DEF HeartbeatCommand, ApplyHeartbeat
<1>2. /\ q \in Requests /\ q \in Range(pending[d])
      /\ \A e \in Devices : /\ IsInjective(pending'[e])
                            /\ Range(pending'[e]) \subseteq Range(pending[e])
                            /\ q \notin Range(pending'[e])
  BY <1>1, PopFacts
<1>3. q \notin removed /\ \A e \in Devices : q \notin Range(handed[e])
  BY <1>2 DEF OnePlace, AnsweredOnce, Settled
<1>4. stamp[q] # 0
  BY <1>2 DEF OnePlace, UnissuedIsNowhere
<1> HIDE DEF q
<1>5. /\ Range(handed'[d]) = Range(handed[d]) \cup {q}
      /\ IsInjective(handed'[d])
      /\ \A e \in Devices \ {d} : handed'[e] = handed[e]
  <2>1. handed[d] \in Seq(Requests) /\ IsInjective(handed[d])
    BY DEF TypeOK, OnePlace, AnsweredOnce
  <2>2. /\ handed'[d] = Append(handed[d], q)
        /\ \A e \in Devices \ {d} : handed'[e] = handed[e]
    BY <1>1 DEF TypeOK
  <2> QED
    BY <1>2, <1>3, <2>1, <2>2, AppendRange, AppendInjective
<1>6. /\ \A r \in rows' : \E s \in rows :
            /\ r.req = s.req /\ r.dev = s.dev
            /\ r.status = "pending" => r = s /\ IdOf[s.req] # IdOf[q]
  BY <1>1, <1>2, MarkFacts
<1> USE DEF OnePlace
<1>7. UnissuedIsNowhere'
  <2> SUFFICES ASSUME NEW x \in Requests, stamp[x] = 0
               PROVE  /\ \A e \in Devices : x \notin Range(pending'[e]) /\ x \notin Range(handed'[e])
                      /\ \A r \in rows' : r.req # x
                      /\ x \notin removed
    BY <1>1 DEF UnissuedIsNowhere
  <2>1. /\ \A e \in Devices : x \notin Range(pending[e]) /\ x \notin Range(handed[e])
        /\ \A r \in rows : r.req # x
        /\ x \notin removed /\ x # q
    BY <1>4 DEF UnissuedIsNowhere
  <2>2. \A e \in Devices : x \notin Range(pending'[e]) /\ x \notin Range(handed'[e])
    BY <1>2, <1>5, <2>1
  <2>3. \A r \in rows' : r.req # x
    BY <1>6, <2>1
  <2> QED
    BY <2>1, <2>2, <2>3
<1>8. OneRowPerId'
  <2> DEFINE Marked(s) == IF IdOf[s.req] = IdOf[q] THEN [s EXCEPT !.status = "delivered"] ELSE s
  <2>1. rows' = {Marked(s) : s \in rows}
    BY <1>1 DEF MarkDelivered
  <2>2. ASSUME NEW s \in rows PROVE Marked(s).req = s.req
    BY DEF TypeOK, Row
  <2> HIDE DEF Marked
  <2>3. ASSUME NEW r1 \in rows', NEW r2 \in rows', IdOf[r1.req] = IdOf[r2.req]
        PROVE  r1 = r2
    <3>1. PICK s1 \in rows : r1 = Marked(s1)
      BY <2>1
    <3>2. PICK s2 \in rows : r2 = Marked(s2)
      BY <2>1
    <3>3. s1 = s2
      BY <2>2, <2>3, <3>1, <3>2 DEF OneRowPerId
    <3> QED
      BY <3>1, <3>2, <3>3
  <2> QED
    BY <2>3 DEF OneRowPerId
<1>9. QueuedOnce'
  BY <1>2, <1>6 DEF QueuedOnce
<1>10. AnsweredOnce'
  <2>1. \A e \in Devices : IsInjective(handed'[e])
    BY <1>5 DEF AnsweredOnce
  <2>2. \A e, f \in Devices : e # f => Range(handed'[e]) \cap Range(handed'[f]) = {}
    BY <1>3, <1>5 DEF AnsweredOnce
  <2>3. ASSUME NEW e \in Devices, NEW f \in Devices
        PROVE  Range(handed'[e]) \cap Range(pending'[f]) = {}
    BY <1>2, <1>5 DEF AnsweredOnce, Settled
  <2>4. ASSUME NEW e \in Devices, NEW r \in rows', r.status = "pending"
        PROVE  r.req \notin Range(handed'[e])
    <3>1. r \in rows /\ IdOf[r.req] # IdOf[q]
      BY <1>6, <2>4
    <3> QED
      BY <1>5, <2>4, <3>1 DEF AnsweredOnce, Settled
  <2> QED
    BY <2>1, <2>2, <2>3, <2>4 DEF AnsweredOnce, Settled
<1>11. Settled(removed)' /\ RemovedStaysRemoved'
  <2>1. \A e \in Devices : removed \cap Range(pending'[e]) = {}
    BY <1>2 DEF Settled
  <2>2. \A r \in rows' : r.status = "pending" => r.req \notin removed
    BY <1>6 DEF Settled
  <2>3. \A e \in Devices : Range(handed'[e]) \cap removed = {}
    BY <1>3, <1>5 DEF RemovedStaysRemoved
  <2> QED
    BY <1>1, <2>1, <2>2, <2>3 DEF Settled, RemovedStaysRemoved
<1> QED
  BY <1>7, <1>8, <1>9, <1>10, <1>11

\* Removing a device discards its queue and, if SQLite lets it, its rows.
LEMMA RemoveOnePlace ==
    ASSUME TypeOK, OnePlace, NEW d \in Devices, RemoveDevice(d)
    PROVE  OnePlace'
<1>1. /\ pending'[d] = <<>>
      /\ \A e \in Devices \ {d} : pending'[e] = pending[e]
      /\ UNCHANGED <<stamp, handed>>
  BY DEF RemoveDevice, TypeOK
<1>2. \A e \in Devices : IsInjective(pending'[e]) /\ Range(pending'[e]) \subseteq Range(pending[e])
  BY <1>1, EmptyFacts DEF OnePlace, QueuedOnce
<1>3. CASE UNCHANGED <<rows, removed>>
  BY <1>1, <1>2, <1>3, QueuesShrink
<1>4. CASE /\ rows' = {r \in rows : r.dev # d}
           /\ removed' = removed \cup Range(pending[d]) \cup PendingRows(d)
  <2> USE DEF OnePlace
  <2>1. \A e \in Devices : Range(handed[e]) \cap removed' = {}
    BY <1>4 DEF RemovedStaysRemoved, AnsweredOnce, Settled, PendingRows
  <2>2. ASSUME NEW x \in removed'
        PROVE  /\ \A e \in Devices : x \notin Range(pending'[e])
               /\ \A r \in rows' : r.status = "pending" => r.req # x
    <3>1. CASE x \in removed
      BY <1>2, <1>4, <3>1 DEF Settled
    <3>2. CASE x \in Range(pending[d])
      BY <1>1, <1>4, <3>2, EmptyFacts DEF QueuedOnce
    <3>3. CASE x \in PendingRows(d)
      <4>1. PICK r \in rows : r.req = x /\ r.dev = d
        BY <3>3 DEF PendingRows
      <4> QED
        BY <1>1, <1>4, <4>1, EmptyFacts DEF QueuedOnce, OneRowPerId
    <3> QED
      BY <1>4, <3>1, <3>2, <3>3
  <2>3. Settled(removed)'
    BY <2>2 DEF Settled
  <2>4. UnissuedIsNowhere'
    BY <1>1, <1>2, <1>4 DEF UnissuedIsNowhere, PendingRows
  <2>5. OneRowPerId' /\ QueuedOnce'
    BY <1>1, <1>2, <1>4 DEF OneRowPerId, QueuedOnce
  <2>6. AnsweredOnce'
    BY <1>1, <1>2, <1>4 DEF AnsweredOnce, Settled
  <2> QED
    BY <1>1, <2>1, <2>3, <2>4, <2>5, <2>6 DEF RemovedStaysRemoved
<1> QED
  BY <1>3, <1>4 DEF RemoveDevice, DeleteDevice, dbVars

\* A crash empties the queues and leaves the rows.
LEMMA LoseCacheOnePlace ==
    ASSUME OnePlace, LoseCache, UNCHANGED <<rows, history>>
    PROVE  OnePlace'
<1>1. \A d \in Devices : IsInjective(pending'[d]) /\ Range(pending'[d]) \subseteq Range(pending[d])
  BY EmptyFacts DEF LoseCache
<1> QED
  BY <1>1, QueuesShrink DEF history

\* A queue ordered by the times of its requests has no repetitions.
LEMMA OrderedIsInjective ==
    ASSUME TypeOK, NEW s \in Seq(Requests), InOrder(s)
    PROVE  IsInjective(s)
<1> SUFFICES ASSUME NEW i \in DOMAIN s, NEW j \in DOMAIN s, s[i] = s[j], i < j
             PROVE  FALSE
  BY DEF IsInjective
<1>1. stamp[s[i]] \in Nat /\ stamp[s[i]] < stamp[s[j]]
  BY DEF TypeOK, InOrder
<1> QED
  BY <1>1

\* Rebuilding the queues from the pending rows queues each request once.
LEMMA RestartOnePlace ==
    ASSUME TypeOK, OnePlace, Restart
    PROVE  OnePlace'
<1>1. PICK loaded \in [Devices -> Queues] :
         /\ \A d \in Devices : IF d \in rowDevices THEN Loads(loaded[d], d) ELSE loaded[d] = <<>>
         /\ pending' = loaded
  BY DEF Restart
<1>2. UNCHANGED <<stamp, handed, rows, removed>>
  BY DEF Restart, dbVars, history
<1>3. ASSUME NEW d \in Devices
      PROVE  IsInjective(pending'[d]) /\ Range(pending'[d]) \subseteq PendingRows(d)
  <2>1. CASE d \in rowDevices
    <3>1. pending'[d] \in Seq(Requests) /\ Loads(pending'[d], d)
      BY <1>1, <2>1, QueuesAreSequences
    <3> QED
      BY <3>1, OrderedIsInjective DEF Loads
  <2>2. CASE d \notin rowDevices
    BY <1>1, <2>2, EmptyFacts
  <2> QED
    BY <2>1, <2>2
<1>4. \A d \in Devices : \A q \in Range(pending'[d]) :
         \E r \in rows : r.req = q /\ r.dev = d /\ r.status = "pending"
  BY <1>3 DEF PendingRows
<1> USE DEF OnePlace
<1>5. UnissuedIsNowhere'
  BY <1>2, <1>4 DEF UnissuedIsNowhere
<1>6. OneRowPerId' /\ RemovedStaysRemoved'
  BY <1>2 DEF OneRowPerId, RemovedStaysRemoved
<1>7. QueuedOnce'
  BY <1>2, <1>3, <1>4 DEF QueuedOnce, OneRowPerId
<1>8. AnsweredOnce' /\ Settled(removed)'
  BY <1>2, <1>4 DEF AnsweredOnce, Settled
<1> QED
  BY <1>5, <1>6, <1>7, <1>8

\* Every action keeps each request in one place.
LEMMA OnePlaceStep == TypeOK /\ OnePlace /\ [Next]_vars => OnePlace'
<1> SUFFICES ASSUME TypeOK, OnePlace, [Next]_vars PROVE OnePlace'
  OBVIOUS
<1> DEFINE Same == UNCHANGED <<pending, stamp, handed, rows, removed>>
<1>1. ASSUME Same PROVE OnePlace'
  BY <1>1, QueuesShrink DEF OnePlace, QueuedOnce
<1>2. ASSUME NEW d \in Devices, Register(d) \/ DeploySkip(d) PROVE OnePlace'
  BY <1>1, <1>2 DEF Register, DeploySkip, cacheVars, dbVars, history
<1>3. ASSUME NEW d \in Devices, RemoveDevice(d) PROVE OnePlace'
  BY <1>3, RemoveOnePlace
<1>4. ASSUME NEW d \in Devices, NEW q \in Requests, QueueCommand(d, q) PROVE OnePlace'
  BY <1>4, EnqueueOnePlace DEF QueueCommand
<1>5. ASSUME NEW d \in Devices, NEW q \in Requests, DeployOne(d, q) PROVE OnePlace'
  BY <1>5, EnqueueOnePlace DEF DeployOne
<1>6. ASSUME NEW d \in Devices, NEW t \in Times,
             HeartbeatNoop(d, t) \/ HeartbeatUpsertFails(d, t)
      PROVE  OnePlace'
  BY <1>1, <1>6 DEF HeartbeatNoop, HeartbeatUpsertFails, ApplyHeartbeat, dbVars
<1>7. ASSUME NEW d \in Devices, NEW t \in Times, HeartbeatCommand(d, t) PROVE OnePlace'
  BY <1>7, CommandOnePlace
<1>8. ASSUME NEW d \in Devices, NEW t \in Times, HeartbeatMarkFails(d, t) PROVE OnePlace'
  BY <1>8, PopFacts, QueuesShrink DEF HeartbeatMarkFails, ApplyHeartbeat
<1>9. ASSUME NEW d \in Devices, NEW t \in Times, HeartbeatDies(d, t) PROVE OnePlace'
  BY <1>9, LoseCacheOnePlace DEF HeartbeatDies
<1>10. ASSUME NEW targets \in SUBSET Devices, DeployStart(targets) PROVE OnePlace'
  BY <1>1, <1>10 DEF DeployStart, cacheVars, dbVars, history
<1>11. CASE Crash
  BY <1>11, LoseCacheOnePlace DEF Crash, dbVars
<1>12. CASE Restart
  BY <1>12, RestartOnePlace
<1>13. CASE UNCHANGED vars
  BY <1>1, <1>13 DEF vars, cacheVars, dbVars, history
<1> HIDE DEF Same
<1> QED
  BY <1>2, <1>3, <1>4, <1>5, <1>6, <1>7, <1>8, <1>9, <1>10, <1>11, <1>12, <1>13 DEF Next

\* Whatever crashes, SQLite errors and repeated ids do, a request is in one
\* place at a time.
THEOREM OnePlaceAlways == Spec => []OnePlace
<1>1. Init => OnePlace
  BY OnePlaceInit
<1>2. TypeOK /\ OnePlace /\ [Next]_vars => OnePlace'
  BY OnePlaceStep
<1> QED
  BY <1>1, <1>2, TypeCorrect, PTL DEF Spec

\* A request is answered to one device at most once.
THEOREM AnsweredAtMostOnce == Spec => []AtMostOnce
<1>1. OnePlace => AtMostOnce
  BY DEF OnePlace, AnsweredOnce, AtMostOnce, IsInjective, Range
<1> QED
  BY <1>1, OnePlaceAlways, PTL

\* A command discarded with its device is never answered.
THEOREM RemovalIsFinal == Spec => []RemovedStaysRemoved
<1>1. OnePlace => RemovedStaysRemoved
  BY DEF OnePlace
<1> QED
  BY <1>1, OnePlaceAlways, PTL

----------------------------------------------------------------------------
(* The registry implements the abstract life of a command.                 *)

Accepted == {q \in Requests : stamp[q] # 0}

\* A request that waits is one that was made.
LEMMA WaitingIsAccepted == OnePlace => Waiting \subseteq Accepted
  BY DEF OnePlace, UnissuedIsNowhere, Waiting, Accepted, PendingRows

\* A step that makes no request, answers none and lets none wait that did not
\* is a loss, perhaps of nothing.
LEMMA ShrinkingIsADrop ==
    ASSUME UNCHANGED <<stamp, handed>>, Waiting' \subseteq Waiting
    PROVE  CD!Next
<1> DEFINE dropped == Waiting \ Waiting'
<1>1. Waiting' = Waiting \ dropped
  OBVIOUS
<1>2. dropped \in SUBSET Waiting
  OBVIOUS
<1> HIDE DEF dropped
<1>3. CD!Drop(dropped)
  BY <1>1 DEF CD!Drop
<1> QED
  BY <1>2, <1>3 DEF CD!Next

\* Fewer queued requests and fewer pending rows leave fewer that wait.
LEMMA WaitingShrinks ==
    ASSUME \A d \in Devices : Range(pending'[d]) \subseteq Range(pending[d]) \cup PendingRows(d),
           \A r \in rows' : r.status = "pending" => r \in rows
    PROVE  Waiting' \subseteq Waiting
<1>1. \A d \in Devices : PendingRows(d)' \subseteq PendingRows(d)
  BY DEF PendingRows
<1> QED
  BY <1>1 DEF Waiting

\* enqueue_command accepts a request, whether or not its row is inserted.
LEMMA EnqueueAccepts ==
    ASSUME TypeOK, OnePlace, NEW d \in Devices, NEW q \in Requests, Enqueue(d, q),
           Inserted(d, q) \/ UNCHANGED rows
    PROVE  CD!Next
<1>1. /\ stamp[q] = 0 /\ stamp'[q] # 0
      /\ \A r \in Requests \ {q} : stamp'[r] = stamp[r]
      /\ UNCHANGED handed
  BY DEF Enqueue, TypeOK
<1>2. /\ Range(pending'[d]) = Range(pending[d]) \cup {q}
      /\ \A e \in Devices \ {d} : pending'[e] = pending[e]
  <2>1. /\ pending[d] \in Seq(Requests) /\ pending'[d] = Append(pending[d], q)
        /\ \A e \in Devices \ {d} : pending'[e] = pending[e]
    BY DEF Enqueue, TypeOK
  <2> QED
    BY <2>1, AppendRange
<1>3. rows \subseteq rows' /\ \A r \in rows' \ rows : r.req = q /\ r.dev = d
  BY DEF Inserted
<1>4. Waiting' = Waiting \cup {q}
  <2>1. /\ \A e \in Devices : /\ PendingRows(e) \subseteq PendingRows(e)'
                              /\ PendingRows(e)' \subseteq PendingRows(e) \cup {q}
    BY <1>3 DEF PendingRows
  <2>2. Waiting \cup {q} \subseteq Waiting'
    BY <1>2, <2>1 DEF Waiting
  <2>3. Waiting' \subseteq Waiting \cup {q}
    BY <1>2, <2>1 DEF Waiting
  <2> QED
    BY <2>2, <2>3
<1>5. Accepted' = Accepted \cup {q} /\ q \notin Accepted
  BY <1>1 DEF Accepted
<1>6. CD!Accept(q)
  BY <1>1, <1>4, <1>5 DEF CD!Accept, Accepted
<1> QED
  BY <1>6 DEF CD!Next

\* pop(0) and the mark answer one request; the others that carry its
\* command_id may stop waiting with it.
LEMMA CommandAnswers ==
    ASSUME TypeOK, OnePlace, NEW d \in Devices, NEW t \in Times, HeartbeatCommand(d, t)
    PROVE  CD!Next
<1> DEFINE q == Head(pending[d])
<1>1. /\ pending[d] # <<>> /\ pending' = [pending EXCEPT ![d] = Tail(@)]
      /\ MarkDelivered(q) /\ UNCHANGED stamp
      /\ handed' = [handed EXCEPT ![d] = Append(@, q)]
  BY DEF HeartbeatCommand, ApplyHeartbeat
<1>2. /\ q \in Requests /\ q \in Range(pending[d])
      /\ \A e \in Devices : Range(pending'[e]) \subseteq Range(pending[e]) /\ q \notin Range(pending'[e])
  BY <1>1, PopFacts
<1> HIDE DEF q
<1>3. \A r \in rows' : r.status = "pending" => r \in rows /\ IdOf[r.req] # IdOf[q]
  BY <1>1, <1>2, MarkFacts
<1>4. Waiting' \subseteq Waiting
  BY <1>2, <1>3, WaitingShrinks
<1>5. q \in Waiting /\ q \notin Waiting'
  BY <1>2, <1>3 DEF Waiting, PendingRows
<1> DEFINE dropped == Waiting \ Waiting'
<1>6. dropped \in SUBSET Waiting /\ Waiting' = Waiting \ (dropped \cup {q})
  BY <1>4, <1>5
<1> HIDE DEF dropped
<1>7. CD!Answer(d, q, dropped)
  BY <1>1, <1>5, <1>6 DEF CD!Answer
<1> QED
  BY <1>5, <1>6, <1>7 DEF CD!Next

\* What a crash leaves waiting are the pending rows.
LEMMA LoseCacheDrops ==
    ASSUME LoseCache, UNCHANGED <<rows, history>>
    PROVE  CD!Next
<1>1. \A d \in Devices : Range(pending'[d]) = {}
  BY EmptyFacts DEF LoseCache
<1> QED
  BY <1>1, WaitingShrinks, ShrinkingIsADrop DEF history

\* Every step of the registry is a step of the abstract specification.
LEMMA StepImplements ==
    TypeOK /\ OnePlace /\ [Next]_vars => [CD!Next]_<<Accepted, Waiting, handed>>
<1> SUFFICES ASSUME TypeOK, OnePlace, [Next]_vars
             PROVE  CD!Next \/ UNCHANGED <<Accepted, Waiting, handed>>
  OBVIOUS
<1> DEFINE Same == UNCHANGED <<pending, stamp, handed, rows>>
<1>1. ASSUME Same PROVE CD!Next
  BY <1>1, WaitingShrinks, ShrinkingIsADrop
<1>2. ASSUME NEW d \in Devices, Register(d) \/ DeploySkip(d) PROVE CD!Next
  BY <1>1, <1>2 DEF Register, DeploySkip, cacheVars, dbVars, history
<1>3. ASSUME NEW d \in Devices, RemoveDevice(d) PROVE CD!Next
  <2>1. \A e \in Devices : Range(pending'[e]) \subseteq Range(pending[e])
    BY <1>3, EmptyFacts DEF RemoveDevice, TypeOK
  <2>2. rows' \subseteq rows /\ UNCHANGED <<stamp, handed>>
    BY <1>3 DEF RemoveDevice, DeleteDevice, dbVars
  <2> QED
    BY <2>1, <2>2, WaitingShrinks, ShrinkingIsADrop
<1>4. ASSUME NEW d \in Devices, NEW q \in Requests, QueueCommand(d, q) \/ DeployOne(d, q)
      PROVE  CD!Next
  BY <1>4, EnqueueAccepts DEF QueueCommand, DeployOne
<1>5. ASSUME NEW d \in Devices, NEW t \in Times,
             HeartbeatNoop(d, t) \/ HeartbeatUpsertFails(d, t)
      PROVE  CD!Next
  BY <1>1, <1>5 DEF HeartbeatNoop, HeartbeatUpsertFails, ApplyHeartbeat, dbVars
<1>6. ASSUME NEW d \in Devices, NEW t \in Times, HeartbeatCommand(d, t) PROVE CD!Next
  BY <1>6, CommandAnswers
<1>7. ASSUME NEW d \in Devices, NEW t \in Times, HeartbeatMarkFails(d, t) PROVE CD!Next
  <2>1. /\ \A e \in Devices : Range(pending'[e]) \subseteq Range(pending[e])
        /\ UNCHANGED <<stamp, handed, rows>>
    BY <1>7, PopFacts DEF HeartbeatMarkFails, ApplyHeartbeat
  <2> QED
    BY <2>1, WaitingShrinks, ShrinkingIsADrop
<1>8. ASSUME NEW d \in Devices, NEW t \in Times, HeartbeatDies(d, t) PROVE CD!Next
  BY <1>8, LoseCacheDrops DEF HeartbeatDies
<1>9. ASSUME NEW targets \in SUBSET Devices, DeployStart(targets) PROVE CD!Next
  BY <1>1, <1>9 DEF DeployStart, cacheVars, dbVars, history
<1>10. CASE Crash
  BY <1>10, LoseCacheDrops DEF Crash, dbVars
<1>11. CASE Restart
  <2>1. \A d \in Devices : Range(pending'[d]) \subseteq PendingRows(d)
    BY <1>11, EmptyFacts DEF Restart, Loads
  <2>2. UNCHANGED <<stamp, handed, rows>>
    BY <1>11 DEF Restart, dbVars, history
  <2> QED
    BY <2>1, <2>2, WaitingShrinks, ShrinkingIsADrop
<1>12. CASE UNCHANGED vars
  BY <1>1, <1>12 DEF vars, cacheVars, dbVars, history
<1> HIDE DEF Same
<1> QED
  BY <1>2, <1>3, <1>4, <1>5, <1>6, <1>7, <1>8, <1>9, <1>10, <1>11, <1>12 DEF Next

\* The registry, with its crashes, SQLite errors and repeated ids, implements
\* CommandDelivery: a command is accepted once and leaves the waiting room
\* for good, answered to one device or dropped.
THEOREM RegistryImplementsCommandDelivery == Spec => ImplementsCommandDelivery
<1>1. Init => CD!Init
  BY EmptyFacts DEF Init, CD!Init, Waiting, PendingRows
<1>2. TypeOK /\ OnePlace /\ [Next]_vars => [CD!Next]_<<Accepted, Waiting, handed>>
  BY StepImplements
<1> QED
  BY <1>1, <1>2, TypeCorrect, OnePlaceAlways, PTL
  DEF Spec, ImplementsCommandDelivery, CD!Spec, Accepted

----------------------------------------------------------------------------
(* Without SQLite errors, the database mirrors the cache.                  *)

\* A pending row belongs to a device of the devices table.
RowsBelong == \A r \in rows : r.status = "pending" => r.dev \in rowDevices

\* The column last_seen of a device that was never written reads 0.
UnwrittenIsUnseen == \A d \in Devices \ rowDevices : rowSeen[d] = 0

\* What holds while the controller runs: both tables agree with the cache.
\* The queue of a device holds its pending rows; when no two requests carry
\* the same command_id it holds nothing else, in the order of the rows.
TablesMirrorCache ==
    /\ devices = rowDevices
    /\ lastSeen = rowSeen
    /\ \A r \in rows : r.status = "pending" => r.req \in Range(pending[r.dev])
    /\ DistinctIds => \A d \in Devices : Loads(pending[d], d)

\* The invariant: RowsBelong and UnwrittenIsUnseen also speak of a controller
\* that is down, so that a restart finds what it needs.
Mirror ==
    dbErrors = 0 =>
        /\ RowsBelong
        /\ UnwrittenIsUnseen
        /\ up => TablesMirrorCache

\* The queue that is left after pop(0) is in order if the queue was.
LEMMA TailInOrder ==
    ASSUME NEW s \in Seq(Requests), s # <<>>, InOrder(s)
    PROVE  InOrder(Tail(s))
<1>1. /\ Len(s) \in Nat \ {0} /\ DOMAIN s = 1 .. Len(s)
      /\ DOMAIN Tail(s) = 1 .. Len(s) - 1
      /\ \A i \in 1 .. Len(s) - 1 : Tail(s)[i] = s[i + 1]
  OBVIOUS
<1>2. \A i, j \in 1 .. Len(s) - 1 :
         i + 1 \in 1 .. Len(s) /\ j + 1 \in 1 .. Len(s) /\ (i < j => i + 1 < j + 1)
  BY <1>1
<1> QED
  BY <1>1, <1>2 DEF InOrder

\* A request queued now is younger than every request in the queue.
LEMMA AppendInOrder ==
    ASSUME TypeOK, NEW s \in Seq(Requests), NEW q \in Requests, q \notin Range(s),
           InOrder(s), stamp' = [stamp EXCEPT ![q] = issued + 1]
    PROVE  InOrder(Append(s, q))'
<1>1. /\ DOMAIN s = 1 .. Len(s) /\ Len(s) \in Nat
      /\ DOMAIN Append(s, q) = 1 .. Len(s) + 1
      /\ \A i \in 1 .. Len(s) : Append(s, q)[i] = s[i] /\ s[i] \in Requests /\ s[i] # q
      /\ Append(s, q)[Len(s) + 1] = q
  BY DEF Range
<1>2. /\ issued \in Nat /\ stamp'[q] = issued + 1
      /\ \A r \in Requests : stamp[r] \in 0 .. issued
      /\ \A r \in Requests \ {q} : stamp'[r] = stamp[r]
  BY DEF TypeOK
<1>3. ASSUME NEW i \in 1 .. Len(s) + 1, NEW j \in 1 .. Len(s) + 1, i < j
      PROVE  stamp'[Append(s, q)[i]] < stamp'[Append(s, q)[j]]
  <2>1. i \in 1 .. Len(s) /\ (j \in 1 .. Len(s) \/ j = Len(s) + 1)
    BY <1>1, <1>3
  <2>2. CASE j \in 1 .. Len(s)
    BY ZenonT(60), <1>1, <1>2, <1>3, <2>1, <2>2 DEF InOrder
  <2>3. CASE j = Len(s) + 1
    <3>1. Append(s, q)[i] \in Requests \ {q} /\ Append(s, q)[j] = q
      BY <1>1, <2>1, <2>3
    <3> QED
      BY <1>2, <3>1
  <2> QED
    BY <2>1, <2>2, <2>3
<1> QED
  BY <1>1, <1>3 DEF InOrder

\* A step that leaves the queues, the rows and the stamps alone and keeps the
\* devices table equal to the cache keeps the mirror.
LEMMA QueuesUntouched ==
    ASSUME Mirror, dbErrors = 0, UNCHANGED <<up, pending, rows, stamp>>,
           RowsBelong', UnwrittenIsUnseen', up => devices' = rowDevices' /\ lastSeen' = rowSeen'
    PROVE  Mirror'
<1>1. up => DistinctIds' = DistinctIds /\ \A d \in Devices : Loads(pending[d], d)' = Loads(pending[d], d)
  BY DEF DistinctIds, Loads, PendingRows, InOrder
<1>2. up => TablesMirrorCache'
  BY <1>1 DEF Mirror, TablesMirrorCache
<1> QED
  BY <1>2 DEF Mirror

LEMMA MirrorInit == Init => Mirror
  BY EmptyFacts DEF Init, Mirror, RowsBelong, UnwrittenIsUnseen, TablesMirrorCache, Loads,
                    InOrder, PendingRows

\* An upsert writes to the table what the cache holds.
LEMMA UpsertMirror ==
    ASSUME TypeOK, Mirror, dbErrors = 0, NEW d \in Devices, NEW t \in Nat, up, Upsert(d, t),
           devices' = devices \cup {d}, lastSeen' = [lastSeen EXCEPT ![d] = t]
    PROVE  /\ devices' = rowDevices' /\ lastSeen' = rowSeen'
           /\ rowDevices \subseteq rowDevices' /\ UnwrittenIsUnseen'
  BY DEF TypeOK, Mirror, TablesMirrorCache, Upsert, UnwrittenIsUnseen

\* Queueing a request adds its row, if no row carries its command_id yet.
LEMMA EnqueueMirror ==
    ASSUME TypeOK, OnePlace, Mirror, dbErrors = 0,
           NEW d \in Devices, NEW q \in Requests, Enqueue(d, q), Inserted(d, q)
    PROVE  Mirror'
<1>1. /\ stamp[q] = 0 /\ stamp'[q] # 0 /\ d \in devices /\ up
      /\ \A r \in Requests \ {q} : stamp'[r] = stamp[r]
      /\ UNCHANGED <<up, devices, lastSeen, rowDevices, rowSeen>>
      /\ stamp' = [stamp EXCEPT ![q] = issued + 1]
  BY DEF Enqueue, TypeOK
<1>2. /\ pending[d] \in Seq(Requests) /\ q \notin Range(pending[d])
      /\ pending'[d] = Append(pending[d], q)
      /\ \A e \in Devices \ {d} : pending'[e] = pending[e]
      /\ \A e \in Devices : q \notin Range(pending[e])
  BY <1>1 DEF Enqueue, TypeOK, OnePlace, UnissuedIsNowhere
<1>3. Range(pending'[d]) = Range(pending[d]) \cup {q}
  BY <1>2, AppendRange
<1>4. /\ rows \subseteq rows'
      /\ \A r \in rows' \ rows : r.req = q /\ r.dev = d /\ r.status = "pending"
      /\ ~IdTaken(q) => \E r \in rows' : r.req = q /\ r.dev = d /\ r.status = "pending"
  <2>1. LET r == [req |-> q, dev |-> d, status |-> "pending"]
        IN  r.req = q /\ r.dev = d /\ r.status = "pending"
    OBVIOUS
  <2> QED
    BY <2>1 DEF Inserted
<1>5. RowsBelong /\ UnwrittenIsUnseen /\ TablesMirrorCache
  BY <1>1 DEF Mirror
<1>6. RowsBelong' /\ UnwrittenIsUnseen'
  BY <1>1, <1>4, <1>5 DEF RowsBelong, UnwrittenIsUnseen, TablesMirrorCache
<1>7. \A r \in rows' : r.status = "pending" => r.req \in Range(pending'[r.dev])
  <2>1. \A e \in Devices : Range(pending[e]) \subseteq Range(pending'[e])
    BY <1>2, <1>3
  <2>2. \A r \in rows : r.dev \in Devices
    BY DEF TypeOK, Row
  <2> QED
    BY <1>3, <1>4, <1>5, <2>1, <2>2 DEF TablesMirrorCache
<1>8. ASSUME DistinctIds', NEW e \in Devices PROVE Loads(pending[e], e)'
  <2>1. DistinctIds
    BY <1>1, <1>8 DEF DistinctIds
  <2>2. ~IdTaken(q)
    <3> SUFFICES ASSUME NEW r \in rows, IdOf[r.req] = IdOf[q] PROVE FALSE
      BY DEF IdTaken
    <3>1. r.req \in Requests /\ stamp[r.req] # 0
      BY DEF TypeOK, Row, OnePlace, UnissuedIsNowhere
    <3> QED
      BY <1>1, <1>8, <3>1 DEF DistinctIds
  <2>3. Loads(pending[e], e)
    BY <1>5, <2>1 DEF TablesMirrorCache
  <2>4. CASE e = d
    <3>1. PendingRows(d)' = PendingRows(d) \cup {q}
      BY <1>4, <2>2 DEF PendingRows
    <3>2. InOrder(pending[d])'
      BY <1>1, <1>2, <2>3, <2>4, AppendInOrder DEF Loads, InOrder
    <3> QED
      BY <1>3, <2>3, <2>4, <3>1, <3>2 DEF Loads
  <2>5. CASE e # d
    <3>1. PendingRows(e)' = PendingRows(e)
      BY <1>4, <2>5 DEF PendingRows
    <3>2. /\ pending'[e] = pending[e] /\ pending[e] \in Seq(Requests)
          /\ \A i \in DOMAIN pending[e] : pending[e][i] \in Requests \ {q}
      BY <1>2, <2>5 DEF TypeOK, Range
    <3>3. InOrder(pending[e])'
      BY <1>1, <2>3, <3>2 DEF Loads, InOrder
    <3> QED
      BY <2>3, <3>1, <3>2, <3>3 DEF Loads
  <2> QED
    BY <2>4, <2>5
<1>9. TablesMirrorCache'
  BY <1>1, <1>5, <1>7, <1>8 DEF TablesMirrorCache
<1> QED
  BY <1>6, <1>9 DEF Mirror

\* The mark settles the row of the request that pop(0) took away, and with
\* distinct command_ids no other row.
LEMMA CommandMirror ==
    ASSUME TypeOK, OnePlace, Mirror, dbErrors = 0,
           NEW d \in Devices, NEW t \in Times, HeartbeatCommand(d, t)
    PROVE  Mirror'
<1> DEFINE q == Head(pending[d])
<1>1. /\ pending[d] # <<>> /\ pending' = [pending EXCEPT ![d] = Tail(@)]
      /\ MarkDelivered(q) /\ UNCHANGED stamp /\ up /\ up' = up
      /\ Upsert(d, t) /\ t \in Nat
      /\ devices' = devices \cup {d} /\ lastSeen' = [lastSeen EXCEPT ![d] = t]
  BY RegistryAssumption DEF HeartbeatCommand, ApplyHeartbeat
<1>2. /\ pending[d] \in Seq(Requests)
      /\ pending'[d] = Tail(pending[d])
      /\ \A e \in Devices \ {d} : pending'[e] = pending[e]
  BY <1>1 DEF TypeOK
<1>3. /\ q \in Requests /\ q \in Range(pending[d])
      /\ \A e \in Devices : Range(pending'[e]) \subseteq Range(pending[e]) /\ q \notin Range(pending'[e])
  BY <1>1, PopFacts
<1>4. \A e \in Devices : Range(pending[e]) \subseteq Range(pending'[e]) \cup {q}
  BY <1>1, <1>2, TailFacts
<1> HIDE DEF q
<1>5. /\ \A r \in rows' : r.status = "pending" => r \in rows /\ IdOf[r.req] # IdOf[q]
      /\ \A r \in rows : r.status = "pending" /\ IdOf[r.req] # IdOf[q] => r \in rows'
  BY <1>1, <1>3, MarkFacts
<1>6. /\ devices' = rowDevices' /\ lastSeen' = rowSeen'
      /\ rowDevices \subseteq rowDevices' /\ UnwrittenIsUnseen'
  BY <1>1, UpsertMirror
<1>7. RowsBelong /\ TablesMirrorCache
  BY <1>1 DEF Mirror
<1>8. RowsBelong'
  BY <1>5, <1>6, <1>7 DEF RowsBelong
<1>9. \A r \in rows' : r.status = "pending" => r.req \in Range(pending'[r.dev])
  <2>1. \A r \in rows : r.dev \in Devices
    BY DEF TypeOK, Row
  <2> QED
    BY <1>4, <1>5, <1>7, <2>1 DEF TablesMirrorCache
<1>10. ASSUME DistinctIds', NEW e \in Devices PROVE Loads(pending[e], e)'
  <2>1. DistinctIds /\ Loads(pending[e], e)
    BY <1>1, <1>7, <1>10 DEF DistinctIds, TablesMirrorCache
  <2>2. ASSUME NEW r \in rows, IdOf[r.req] = IdOf[q] PROVE r.req = q
    <3>1. r.req \in Requests /\ stamp[r.req] # 0 /\ stamp[q] # 0
      BY <1>3 DEF TypeOK, Row, OnePlace, UnissuedIsNowhere
    <3> QED
      BY <1>3, <2>1, <2>2, <3>1 DEF DistinctIds
  <2>3. PendingRows(e)' = PendingRows(e) \ {q}
    <3>1. PendingRows(e)' \subseteq PendingRows(e) \ {q}
      BY <1>5 DEF PendingRows
    <3>2. PendingRows(e) \ {q} \subseteq PendingRows(e)'
      BY <1>5, <2>2 DEF PendingRows
    <3> QED
      BY <3>1, <3>2
  <2>4. Range(pending'[e]) = Range(pending[e]) \ {q}
    BY <1>3, <1>4
  <2>5. InOrder(pending'[e])
    BY <1>1, <1>2, <2>1, TailInOrder DEF Loads
  <2>6. InOrder(pending[e])'
    BY <1>1, <2>5 DEF InOrder
  <2> QED
    BY <2>1, <2>3, <2>4, <2>6 DEF Loads
<1>11. TablesMirrorCache'
  BY <1>6, <1>9, <1>10 DEF TablesMirrorCache
<1> QED
  BY <1>6, <1>8, <1>11 DEF Mirror

\* Removing a device takes its rows with it.
LEMMA RemoveMirror ==
    ASSUME TypeOK, Mirror, dbErrors = 0, NEW d \in Devices, RemoveDevice(d), dbErrors' = 0
    PROVE  Mirror'
<1>1. /\ up /\ up' = up /\ devices' = devices \ {d} /\ rowDevices' = rowDevices \ {d}
      /\ lastSeen' = [lastSeen EXCEPT ![d] = 0] /\ rowSeen' = [rowSeen EXCEPT ![d] = 0]
      /\ rows' = {r \in rows : r.dev # d}
      /\ pending'[d] = <<>> /\ \A e \in Devices \ {d} : pending'[e] = pending[e]
      /\ UNCHANGED stamp
  BY DEF TypeOK, RemoveDevice, DeleteDevice, DbFails
<1>2. RowsBelong /\ UnwrittenIsUnseen /\ TablesMirrorCache
  BY <1>1 DEF Mirror
<1>3. RowsBelong' /\ UnwrittenIsUnseen'
  BY <1>1, <1>2 DEF TypeOK, RowsBelong, UnwrittenIsUnseen
<1>4. \A r \in rows' : r.status = "pending" => r.req \in Range(pending'[r.dev])
  BY <1>1, <1>2 DEF TablesMirrorCache, TypeOK, Row
<1>5. ASSUME DistinctIds', NEW e \in Devices PROVE Loads(pending[e], e)'
  <2>1. CASE e = d
    <3>1. PendingRows(e)' = {} /\ InOrder(<<>>)'
      BY <1>1, <2>1 DEF PendingRows, InOrder
    <3> QED
      BY <1>1, <2>1, <3>1, EmptyFacts DEF Loads
  <2>2. CASE e # d
    <3>1. PendingRows(e)' = PendingRows(e) /\ pending'[e] = pending[e]
      BY <1>1, <2>2 DEF PendingRows
    <3>2. Loads(pending[e], e)
      BY <1>1, <1>2, <1>5 DEF DistinctIds, TablesMirrorCache
    <3> QED
      BY <1>1, <3>1, <3>2 DEF Loads, InOrder
  <2> QED
    BY <2>1, <2>2
<1>6. TablesMirrorCache'
  BY <1>1, <1>2, <1>4, <1>5 DEF TablesMirrorCache
<1> QED
  BY <1>3, <1>6 DEF Mirror

\* Reloading rebuilds the cache from the tables: a pending row is queued
\* because its device is in the devices table.
LEMMA RestartMirror ==
    ASSUME TypeOK, Mirror, dbErrors = 0, Restart
    PROVE  Mirror'
<1>1. /\ devices' = rowDevices
      /\ lastSeen' = [d \in Devices |-> IF d \in rowDevices THEN rowSeen[d] ELSE 0]
      /\ UNCHANGED <<rowDevices, rowSeen, rows, stamp>>
      /\ \A d \in Devices : IF d \in rowDevices THEN Loads(pending'[d], d) ELSE pending'[d] = <<>>
  BY DEF Restart, dbVars, history
<1>2. RowsBelong /\ UnwrittenIsUnseen
  BY DEF Mirror
<1>3. RowsBelong' /\ UnwrittenIsUnseen'
  BY <1>1, <1>2 DEF RowsBelong, UnwrittenIsUnseen
<1>4. lastSeen' = rowSeen'
  BY <1>1, <1>2 DEF TypeOK, UnwrittenIsUnseen
<1>5. \A d \in Devices : Loads(pending[d], d)'
  <2> SUFFICES ASSUME NEW d \in Devices PROVE Loads(pending[d], d)'
    OBVIOUS
  <2>1. PendingRows(d)' = PendingRows(d)
    BY <1>1 DEF PendingRows
  <2>2. CASE d \in rowDevices
    BY <1>1, <2>1, <2>2 DEF Loads, InOrder
  <2>3. CASE d \notin rowDevices
    <3>1. PendingRows(d) = {} /\ pending'[d] = <<>> /\ InOrder(<<>>)'
      BY <1>1, <1>2, <2>3 DEF RowsBelong, PendingRows, InOrder
    <3> QED
      BY <2>1, <3>1, EmptyFacts DEF Loads
  <2> QED
    BY <2>2, <2>3
<1>6. \A r \in rows' : r.status = "pending" => r.req \in Range(pending'[r.dev])
  <2> SUFFICES ASSUME NEW r \in rows, r.status = "pending" PROVE r.req \in Range(pending'[r.dev])
    BY <1>1
  <2>1. r.dev \in Devices /\ r.req \in PendingRows(r.dev)
    BY DEF TypeOK, Row, PendingRows
  <2>2. PendingRows(r.dev)' = PendingRows(r.dev)
    BY <1>1 DEF PendingRows
  <2> QED
    BY <1>5, <2>1, <2>2 DEF Loads
<1>7. TablesMirrorCache'
  BY <1>1, <1>4, <1>5, <1>6 DEF TablesMirrorCache
<1> QED
  BY <1>3, <1>7 DEF Mirror

\* Every action keeps the mirror.
LEMMA MirrorStep == TypeOK /\ OnePlace /\ Mirror /\ [Next]_vars => Mirror'
<1> SUFFICES ASSUME TypeOK, OnePlace, Mirror, [Next]_vars, dbErrors' = 0 PROVE Mirror'
  BY DEF Mirror
<1> USE DEF cacheVars, dbVars, history
<1>1. /\ dbErrors = 0 /\ ~DbFails
      /\ RowsBelong /\ UnwrittenIsUnseen /\ (up => TablesMirrorCache)
  <2>1. dbErrors \in Nat
    BY RegistryAssumption DEF TypeOK
  <2>2. ~DbFails
    BY <2>1 DEF DbFails
  <2>3. UNCHANGED dbErrors
    BY <2>2 DEF Next, Register, RemoveDevice, DeploySkip, QueueCommand, DeployOne, Inserted,
         HeartbeatNoop, HeartbeatCommand, HeartbeatUpsertFails, HeartbeatMarkFails,
         HeartbeatDies, DeployStart, Crash, Restart, DbOk, vars
  <2> QED
    BY <2>2, <2>3 DEF Mirror
<1>2. ASSUME NEW d \in Devices, Register(d) PROVE Mirror'
  <2>1. lastSeen[d] \in Nat /\ lastSeen = [lastSeen EXCEPT ![d] = lastSeen[d]]
    BY DEF TypeOK
  <2>2. /\ up /\ devices' = devices \cup {d} /\ Upsert(d, lastSeen[d])
        /\ UNCHANGED <<up, pending, rows, stamp, lastSeen>>
    BY <1>1, <1>2 DEF Register
  <2>3. /\ devices' = rowDevices' /\ lastSeen' = rowSeen'
        /\ rowDevices \subseteq rowDevices' /\ UnwrittenIsUnseen'
    BY <1>1, <2>1, <2>2, UpsertMirror
  <2>4. RowsBelong'
    BY <1>1, <2>2, <2>3 DEF RowsBelong
  <2> QED
    BY <1>1, <2>2, <2>3, <2>4, QueuesUntouched
<1>3. ASSUME NEW d \in Devices, RemoveDevice(d) PROVE Mirror'
  BY <1>1, <1>3, RemoveMirror
<1>4. ASSUME NEW d \in Devices, NEW q \in Requests, QueueCommand(d, q) \/ DeployOne(d, q)
      PROVE  Mirror'
  BY <1>1, <1>4, EnqueueMirror DEF QueueCommand, DeployOne
<1>5. ASSUME NEW d \in Devices, NEW t \in Times, HeartbeatNoop(d, t) PROVE Mirror'
  <2>1. /\ up /\ devices' = devices \cup {d} /\ lastSeen' = [lastSeen EXCEPT ![d] = t]
        /\ Upsert(d, t) /\ t \in Nat /\ UNCHANGED <<up, pending, rows, stamp>>
    BY <1>5, RegistryAssumption DEF HeartbeatNoop, ApplyHeartbeat
  <2>2. /\ devices' = rowDevices' /\ lastSeen' = rowSeen'
        /\ rowDevices \subseteq rowDevices' /\ UnwrittenIsUnseen'
    BY <1>1, <2>1, UpsertMirror
  <2>3. RowsBelong'
    BY <1>1, <2>1, <2>2 DEF RowsBelong
  <2> QED
    BY <1>1, <2>1, <2>2, <2>3, QueuesUntouched
<1>6. ASSUME NEW d \in Devices, NEW t \in Times, HeartbeatCommand(d, t) PROVE Mirror'
  BY <1>1, <1>6, CommandMirror
<1>7. ASSUME NEW d \in Devices, NEW t \in Times,
             HeartbeatUpsertFails(d, t) \/ HeartbeatMarkFails(d, t)
      PROVE  Mirror'
  BY <1>1, <1>7 DEF HeartbeatUpsertFails, HeartbeatMarkFails
<1>8. ASSUME NEW d \in Devices, NEW t \in Times, HeartbeatDies(d, t) PROVE Mirror'
  BY <1>1, <1>8 DEF TypeOK, HeartbeatDies, LoseCache, Upsert, Mirror, RowsBelong, UnwrittenIsUnseen
<1>9. ASSUME NEW d \in Devices, DeploySkip(d) PROVE Mirror'
  BY <1>1, <1>9, QueuesUntouched DEF DeploySkip, RowsBelong, UnwrittenIsUnseen, TablesMirrorCache
<1>10. ASSUME NEW targets \in SUBSET Devices, DeployStart(targets) PROVE Mirror'
  BY <1>1, <1>10, QueuesUntouched DEF DeployStart, RowsBelong, UnwrittenIsUnseen, TablesMirrorCache
<1>11. CASE Crash
  BY <1>1, <1>11 DEF Crash, LoseCache, Mirror, RowsBelong, UnwrittenIsUnseen
<1>12. CASE Restart
  BY <1>1, <1>12, RestartMirror
<1>13. CASE UNCHANGED vars
  BY <1>1, <1>13, QueuesUntouched DEF vars, RowsBelong, UnwrittenIsUnseen, TablesMirrorCache
<1> QED
  BY <1>2, <1>3, <1>4, <1>5, <1>6, <1>7, <1>8, <1>9, <1>10, <1>11, <1>12, <1>13 DEF Next

\* As long as SQLite raises no error the database mirrors the cache, over any
\* number of crashes, restarts, removals and repeated ids.
THEOREM MirrorAlways == Spec => []Mirror
<1>1. Init => Mirror
  BY MirrorInit
<1>2. TypeOK /\ OnePlace /\ Mirror /\ [Next]_vars => Mirror'
  BY MirrorStep
<1> QED
  BY <1>1, <1>2, TypeCorrect, OnePlaceAlways, PTL DEF Spec

\* Without SQLite errors reloading the database would rebuild the cache.
THEOREM RestartRebuildsTheCache == Spec => []SurvivesRestart
<1>1. Mirror => SurvivesRestart
  BY DEF Mirror, TablesMirrorCache, SurvivesRestart
<1> QED
  BY <1>1, MirrorAlways, PTL

\* Without SQLite errors no pending row is orphaned.
THEOREM NoRowIsOrphaned == Spec => []PendingRowsAreQueued
<1>1. Mirror => PendingRowsAreQueued
  BY DEF Mirror, TablesMirrorCache, RowsBelong, PendingRowsAreQueued
<1> QED
  BY <1>1, MirrorAlways, PTL
=============================================================================
