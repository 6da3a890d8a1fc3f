--------------------------- MODULE FleetRegistry ---------------------------
(***************************************************************************)
(* The fleet server's device registry (bmt_ai_os/fleet/registry.py): an    *)
(* in-memory cache of the devices and of their command queues, written     *)
(* through to a SQLite file so that a restarted controller can rebuild it. *)
(*                                                                         *)
(* Every method holds the registry's lock, so a method is one action.  It  *)
(* may nevertheless stop half way: a SQLite statement can raise an         *)
(* OperationalError after the cache has changed (the actions with DbFails) *)
(* and the process can die between two commits (HeartbeatDies, Crash).     *)
(*                                                                         *)
(* A request is one call of enqueue_command.  Two requests may carry the   *)
(* same command_id, because an API client chooses it.                      *)
(***************************************************************************)
EXTENDS Naturals, Sequences, FiniteSets, Functions

CONSTANTS
    Devices,      \* device ids
    Requests,     \* the calls of enqueue_command that may ever be made
    CommandIds,   \* command_id values
    IdOf,         \* the command_id each request carries
    Times,        \* heartbeat timestamps; 0 stands for "never seen"
    MaxDbErrors,  \* bound on SQLite errors
    MaxCrashes    \* bound on crashes of the controller

ASSUME RegistryAssumption ==
    /\ IsFiniteSet(Requests)
    /\ IdOf \in [Requests -> CommandIds]
    /\ Times \subseteq Nat
    /\ MaxDbErrors \in Nat
    /\ MaxCrashes \in Nat

VARIABLES
    up,          \* the controller process is running
    devices,     \* cache: the keys of _devices
    lastSeen,    \* cache: last_seen of each device
    pending,     \* cache: pending_commands of each device
    deploying,   \* targets a running deploy_model has not reached yet
    rowDevices,  \* SQLite: the keys of table devices
    rowSeen,     \* SQLite: column last_seen of table devices
    rows,        \* SQLite: table pending_commands
    issued,      \* how many requests were made
    stamp,       \* when each request was made, 0 if it was not
    handed,      \* history: requests answered to each device, in order
    removed,     \* history: requests discarded by a remove_device
    dbErrors, crashes

cacheVars == <<devices, lastSeen, pending>>
dbVars    == <<rowDevices, rowSeen, rows>>
history   == <<issued, stamp, handed, removed>>
vars == <<up, cacheVars, deploying, dbVars, history, dbErrors, crashes>>

----------------------------------------------------------------------------

\* A row of pending_commands.  command_id is IdOf[req]; rows are inserted in
\* the order of their stamps, so ORDER BY id is the order of stamp[req].
Row == [req : Requests, dev : Devices, status : {"pending", "delivered"}]

\* UNIQUE(command_id): the insertion of q would raise an IntegrityError.
IdTaken(q) == \E r \in rows : IdOf[r.req] = IdOf[q]

\* A request whose command_id is a UUID the server has just drawn.
HasFreshId(q) == \A r \in Requests : IdOf[r] = IdOf[q] => r = q

\* Faulty: the status is not looked at.
PendingRowsAnyStatus(d) == {r.req : r \in {s \in rows : s.dev = d}}

PendingRows(d) == {r.req : r \in {s \in rows : s.dev = d /\ s.status = "pending"}}

InOrder(s) == \A i, j \in DOMAIN s : i < j => stamp[s[i]] < stamp[s[j]]

\* Faulty: the rows are read without ORDER BY.
LoadsUnordered(s, d) == Range(s) = PendingRows(d) /\ IsInjective(s)

\* _load_from_db gives d the queue s: its pending rows, ordered by row id.
Loads(s, d) == Range(s) = PendingRows(d) /\ InOrder(s)

Queues == UNION {[1 .. n -> Requests] : n \in 0 .. Cardinality(Requests)}

----------------------------------------------------------------------------

DbOk    == UNCHANGED dbErrors
DbFails == dbErrors < MaxDbErrors /\ dbErrors' = dbErrors + 1

\* Faulty: an existing row is not updated.
UpsertNewOnly(d, t) ==
    /\ rowDevices' = rowDevices \cup {d}
    /\ rowSeen' = IF d \in rowDevices THEN rowSeen ELSE [rowSeen EXCEPT ![d] = t]

Upsert(d, t) ==
    /\ rowDevices' = rowDevices \cup {d}
    /\ rowSeen' = [rowSeen EXCEPT ![d] = t]

\* Faulty: the update is not committed.
MarkUncommitted(q) == q \in Requests /\ UNCHANGED rows

\* UPDATE pending_commands SET status = 'delivered' WHERE command_id = ?
MarkDelivered(q) ==
    rows' = {IF IdOf[r.req] = IdOf[q] THEN [r EXCEPT !.status = "delivered"] ELSE r
             : r \in rows}

\* Both tables lose the device in one transaction.
DeleteDevice(d) ==
    /\ rows' = {r \in rows : r.dev # d}
    /\ rowDevices' = rowDevices \ {d}
    /\ rowSeen' = [rowSeen EXCEPT ![d] = 0]

Init ==
    /\ up = TRUE
    /\ devices = {} /\ rowDevices = {} /\ rows = {} /\ deploying = {} /\ removed = {}
    /\ lastSeen = [d \in Devices |-> 0]
    /\ rowSeen = [d \in Devices |-> 0]
    /\ pending = [d \in Devices |-> <<>>]
    /\ handed = [d \in Devices |-> <<>>]
    /\ issued = 0
    /\ stamp = [q \in Requests |-> 0]
    /\ dbErrors = 0
    /\ crashes = 0

\* Faulty: registering again starts with an empty command queue.
RegisterAnew(d) ==
    /\ up
    /\ devices' = devices \cup {d}
    /\ pending' = [pending EXCEPT ![d] = <<>>]
    /\ DbOk /\ Upsert(d, lastSeen[d])
    /\ UNCHANGED <<up, lastSeen, deploying, rows, history, crashes>>

\* register: a known device keeps its last_seen and its command queue.
Register(d) ==
    /\ up
    /\ devices' = devices \cup {d}
    /\ \/ DbOk /\ Upsert(d, lastSeen[d])
       \/ DbFails /\ UNCHANGED <<rowDevices, rowSeen>>
    /\ UNCHANGED <<up, lastSeen, pending, deploying, rows, history, crashes>>

\* heartbeat, up to the end of record.apply_heartbeat; an unknown device is
\* registered on the fly.
ApplyHeartbeat(d, t) ==
    /\ up
    /\ devices' = devices \cup {d}
    /\ lastSeen' = [lastSeen EXCEPT ![d] = t]
    /\ UNCHANGED <<deploying, issued, stamp, removed>>

HeartbeatNoop(d, t) ==
    /\ ApplyHeartbeat(d, t)
    /\ pending[d] = <<>>
    /\ Upsert(d, t)
    /\ DbOk
    /\ UNCHANGED <<up, pending, rows, handed, crashes>>

HeartbeatCommand(d, t) ==
    /\ ApplyHeartbeat(d, t)
    /\ pending[d] # <<>>
    /\ Upsert(d, t)
    /\ pending' = [pending EXCEPT ![d] = Tail(@)]
    /\ MarkDelivered(Head(pending[d]))
    /\ handed' = [handed EXCEPT ![d] = Append(@, Head(pending[d]))]
    /\ DbOk
    /\ UNCHANGED <<up, crashes>>

\* The upsert raises: the caller gets a 500, the cache keeps the heartbeat.
HeartbeatUpsertFails(d, t) ==
    /\ ApplyHeartbeat(d, t)
    /\ DbFails
    /\ UNCHANGED <<up, pending, dbVars, handed, crashes>>

\* The mark raises after pop(0): the command has left the cache, the row is
\* still pending and the caller gets a 500.
HeartbeatMarkFails(d, t) ==
    /\ ApplyHeartbeat(d, t)
    /\ pending[d] # <<>>
    /\ Upsert(d, t)
    /\ pending' = [pending EXCEPT ![d] = Tail(@)]
    /\ DbFails
    /\ UNCHANGED <<up, rows, handed, crashes>>

\* What a dead process leaves behind: the database.
LoseCache ==
    /\ up' = FALSE
    /\ crashes < MaxCrashes /\ crashes' = crashes + 1
    /\ devices' = {}
    /\ lastSeen' = [d \in Devices |-> 0]
    /\ pending' = [d \in Devices |-> <<>>]
    /\ deploying' = {}

\* The process dies between the commit of the upsert and that of the mark.
HeartbeatDies(d, t) ==
    /\ up
    /\ Upsert(d, t)
    /\ LoseCache
    /\ UNCHANGED <<rows, history, dbErrors>>

\* enqueue_command for a registered device: the queue is extended first, the
\* row is inserted next, and an IntegrityError is swallowed.
Enqueue(d, q) ==
    /\ up
    /\ d \in devices
    /\ stamp[q] = 0
    /\ pending' = [pending EXCEPT ![d] = Append(@, q)]
    /\ issued' = issued + 1
    /\ stamp' = [stamp EXCEPT ![q] = issued + 1]
    /\ UNCHANGED <<up, devices, lastSeen, rowDevices, rowSeen, handed, removed, crashes>>

Inserted(d, q) ==
    /\ DbOk
    /\ rows' = IF IdTaken(q) THEN rows
               ELSE rows \cup {[req |-> q, dev |-> d, status |-> "pending"]}

\* POST /devices/{id}/command
QueueCommand(d, q) ==
    /\ Enqueue(d, q)
    /\ Inserted(d, q) \/ (DbFails /\ UNCHANGED rows)
    /\ UNCHANGED deploying

\* deploy_model and broadcast_command: the targets are read under the lock,
\* the commands are queued later, one call of enqueue_command per target.
DeployStart(targets) ==
    /\ up
    /\ deploying = {}
    /\ targets # {}
    /\ targets \subseteq devices
    /\ deploying' = targets
    /\ UNCHANGED <<up, cacheVars, dbVars, history, dbErrors, crashes>>

DeployOne(d, q) ==
    /\ d \in deploying
    /\ HasFreshId(q)
    /\ Enqueue(d, q)
    /\ \/ Inserted(d, q) /\ deploying' = deploying \ {d}
       \/ DbFails /\ UNCHANGED rows /\ deploying' = {}

\* The device was removed meanwhile: enqueue_command returns False.
DeploySkip(d) ==
    /\ d \in deploying \ devices
    /\ deploying' = deploying \ {d}
    /\ UNCHANGED <<up, cacheVars, dbVars, history, dbErrors, crashes>>

\* remove and remove_device
RemoveDevice(d) ==
    /\ up
    /\ d \in devices
    /\ devices' = devices \ {d}
    /\ lastSeen' = [lastSeen EXCEPT ![d] = 0]
    /\ pending' = [pending EXCEPT ![d] = <<>>]
    /\ \/ /\ DbOk
          /\ DeleteDevice(d)
          /\ removed' = removed \cup Range(pending[d]) \cup PendingRows(d)
       \/ DbFails /\ UNCHANGED <<dbVars, removed>>
    /\ UNCHANGED <<up, deploying, issued, stamp, handed, crashes>>

Crash ==
    /\ up
    /\ LoseCache
    /\ UNCHANGED <<dbVars, history, dbErrors>>

\* A new FleetRegistry: _init_db finds its tables, _load_from_db fills the
\* cache.  Pending rows of a device without a devices row are ignored.
Restart ==
    /\ ~up
    /\ up' = TRUE
    /\ devices' = rowDevices
    /\ lastSeen' = [d \in Devices |-> IF d \in rowDevices THEN rowSeen[d] ELSE 0]
    /\ \E loaded \in [Devices -> Queues] :
          /\ \A d \in Devices : IF d \in rowDevices THEN Loads(loaded[d], d)
                                ELSE loaded[d] = <<>>
          /\ pending' = loaded
    /\ UNCHANGED <<deploying, dbVars, history, dbErrors, crashes>>

Next ==
    \/ \E d \in Devices :
          \/ Register(d)
          \/ RemoveDevice(d)
          \/ DeploySkip(d)
          \/ \E q \in Requests : QueueCommand(d, q) \/ DeployOne(d, q)
          \/ \E t \in Times :
                \/ HeartbeatNoop(d, t)
                \/ HeartbeatCommand(d, t)
                \/ HeartbeatUpsertFails(d, t)
                \/ HeartbeatMarkFails(d, t)
                \/ HeartbeatDies(d, t)
    \/ \E targets \in SUBSET Devices : DeployStart(targets)
    \/ Crash
    \/ Restart

Spec == Init /\ [][Next]_vars

----------------------------------------------------------------------------

\* Every variable stays in its type.
TypeOK ==
    /\ up \in BOOLEAN
    /\ devices \subseteq Devices /\ rowDevices \subseteq Devices /\ deploying \subseteq Devices
    /\ lastSeen \in [Devices -> Nat]
    /\ rowSeen \in [Devices -> Nat]
    /\ pending \in [Devices -> Seq(Requests)]
    /\ handed \in [Devices -> Seq(Requests)]
    /\ rows \subseteq Row
    /\ removed \subseteq Requests
    /\ issued \in Nat
    /\ stamp \in [Requests -> 0 .. issued]
    /\ dbErrors \in 0 .. MaxDbErrors
    /\ crashes \in 0 .. MaxCrashes

\* A request is answered to one device at most once, whatever crashes, SQLite
\* errors and repeated command_ids do between pop(0) and the mark.
AtMostOnce ==
    \A d, e \in Devices : \A i \in DOMAIN handed[d], j \in DOMAIN handed[e] :
        handed[d][i] = handed[e][j] => d = e /\ i = j

\* remove_device is final: a command it discarded is never answered to the
\* device, not even when the device registers again or the controller restarts.
RemovedStaysRemoved ==
    \A d \in Devices : Range(handed[d]) \cap removed = {}

\* The invariant behind AtMostOnce and RemovedStaysRemoved: a request is in
\* one place of the fleet at a time, whatever mixture of cache and database
\* the last crash, error or repeated command_id has left behind.
UnissuedIsNowhere ==
    \A q \in Requests : stamp[q] = 0 =>
        /\ \A d \in Devices : q \notin Range(pending[d]) /\ q \notin Range(handed[d])
        /\ \A r \in rows : r.req # q
        /\ q \notin removed

OneRowPerId == \A r, s \in rows : IdOf[r.req] = IdOf[s.req] => r = s

\* A queued request is queued once, for the device its row names.
QueuedOnce ==
    /\ \A d \in Devices : IsInjective(pending[d])
    /\ \A d, e \in Devices : d # e => Range(pending[d]) \cap Range(pending[e]) = {}
    /\ \A d \in Devices : \A r \in rows : r.req \in Range(pending[d]) => r.dev = d

\* What was answered or removed waits nowhere.
Settled(S) ==
    /\ \A d \in Devices : S \cap Range(pending[d]) = {}
    /\ \A r \in rows : r.status = "pending" => r.req \notin S

AnsweredOnce ==
    /\ \A d \in Devices : IsInjective(handed[d])
    /\ \A d, e \in Devices : d # e => Range(handed[d]) \cap Range(handed[e]) = {}
    /\ \A d \in Devices : Settled(Range(handed[d]))

OnePlace ==
    /\ UnissuedIsNowhere
    /\ OneRowPerId
    /\ QueuedOnce
    /\ AnsweredOnce
    /\ Settled(removed)
    /\ RemovedStaysRemoved

\* Without SQLite errors no pending row is orphaned: its command is in the
\* queue of a device that is registered, so the row cannot outlive the queue.
PendingRowsAreQueued ==
    up /\ dbErrors = 0 =>
        \A r \in rows : r.status = "pending" =>
            r.dev \in devices /\ r.req \in Range(pending[r.dev])

\* The ids of the requests made so far are distinct.
DistinctIds ==
    \A q, r \in Requests :
        stamp[q] # 0 /\ stamp[r] # 0 /\ IdOf[q] = IdOf[r] => q = r

\* "persisting all mutations ... so state survives controller restarts":
\* without SQLite errors, and with distinct command_ids, reloading the
\* database at any moment would rebuild exactly the cache.
SurvivesRestart ==
    up /\ dbErrors = 0 =>
        /\ devices = rowDevices
        /\ lastSeen = rowSeen
        /\ DistinctIds => \A d \in Devices : Loads(pending[d], d)

\* A request waits while a queue or a pending row holds it.
Waiting == {q \in Requests : \E d \in Devices : q \in Range(pending[d]) \cup PendingRows(d)}

CD == INSTANCE CommandDelivery WITH
        accepted <- {q \in Requests : stamp[q] # 0}, waiting <- Waiting, answers <- handed

\* The registry, with its crashes, its SQLite errors and its repeated ids,
\* implements the abstract life of a command.
ImplementsCommandDelivery == CD!Spec

\* "Duplicate command_id -- ignore (idempotent)": two requests that carry the
\* same command_id are not both answered.
DuplicateIsIgnored ==
    \A d, e \in Devices : \A i \in DOMAIN handed[d], j \in DOMAIN handed[e] :
        IdOf[handed[d][i]] = IdOf[handed[e][j]] => d = e /\ i = j
=============================================================================
