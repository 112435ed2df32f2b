------------------------------ MODULE Process -------------------------------
(***************************************************************************)
(* The life of one process of the system, from main() to its exit status,  *)
(* with its requests in flight and its pool of database connections.       *)
(*                                                                         *)
(* The services order, cart and catalog are gRPC servers, the gateway is   *)
(* an HTTP server, and the cleanup worker is a loop whose runs take the    *)
(* place of requests.  A request alternates between calls (the payment, a  *)
(* service, its client) and sections that hold one connection: a statement *)
(* or a transaction.  What the requests do is left to the other modules.   *)
(***************************************************************************)
EXTENDS Integers, Sequences, FiniteSets

CONSTANTS
    Binaries,         \* the processes looked at
    Requests,         \* requests in flight at once; they are reused
    Sections,         \* the sections of a request are at most so many
    Settings,         \* values of DATABASE_MAX_CONNS
    Unset, NoNumber,  \* it is empty, it is no number
    DefaultMaxConns,
    MaxInt32

VARIABLES
    binary,     \* which process it is
    setting,    \* its DATABASE_MAX_CONNS
    phase,      \* "starting", "serving", "draining", "closing" or "exited"
    step,       \* starting: the step of main() that comes next
    told,       \* SIGINT or SIGTERM arrived after signal.NotifyContext
    broken,     \* Serve returned an error
    late,       \* the five seconds for draining are over
    code,       \* the exit status
    request,    \* request[h]: where h stands
    left,       \* left[h]: the sections that h still has to do
    slow,       \* requests in a call that need not return
    held,       \* requests that hold a connection
    queue       \* requests that wait for one, first come first

requestVars == <<request, left, slow, held, queue>>
lifeVars    == <<phase, step, told, broken, late, code>>
vars        == <<binary, setting, lifeVars, requestVars>>

ASSUME ProcessAssumption ==
    /\ Binaries \subseteq {"order", "cart", "catalog", "gateway", "worker"}
    /\ Sections \in Nat \ {0}
    /\ Settings \subseteq Int \union {Unset, NoNumber}
    /\ {Unset, NoNumber} \intersect Int = {}
    /\ MaxInt32 \in Nat /\ DefaultMaxConns \in 1 .. MaxInt32

Active == {h \in Requests : request[h] \in {"calling", "waiting", "holding"}}

IsWorker  == binary = "worker"
IsGateway == binary = "gateway"
IsService == binary \in {"order", "cart", "catalog"}

Init ==
    /\ binary \in Binaries
    /\ setting \in Settings
    /\ phase = "starting" /\ step = 1
    /\ told = FALSE /\ broken = FALSE /\ late = FALSE
    /\ code = -1
    /\ request = [h \in Requests |-> "idle"]
    /\ left = [h \in Requests |-> 0]
    /\ slow = {} /\ held = {} /\ queue = <<>>

-----------------------------------------------------------------------------
(* The ends of a process.  Requests in flight are cut off.                 *)

Exit(status) ==
    /\ phase' = "exited" /\ code' = status
    /\ request' = [h \in Requests |-> IF h \in Active THEN "cut" ELSE request[h]]
    /\ held' = {} /\ queue' = <<>>
    /\ UNCHANGED <<binary, setting, step, told, broken, late, left, slow>>

-----------------------------------------------------------------------------
(* main() up to the point where it serves.                                 *)

StartOrder   == <<"config", "telemetry", "pool", "port", "listen">>
StartCart    == <<"config", "telemetry", "pool", "port", "listen">>
StartCatalog == <<"config", "telemetry", "pool", "listen">>
StartGateway == <<"config", "telemetry", "pool", "dial", "listen">>
StartWorker  == <<"config", "telemetry", "pool">>

Steps ==
    CASE binary = "order" -> StartOrder
      [] binary = "cart" -> StartCart
      [] binary = "catalog" -> StartCatalog
      [] binary = "gateway" -> StartGateway
      [] binary = "worker" -> StartWorker

\* signal.NotifyContext comes between the telemetry and the pool.
Notified == step > 2

\* Conversion to int32.
Int32(n) == ((n + MaxInt32 + 1) % (2 * (MaxInt32 + 1))) - (MaxInt32 + 1)

PoolSize ==
    CASE setting = Unset -> DefaultMaxConns
      [] setting = NoNumber -> 0
      [] OTHER -> IF setting > 0 THEN Int32(setting) ELSE 0

\* The pool is refused when its size is not positive, and the ping fails when
\* the context is cancelled.
StartStep ==
    /\ phase = "starting" /\ step <= Len(Steps)
    /\ Steps[step] = "pool" => PoolSize > 0 /\ ~told
    /\ step' = step + 1
    /\ UNCHANGED <<binary, setting, phase, told, broken, late, code>> /\ UNCHANGED requestVars

\* log.Fatalf, whatever step it is.
StartFails ==
    /\ phase = "starting" /\ step <= Len(Steps)
    /\ Exit(1)

Started ==
    /\ phase = "starting" /\ step > Len(Steps)
    /\ phase' = "serving"
    /\ UNCHANGED <<binary, setting, step, told, broken, late, code>> /\ UNCHANGED requestVars

\* A signal cancels ctx, and ends the process before anybody listens for it.
SignalKills ==
    /\ phase = "starting" /\ ~Notified
    /\ Exit(130)

Signal ==
    /\ phase # "exited" /\ Notified
    /\ told' = TRUE
    /\ UNCHANGED <<binary, setting, phase, step, broken, late, code>> /\ UNCHANGED requestVars

-----------------------------------------------------------------------------
(* Requests and the pool.                                                  *)

Accept(h, n, hangs) ==
    /\ phase = "serving" /\ ~broken
    /\ request[h] \in {"idle", "ended"}
    /\ IsWorker => Active = {} /\ ~hangs
    /\ request' = [request EXCEPT ![h] = "calling"]
    /\ left' = [left EXCEPT ![h] = n]
    /\ slow' = IF hangs THEN slow \union {h} ELSE slow \ {h}
    /\ UNCHANGED <<binary, setting, held, queue>> /\ UNCHANGED lifeVars

Running == phase \in {"serving", "draining"}

Want(h) ==
    /\ Running /\ request[h] = "calling" /\ left[h] > 0
    /\ request' = [request EXCEPT ![h] = "waiting"]
    /\ queue' = Append(queue, h)
    /\ UNCHANGED <<binary, setting, left, slow, held>> /\ UNCHANGED lifeVars

\* Mutant: a waiting request opens a connection of its own.
AcquireBeyond ==
    /\ Running /\ queue # <<>>
    /\ request' = [request EXCEPT ![Head(queue)] = "holding"]
    /\ held' = held \union {Head(queue)}
    /\ queue' = Tail(queue)
    /\ UNCHANGED <<binary, setting, left, slow>> /\ UNCHANGED lifeVars

Acquire ==
    /\ Running /\ queue # <<>>
    /\ Cardinality(held) < PoolSize
    /\ request' = [request EXCEPT ![Head(queue)] = "holding"]
    /\ held' = held \union {Head(queue)}
    /\ queue' = Tail(queue)
    /\ UNCHANGED <<binary, setting, left, slow>> /\ UNCHANGED lifeVars

\* Mutant: a transaction asks for a second connection.
SectionNests(h) ==
    /\ Running /\ request[h] = "holding"
    /\ left' = [left EXCEPT ![h] = @ - 1]
    /\ IF left[h] > 1
       THEN /\ request' = [request EXCEPT ![h] = "waiting"]
            /\ queue' = Append(queue, h)
            /\ UNCHANGED held
       ELSE /\ request' = [request EXCEPT ![h] = "calling"]
            /\ held' = held \ {h}
            /\ UNCHANGED queue
    /\ UNCHANGED <<binary, setting, slow>> /\ UNCHANGED lifeVars

\* The statement or the transaction is over, whatever came of it.
SectionEnds(h) ==
    /\ Running /\ request[h] = "holding"
    /\ request' = [request EXCEPT ![h] = "calling"]
    /\ left' = [left EXCEPT ![h] = @ - 1]
    /\ held' = held \ {h}
    /\ UNCHANGED <<binary, setting, slow, queue>> /\ UNCHANGED lifeVars

\* The answer of h, an error included: then sections may be left over.
Finish(h) ==
    /\ Running /\ request[h] = "calling"
    /\ request' = [request EXCEPT ![h] = "ended"]
    /\ UNCHANGED <<binary, setting, left, slow, held, queue>> /\ UNCHANGED lifeVars

Waits(h) == request[h] = "waiting"

\* h leaves the queue, wherever it stands.
Leave(h) ==
    \E i \in DOMAIN queue :
        /\ queue[i] = h
        /\ queue' = SubSeq(queue, 1, i - 1) \o SubSeq(queue, i + 1, Len(queue))

Ends(h, how) ==
    /\ request' = [request EXCEPT ![h] = how]
    /\ held' = held \ {h}
    /\ IF Waits(h) THEN Leave(h) ELSE UNCHANGED queue
    /\ UNCHANGED <<binary, setting, left, slow>> /\ UNCHANGED lifeVars

\* The client of h has gone while h waits for a connection.
GivesUp(h) == Running /\ Waits(h) /\ Ends(h, "ended")

\* The context of h is cancelled: by the signal in the worker, by Stop in a
\* service.  A statement returns, and the connection with it.
Cancelled(h) ==
    /\ h \in Active
    /\ \/ IsWorker /\ told /\ Running /\ Ends(h, "ended")
       \/ IsService /\ phase = "closing" /\ Ends(h, "cut")

\* Recovery answers 500 in the gateway.  Elsewhere nothing stops a panic.
Panic(h) ==
    /\ Running /\ h \in Active
    /\ IF IsGateway THEN Ends(h, "ended") ELSE Exit(2)

-----------------------------------------------------------------------------
(* The end.                                                                *)

ServeFails ==
    /\ phase = "serving" /\ ~IsWorker
    /\ broken' = TRUE
    /\ UNCHANGED <<binary, setting, phase, step, told, late, code>> /\ UNCHANGED requestVars

\* The select in main() or Serve takes the error,
TakeServeError ==
    /\ phase = "serving" /\ broken
    /\ Exit(1)

\* or ctx.Done(), also when both are there.  The worker looks between two runs.
TakeDone ==
    /\ phase = "serving" /\ told
    /\ IsWorker => Active = {}
    /\ phase' = IF IsWorker THEN "closing" ELSE "draining"
    /\ UNCHANGED <<binary, setting, step, told, broken, late, code>> /\ UNCHANGED requestVars

\* The five seconds are over.
Timeout ==
    /\ phase = "draining" /\ ~late
    /\ late' = TRUE
    /\ UNCHANGED <<binary, setting, phase, step, told, broken, code>> /\ UNCHANGED requestVars

Close ==
    /\ phase' = "closing"
    /\ UNCHANGED <<binary, setting, step, told, broken, late, code>> /\ UNCHANGED requestVars

\* GracefulStop or Shutdown returns.
Drained == phase = "draining" /\ Active = {} /\ Close

\* Mutant: the timeout is noticed and nothing is forced.
StopWaits == phase = "draining" /\ late /\ IsService /\ Active = {} /\ Close

\* Stop cancels the requests and does not wait for them.
ForceStop == phase = "draining" /\ late /\ IsService /\ Close

\* Mutant: the error of Shutdown is dropped.
ShutdownErrorDropped == phase = "draining" /\ late /\ IsGateway /\ Exit(0)

\* Shutdown returns an error, and log.Fatalf runs no deferred call.
ShutdownOverruns == phase = "draining" /\ late /\ IsGateway /\ Exit(1)

\* The deferred calls: pool.Close waits for the connections in use.  The others,
\* which flush telemetry and close clients, are taken to return.
PoolClosed == phase = "closing" /\ held = {} /\ Exit(0)

-----------------------------------------------------------------------------
Start == StartStep \/ StartFails \/ Started

Work(h) == Want(h) \/ SectionEnds(h) \/ Finish(h)

Stop == Timeout \/ Drained \/ ForceStop \/ ShutdownOverruns \/ PoolClosed

Next ==
    \/ Start \/ SignalKills \/ Signal
    \/ \E h \in Requests, n \in 0 .. Sections, hangs \in BOOLEAN : Accept(h, n, hangs)
    \/ \E h \in Requests : Work(h) \/ GivesUp(h) \/ Cancelled(h) \/ Panic(h)
    \/ Acquire
    \/ ServeFails \/ TakeServeError \/ TakeDone \/ Stop

Spec == Init /\ [][Next]_vars

\* The program runs, timers fire, statements return, a cancelled one at once, and
\* the pool serves its queue; a call returns unless it is slow, and a client need
\* not ever give up.  The worker's select picks at random among what is ready.
Fairness ==
    /\ WF_vars(Start) /\ WF_vars(TakeServeError) /\ SF_vars(TakeDone) /\ WF_vars(Stop)
    /\ WF_vars(Acquire)
    /\ \A h \in Requests :
          /\ WF_vars(Want(h) \/ SectionEnds(h) \/ (h \notin slow /\ Finish(h)))
          /\ WF_vars(Cancelled(h))

FairSpec == Spec /\ Fairness

-----------------------------------------------------------------------------
(* What a process promises.                                                *)

\* Types.  A process that serves has a pool of at least one connection, and no
\* more connections are in use than it has.  Who waits stands in the queue, once,
\* whoever has given up or was cancelled before.
ProcessTypeOK ==
    /\ phase \in {"starting", "serving", "draining", "closing", "exited"}
    /\ {told, broken, late} \subseteq BOOLEAN
    /\ code \in {-1, 0, 1, 2, 130} /\ (code = -1 <=> phase # "exited")
    /\ request \in [Requests -> {"idle", "calling", "waiting", "holding", "ended", "cut"}]
    /\ left \in [Requests -> 0 .. Sections]
    /\ slow \subseteq Requests
    /\ held = {h \in Requests : request[h] = "holding"}
    /\ queue \in Seq(Requests)
    /\ \A i, j \in DOMAIN queue : queue[i] = queue[j] => i = j
    /\ \A h \in Requests : Waits(h) <=> \E i \in DOMAIN queue : queue[i] = h
    /\ Running => PoolSize > 0 /\ Cardinality(held) <= PoolSize

\* A stop within the time given answers every request that was accepted; the
\* gateway exits with 0 only then.  A service exits with 0 in any case, and may
\* have cut requests off when the time was over.
CleanStop ==
    phase = "exited" /\ code = 0 =>
        /\ told
        /\ (IsGateway \/ ~late) => \A h \in Requests : request[h] # "cut"

\* Told to stop, at any time of its life, a process does stop, also when calls
\* never return: the two timers and the cancelled contexts see to it.
EndsWhenToldTo == told ~> phase = "exited"

\* Every request that was accepted, and whose calls return, comes to an end: the
\* pool is no reason to wait for ever, since nobody who holds a connection waits.
EveryRequestEnds ==
    \A h \in Requests :
        h \in Active /\ h \notin slow ~> request[h] \in {"ended", "cut"}
=============================================================================
