---------------------------- MODULE ProcessProofs ----------------------------
(***************************************************************************)
(* Theorems about the life of a process: its types with the bound on the   *)
(* pool and the queue in front of it, and how it stops.                    *)
(***************************************************************************)
EXTENDS Process, SequenceTheorems, FiniteSetTheorems, TLAPS

Standing(q, h) == \E i \in DOMAIN q : q[i] = h

Once(q) == \A i, j \in DOMAIN q : q[i] = q[j] => i = j

\* Taking one out of a queue: it is out, and nobody else is.
LEMMA TakenOut ==
    ASSUME NEW S, NEW q \in Seq(S), Once(q), NEW i \in DOMAIN q
    PROVE  LET t == SubSeq(q, 1, i - 1) \o SubSeq(q, i + 1, Len(q))
           IN  /\ t \in Seq(S) /\ Once(t)
               /\ \A h : Standing(t, h) <=> h # q[i] /\ Standing(q, h)
<1> DEFINE a == SubSeq(q, 1, i - 1)
           b == SubSeq(q, i + 1, Len(q))
           t == a \o b
<1>1. Len(q) \in Nat /\ DOMAIN q = 1 .. Len(q) /\ i \in 1 .. Len(q)
  BY LenProperties
<1>2. /\ a \in Seq(S) /\ Len(a) = i - 1
      /\ \A j \in 1 .. i - 1 : a[j] = q[j]
  <2>1. \A j \in 1 .. i - 1 : j \in 1 .. Len(q)
    BY <1>1
  <2>2. Len(a) = IF 1 <= i - 1 THEN i - 1 - 1 + 1 ELSE 0
    BY <1>1, SubSeqProperties
  <2>. QED BY <1>1, <2>1, <2>2, SubSeqProperties
<1>3. /\ b \in Seq(S) /\ Len(b) = Len(q) - i
      /\ \A j \in 1 .. Len(q) - i : b[j] = q[i + j]
  <2>1. \A j \in i + 1 .. Len(q) : j \in 1 .. Len(q)
    BY <1>1
  <2>. QED BY <1>1, <2>1, SubSeqProperties
<1> HIDE DEF a, b
<1>4. /\ t \in Seq(S) /\ Len(t) = Len(a) + Len(b)
      /\ \A j \in 1 .. Len(a) + Len(b) : t[j] = IF j <= Len(a) THEN a[j] ELSE b[j - Len(a)]
  BY <1>2, <1>3, ConcatProperties
<1> HIDE DEF t
<1>5. DOMAIN t = 1 .. Len(q) - 1
  <2>1. Len(t) = Len(q) - 1
    BY <1>1, <1>2, <1>3, <1>4
  <2>. QED BY <1>4, <2>1, LenProperties
<1>6. ASSUME NEW j \in 1 .. i - 1 PROVE j \in DOMAIN t /\ j \in DOMAIN q /\ t[j] = q[j]
  BY <1>1, <1>2, <1>3, <1>4, <1>5
<1>7. ASSUME NEW j \in i .. Len(q) - 1
      PROVE  j \in DOMAIN t /\ j + 1 \in DOMAIN q /\ t[j] = q[j + 1]
  <2> DEFINE k == j - (i - 1)
  <2>1. k \in 1 .. Len(q) - i /\ i + k = j + 1
    BY <1>1
  <2>2. b[k] = q[i + k]
    BY <1>3, <2>1
  <2>3. t[j] = b[k]
    BY <1>1, <1>2, <1>3, <1>4
  <2>. QED BY <1>1, <1>5, <2>1, <2>2, <2>3
<1>8. ASSUME NEW j \in DOMAIN t PROVE j \in 1 .. i - 1 \/ j \in i .. Len(q) - 1
  BY <1>1, <1>5
<1>9. Once(t)
  <2>. SUFFICES ASSUME NEW j \in DOMAIN t, NEW k \in DOMAIN t, t[j] = t[k] PROVE j = k
    BY DEF Once
  <2>1. CASE j \in 1 .. i - 1 /\ k \in 1 .. i - 1
    BY <1>6, <2>1 DEF Once
  <2>2. CASE j \in i .. Len(q) - 1 /\ k \in i .. Len(q) - 1
    <3>1. j + 1 = k + 1
      BY <1>7, <2>2 DEF Once
    <3>. QED BY <1>1, <2>2, <3>1
  <2>3. CASE j \in 1 .. i - 1 /\ k \in i .. Len(q) - 1
    <3>1. j = k + 1
      BY <1>6, <1>7, <2>3 DEF Once
    <3>. QED BY <1>1, <2>3, <3>1
  <2>4. CASE j \in i .. Len(q) - 1 /\ k \in 1 .. i - 1
    <3>1. j + 1 = k
      BY <1>6, <1>7, <2>4 DEF Once
    <3>. QED BY <1>1, <2>4, <3>1
  <2>. QED BY <1>8, <2>1, <2>2, <2>3, <2>4
<1>10. ASSUME NEW j \in DOMAIN t PROVE t[j] # q[i] /\ Standing(q, t[j])
  <2>1. CASE j \in 1 .. i - 1
    <3>1. j # i
      BY <1>1, <2>1
    <3>. QED BY <1>6, <2>1, <3>1 DEF Once, Standing
  <2>2. CASE j \in i .. Len(q) - 1
    <3>1. j + 1 # i
      BY <1>1, <2>2
    <3>. QED BY <1>7, <2>2, <3>1 DEF Once, Standing
  <2>. QED BY <1>8, <2>1, <2>2
<1>11. ASSUME NEW j \in DOMAIN q, q[j] # q[i] PROVE Standing(t, q[j])
  <2>1. CASE j \in 1 .. i - 1
    BY <1>6, <2>1 DEF Standing
  <2>2. CASE j \in i + 1 .. Len(q)
    <3>1. j - 1 \in i .. Len(q) - 1 /\ (j - 1) + 1 = j
      BY <1>1, <2>2
    <3>. QED BY <1>7, <3>1 DEF Standing
  <2>. QED BY <1>1, <1>11, <2>1, <2>2
<1>12. ASSUME NEW h PROVE Standing(t, h) <=> h # q[i] /\ Standing(q, h)
  BY <1>10, <1>11 DEF Standing
<1>. QED BY <1>4, <1>9, <1>12 DEF t, a, b
-----------------------------------------------------------------------------
(* The requests, the pool and the queue.                                   *)

Wheres == {"idle", "calling", "waiting", "holding", "ended", "cut"}

\* A connection in use has its request, who waits stands in the queue, once, and
\* nobody waits or holds without a section to do.
RequestInv ==
    /\ request \in [Requests -> Wheres]
    /\ left \in [Requests -> 0 .. Sections]
    /\ slow \subseteq Requests
    /\ held = {h \in Requests : request[h] = "holding"} /\ IsFiniteSet(held)
    /\ queue \in Seq(Requests) /\ Once(queue)
    /\ \A h \in Requests : Waits(h) <=> Standing(queue, h)
    /\ \A h \in Requests : request[h] \in {"waiting", "holding"} => left[h] > 0

\* The head of the queue waits, and the others stay when it leaves.
LEMMA HeadOfQueue ==
    ASSUME NEW S, NEW q \in Seq(S), Once(q), q # <<>>
    PROVE  /\ Head(q) \in S /\ Standing(q, Head(q))
           /\ Tail(q) \in Seq(S) /\ Once(Tail(q))
           /\ \A h : Standing(Tail(q), h) <=> h # Head(q) /\ Standing(q, h)
<1>1. /\ Len(q) \in Nat \ {0} /\ 1 \in DOMAIN q
      /\ Head(q) = q[1] /\ Head(q) \in S /\ Tail(q) \in Seq(S)
  BY HeadTailProperties, LenProperties, EmptySeq
<1>2. SubSeq(q, 1, 1 - 1) \o SubSeq(q, 1 + 1, Len(q)) = Tail(q)
  <2>1. SubSeq(q, 1, 1 - 1) = <<>>
    BY SubSeqEmpty
  <2>2. SubSeq(q, 1 + 1, Len(q)) = Tail(q)
    BY TailIsSubSeq
  <2>. QED BY <1>1, <2>1, <2>2, ConcatEmptySeq
<1>3. LET t == SubSeq(q, 1, 1 - 1) \o SubSeq(q, 1 + 1, Len(q))
      IN  t \in Seq(S) /\ Once(t) /\ \A h : Standing(t, h) <=> h # q[1] /\ Standing(q, h)
  BY <1>1, TakenOut
<1>. QED BY <1>1, <1>2, <1>3 DEF Standing

\* Who joins the queue stands in it, once.
LEMMA JoinedQueue ==
    ASSUME NEW S, NEW q \in Seq(S), Once(q), NEW e \in S, ~Standing(q, e)
    PROVE  /\ Append(q, e) \in Seq(S) /\ Once(Append(q, e))
           /\ \A h : Standing(Append(q, e), h) <=> h = e \/ Standing(q, h)
<1> DEFINE t == Append(q, e)
<1>1. /\ Len(q) \in Nat /\ DOMAIN q = 1 .. Len(q)
      /\ t \in Seq(S) /\ DOMAIN t = 1 .. Len(q) + 1 /\ t[Len(q) + 1] = e
      /\ \A i \in 1 .. Len(q) : t[i] = q[i]
  BY AppendProperties, LenProperties
<1> HIDE DEF t
<1>2. \A i \in 1 .. Len(q) : q[i] # e
  BY <1>1 DEF Standing
<1>3. Once(t)
  BY <1>1, <1>2 DEF Once
<1>4. ASSUME NEW h PROVE Standing(t, h) <=> h = e \/ Standing(q, h)
  <2>1. 1 .. Len(q) + 1 = (1 .. Len(q)) \cup {Len(q) + 1}
    BY <1>1
  <2>. QED BY <1>1, <2>1 DEF Standing
<1>. QED BY <1>1, <1>3, <1>4 DEF t

\* A request that is over leaves no trace in the pool and in the queue.
LEMMA EndsKeepsRequestInv ==
    ASSUME RequestInv, NEW h \in Active, NEW how \in {"ended", "cut"}, Ends(h, how)
    PROVE  RequestInv'
<1>1. /\ request' = [request EXCEPT ![h] = how] /\ held' = held \ {h}
      /\ UNCHANGED <<left, slow>> /\ h \in Requests
  BY DEF Ends, Active
<1>2. /\ request' \in [Requests -> Wheres]
      /\ \A g \in Requests : request'[g] = IF g = h THEN how ELSE request[g]
  BY <1>1 DEF RequestInv, Wheres
<1>3. held' = {g \in Requests : request'[g] = "holding"} /\ IsFiniteSet(held')
  BY <1>1, <1>2, FS_RemoveElement DEF RequestInv
<1>4. /\ queue' \in Seq(Requests) /\ Once(queue')
      /\ \A g : Standing(queue', g) <=> g # h /\ Standing(queue, g)
  <2>1. CASE Waits(h)
    <3>1. PICK i \in DOMAIN queue :
             queue[i] = h /\ queue' = SubSeq(queue, 1, i - 1) \o SubSeq(queue, i + 1, Len(queue))
      BY <2>1 DEF Ends, Leave
    <3>. QED BY <3>1, TakenOut DEF RequestInv
  <2>2. CASE ~Waits(h)
    <3>1. UNCHANGED queue /\ ~Standing(queue, h)
      BY <1>1, <2>2 DEF Ends, RequestInv
    <3>. QED BY <3>1 DEF RequestInv
  <2>. QED BY <2>1, <2>2
<1>5. \A g \in Requests : request'[g] = "waiting" <=> Standing(queue', g)
  BY <1>2, <1>4 DEF RequestInv, Waits
<1>. QED BY <1>1, <1>2, <1>3, <1>4, <1>5 DEF RequestInv, Waits

\* Every step keeps RequestInv.
LEMMA RequestInvIsKept ==
    ASSUME RequestInv, [Next]_vars PROVE RequestInv'
<1>1. ASSUME UNCHANGED requestVars PROVE RequestInv'
  BY <1>1 DEF requestVars, RequestInv, Waits
<1>2. ASSUME NEW status, Exit(status) PROVE RequestInv'
  <2>1. /\ request' = [h \in Requests |-> IF h \in Active THEN "cut" ELSE request[h]]
        /\ held' = {} /\ queue' = <<>> /\ UNCHANGED <<left, slow>>
    BY <1>2 DEF Exit
  <2>2. /\ request' \in [Requests -> Wheres]
        /\ \A h \in Requests : request'[h] \notin {"holding", "waiting"}
    BY <2>1 DEF Active, RequestInv, Wheres
  <2>3. <<>> \in Seq(Requests) /\ Once(<<>>) /\ \A h : ~Standing(<<>>, h)
    BY DEF Once, Standing
  <2>. QED BY <2>1, <2>2, <2>3, FS_EmptySet DEF RequestInv, Waits
<1>3. ASSUME NEW h \in Requests, NEW n \in 0 .. Sections, NEW hangs \in BOOLEAN,
             Accept(h, n, hangs)
      PROVE  RequestInv'
  BY <1>3 DEF Accept, RequestInv, Waits, Wheres
<1>4. ASSUME NEW h \in Requests, Want(h) PROVE RequestInv'
  <2>1. /\ request[h] = "calling" /\ left[h] > 0 /\ ~Standing(queue, h)
        /\ request' = [request EXCEPT ![h] = "waiting"] /\ queue' = Append(queue, h)
        /\ UNCHANGED <<left, slow, held>>
    BY <1>4 DEF Want, RequestInv, Waits
  <2>2. /\ queue' \in Seq(Requests) /\ Once(queue')
        /\ \A g : Standing(queue', g) <=> g = h \/ Standing(queue, g)
    BY <2>1, JoinedQueue DEF RequestInv
  <2>. QED BY <2>1, <2>2 DEF RequestInv, Waits, Wheres
<1>5. ASSUME Acquire PROVE RequestInv'
  <2> DEFINE h == Head(queue)
  <2>1. /\ request' = [request EXCEPT ![h] = "holding"] /\ held' = held \union {h}
        /\ queue' = Tail(queue) /\ queue # <<>> /\ UNCHANGED <<left, slow>>
    BY <1>5 DEF Acquire
  <2>2. /\ h \in Requests /\ Standing(queue, h)
        /\ Tail(queue) \in Seq(Requests) /\ Once(Tail(queue))
        /\ \A g : Standing(Tail(queue), g) <=> g # h /\ Standing(queue, g)
    BY <2>1, HeadOfQueue DEF RequestInv
  <2> HIDE DEF h
  <2>3. IsFiniteSet(held')
    BY <2>1, FS_AddElement DEF RequestInv
  <2>. QED BY <2>1, <2>2, <2>3 DEF RequestInv, Waits, Wheres
<1>6. ASSUME NEW h \in Requests, SectionEnds(h) PROVE RequestInv'
  <2>1. /\ request[h] = "holding" /\ request' = [request EXCEPT ![h] = "calling"]
        /\ left' = [left EXCEPT ![h] = @ - 1] /\ held' = held \ {h} /\ UNCHANGED <<slow, queue>>
    BY <1>6 DEF SectionEnds
  <2>2. IsFiniteSet(held')
    BY <2>1, FS_RemoveElement DEF RequestInv
  <2>3. left' \in [Requests -> 0 .. Sections] /\ \A g \in Requests \ {h} : left'[g] = left[g]
    BY <2>1, ProcessAssumption DEF RequestInv
  <2>. QED BY <2>1, <2>2, <2>3 DEF RequestInv, Waits, Wheres
<1>7. ASSUME NEW h \in Requests, Finish(h) PROVE RequestInv'
  BY <1>7 DEF Finish, RequestInv, Waits, Wheres
<1>8. ASSUME NEW h \in Requests, GivesUp(h) \/ Cancelled(h) \/ Panic(h) PROVE RequestInv'
  <2>1. \/ h \in Active /\ \E how \in {"ended", "cut"} : Ends(h, how)
        \/ Exit(2)
    BY <1>8 DEF GivesUp, Cancelled, Panic, Active, Waits
  <2>. QED BY <1>2, <2>1, EndsKeepsRequestInv
<1>9. ASSUME Start \/ SignalKills \/ Signal \/ ServeFails \/ TakeServeError \/ TakeDone \/ Stop
      PROVE  UNCHANGED requestVars \/ \E status : Exit(status)
  BY <1>9 DEF Start, StartStep, StartFails, Started, SignalKills, Signal, ServeFails,
     TakeServeError, TakeDone, Stop, Timeout, Close, Drained, ForceStop, ShutdownOverruns,
     PoolClosed
<1>10. ASSUME UNCHANGED vars PROVE UNCHANGED requestVars
  BY <1>10 DEF vars
<1>. QED BY <1>1, <1>2, <1>3, <1>4, <1>5, <1>6, <1>7, <1>8, <1>9, <1>10 DEF Next, Work
-----------------------------------------------------------------------------
(* The types, and the bound on the pool.                                   *)

\* What a process is and where it stands.
LifeInv ==
    /\ binary \in Binaries /\ step \in Nat \ {0}
    /\ phase \in {"starting", "serving", "draining", "closing", "exited"}
    /\ {told, broken, late} \subseteq BOOLEAN
    /\ code \in {-1, 0, 1, 2, 130} /\ (code = -1 <=> phase # "exited")

\* A process that is past its third step has a pool, and none has a connection before.
PoolInv ==
    /\ phase = "starting" => held = {} /\ (step > 3 => PoolSize > 0)
    /\ Running => PoolSize > 0 /\ Cardinality(held) <= PoolSize

\* The pool is the third step of every main().
LEMMA PoolIsThird ==
    ASSUME LifeInv PROVE Len(Steps) \in Nat /\ Len(Steps) >= 3 /\ Steps[3] = "pool"
<1>1. binary \in {"order", "cart", "catalog", "gateway", "worker"}
  BY ProcessAssumption DEF LifeInv
<1>. QED BY <1>1 DEF Steps, StartOrder, StartCart, StartCatalog, StartGateway, StartWorker

\* The size of the pool is a number.
LEMMA PoolSizeIsInt == ASSUME setting \in Settings PROVE PoolSize \in Int
<1>1. DefaultMaxConns \in Int /\ MaxInt32 \in Nat
  BY ProcessAssumption
<1>2. ASSUME setting # Unset, setting # NoNumber PROVE setting \in Int
  BY <1>2, ProcessAssumption
<1>3. ASSUME NEW n \in Int PROVE Int32(n) \in Int
  <2>1. 2 * (MaxInt32 + 1) \in Nat \ {0} /\ n + MaxInt32 + 1 \in Int
    BY <1>1
  <2>2. (n + MaxInt32 + 1) % (2 * (MaxInt32 + 1)) \in Int
    BY <2>1
  <2>. QED BY <1>1, <2>2 DEF Int32
<1>. QED BY <1>1, <1>2, <1>3 DEF PoolSize

\* Every step keeps LifeInv.
LEMMA LifeInvIsKept == ASSUME LifeInv, [Next]_vars PROVE LifeInv'
<1>1. ASSUME NEW status \in {0, 1, 2, 130}, phase # "exited", Exit(status) PROVE LifeInv'
  BY <1>1 DEF Exit, LifeInv
<1>2. ASSUME UNCHANGED <<binary, lifeVars>> PROVE LifeInv'
  BY <1>2 DEF lifeVars, LifeInv
<1>3. CASE \/ StartFails \/ SignalKills \/ TakeServeError \/ ShutdownOverruns \/ PoolClosed
  BY <1>1, <1>3 DEF StartFails, SignalKills, TakeServeError, ShutdownOverruns, PoolClosed
<1>4. CASE StartStep \/ Signal \/ ServeFails \/ Timeout
  <2>1. /\ UNCHANGED <<binary, phase, code>> /\ step' \in {step, step + 1}
        /\ told' \in {told, TRUE} /\ broken' \in {broken, TRUE} /\ late' \in {late, TRUE}
    BY <1>4 DEF StartStep, Signal, ServeFails, Timeout
  <2>2. {told', broken', late'} \subseteq BOOLEAN
    BY <2>1 DEF LifeInv
  <2>. QED BY <2>1, <2>2 DEF LifeInv
<1>7. CASE Started \/ TakeDone \/ Drained \/ ForceStop
  <2>1. /\ UNCHANGED <<binary, step, told, broken, late, code>> /\ phase # "exited"
        /\ phase' \in {"serving", "draining", "closing"}
    BY <1>7 DEF Started, TakeDone, Drained, ForceStop, Close
  <2>. QED BY <2>1 DEF LifeInv
<1>5. ASSUME NEW h \in Requests, Work(h) \/ GivesUp(h) \/ Cancelled(h) \/ Panic(h)
      PROVE  LifeInv'
  BY <1>1, <1>2, <1>5 DEF Work, Want, SectionEnds, Finish, GivesUp, Cancelled, Panic, Ends,
     Running
<1>6. CASE \/ Acquire
           \/ \E h \in Requests, n \in 0 .. Sections, hangs \in BOOLEAN : Accept(h, n, hangs)
           \/ UNCHANGED vars
  BY <1>2, <1>6 DEF Acquire, Accept, vars
<1>. QED BY <1>3, <1>4, <1>5, <1>6, <1>7 DEF Next, Start, Stop

\* Every step keeps PoolInv: a connection is taken only when one is free.
LEMMA PoolInvIsKept ==
    ASSUME LifeInv, RequestInv, PoolInv, setting \in Settings, [Next]_vars
    PROVE  PoolInv'
<1>0. /\ PoolSize \in Int /\ IsFiniteSet(held) /\ Cardinality(held) \in Nat
  BY PoolSizeIsInt, FS_CardinalityType DEF RequestInv
<1>1. ASSUME NEW status, Exit(status) PROVE PoolInv'
  BY <1>1 DEF Exit, PoolInv, Running
<1>2. ASSUME UNCHANGED <<setting, phase, step, held>> PROVE PoolInv'
  BY <1>2 DEF PoolInv, Running, PoolSize
<1>3. ASSUME NEW h, UNCHANGED <<setting, phase, step>>, held' = held \ {h} PROVE PoolInv'
  <2>1. Cardinality(held') \in Nat /\ Cardinality(held') <= Cardinality(held)
    <3>1. IsFiniteSet(held')
          /\ Cardinality(held') = IF h \in held THEN Cardinality(held) - 1 ELSE Cardinality(held)
      BY <1>0, <1>3, FS_RemoveElement
    <3>. QED BY <1>0, <3>1, FS_CardinalityType
  <2>2. PoolSize' = PoolSize
    BY <1>3 DEF PoolSize
  <2>. QED BY <1>0, <1>3, <2>1, <2>2 DEF PoolInv, Running
<1>4. CASE StartStep
  <2>1. /\ phase = "starting" /\ phase' = "starting" /\ step' = step + 1
        /\ UNCHANGED <<binary, setting, held>>
        /\ Steps[step] = "pool" => PoolSize > 0
    BY <1>4 DEF StartStep, requestVars
  <2>2. PoolSize' = PoolSize
    BY <2>1 DEF PoolSize
  <2>3. step' > 3 => step > 3 \/ step = 3
    BY <2>1 DEF LifeInv
  <2>4. step' > 3 => PoolSize' > 0
    BY <2>1, <2>2, <2>3, PoolIsThird DEF PoolInv
  <2>. QED BY <2>1, <2>4 DEF PoolInv, Running
<1>5. CASE Started
  <2>1. /\ phase = "starting" /\ step > Len(Steps) /\ UNCHANGED <<setting, held>>
        /\ phase' = "serving"
    BY <1>5 DEF Started, requestVars
  <2>2. PoolSize' = PoolSize /\ step > 3
    BY <2>1, PoolIsThird DEF PoolSize, LifeInv
  <2>. QED BY <1>0, <2>1, <2>2, FS_EmptySet DEF PoolInv, Running
<1>6. CASE TakeDone \/ Drained \/ ForceStop
  <2>1. /\ Running /\ phase' # "starting" /\ UNCHANGED <<setting, held>>
    BY <1>6 DEF TakeDone, Drained, ForceStop, Close, Running, requestVars
  <2>2. PoolSize' = PoolSize
    BY <2>1 DEF PoolSize
  <2>. QED BY <2>1, <2>2 DEF PoolInv, Running
<1>7. CASE Acquire
  <2>1. /\ Cardinality(held) < PoolSize /\ held' = held \union {Head(queue)} /\ Running
        /\ UNCHANGED <<setting, phase>>
    BY <1>7 DEF Acquire, lifeVars
  <2>2. Cardinality(held') \in Nat /\ Cardinality(held') <= Cardinality(held) + 1
    <3>1. IsFiniteSet(held') /\ Cardinality(held') \in {Cardinality(held), Cardinality(held) + 1}
      BY <1>0, <2>1, FS_AddElement
    <3>. QED BY <1>0, <3>1
  <2>3. PoolSize' = PoolSize
    BY <2>1 DEF PoolSize
  <2>. QED BY <1>0, <2>1, <2>2, <2>3 DEF PoolInv, Running
<1>8. ASSUME NEW h \in Requests, SectionEnds(h) \/ GivesUp(h) \/ Cancelled(h) \/ Panic(h)
      PROVE  PoolInv'
  <2>1. \/ held' = held \ {h} /\ UNCHANGED <<setting, phase, step>>
        \/ \E status : Exit(status)
    BY <1>8 DEF SectionEnds, GivesUp, Cancelled, Panic, Ends, lifeVars
  <2>. QED BY <1>1, <1>3, <2>1
<1>9. ASSUME NEW h \in Requests, Want(h) \/ Finish(h) PROVE PoolInv'
  BY <1>2, <1>9 DEF Want, Finish, lifeVars
<1>10. CASE \E h \in Requests, n \in 0 .. Sections, hangs \in BOOLEAN : Accept(h, n, hangs)
  BY <1>2, <1>10 DEF Accept, lifeVars
<1>11. CASE Signal \/ ServeFails \/ Timeout \/ UNCHANGED vars
  BY <1>2, <1>11 DEF Signal, ServeFails, Timeout, requestVars, vars, lifeVars
<1>12. CASE \/ StartFails \/ SignalKills \/ TakeServeError \/ ShutdownOverruns \/ PoolClosed
  BY <1>1, <1>12 DEF StartFails, SignalKills, TakeServeError, ShutdownOverruns, PoolClosed
<1>. QED BY <1>4, <1>5, <1>6, <1>7, <1>8, <1>9, <1>10, <1>11, <1>12 DEF Next, Start, Stop, Work

\* What holds of a process at every time.
ProcessInv == setting \in Settings /\ LifeInv /\ RequestInv /\ PoolInv

\* ProcessInv holds in every reachable state.
LEMMA ProcessInvIsInvariant == Spec => []ProcessInv
<1>1. Init => ProcessInv
  <2>1. Init => RequestInv
    BY FS_EmptySet, ProcessAssumption DEF Init, RequestInv, Wheres, Waits, Once, Standing
  <2>2. Init => PoolInv
    BY DEF Init, PoolInv, Running
  <2>3. Init => setting \in Settings /\ LifeInv
    <3>1. Init => {told, broken, late} \subseteq BOOLEAN
      BY DEF Init
    <3>. QED BY <3>1 DEF Init, LifeInv
  <2>. QED BY <2>1, <2>2, <2>3 DEF ProcessInv
<1>2. ProcessInv /\ [Next]_vars => ProcessInv'
  <2>. SUFFICES ASSUME ProcessInv, [Next]_vars PROVE ProcessInv'
    OBVIOUS
  <2>1. UNCHANGED setting
    BY DEF Next, Start, StartStep, StartFails, Started, SignalKills, Signal, Accept, Work, Want,
       SectionEnds, Finish, GivesUp, Cancelled, Panic, Ends, Acquire, ServeFails, TakeServeError,
       TakeDone, Stop, Timeout, Close, Drained, ForceStop, ShutdownOverruns, PoolClosed, Exit,
       vars
  <2>. QED BY <2>1, LifeInvIsKept, RequestInvIsKept, PoolInvIsKept DEF ProcessInv
<1>. QED BY <1>1, <1>2, PTL DEF Spec

\* The types hold; the pool is never exceeded, and the queue is who waits.
THEOREM ProcessIsTyped == Spec => []ProcessTypeOK
<1>1. ProcessInv => ProcessTypeOK
  BY DEF ProcessInv, LifeInv, RequestInv, PoolInv, ProcessTypeOK, Wheres, Once, Standing
<1>. QED BY <1>1, ProcessInvIsInvariant, PTL
-----------------------------------------------------------------------------
(* The end.                                                                *)

\* A process drains and closes only when it was told to, and with requests in
\* flight only when it is a service whose time is over.
StopInv ==
    /\ phase \in {"draining", "closing"} => told
    /\ phase = "closing" => Active = {} \/ (late /\ IsService)
    /\ \A h \in Requests :
          request[h] = "cut" => phase = "exited" \/ (phase = "closing" /\ late /\ IsService)
    /\ CleanStop

\* StopInv holds in every reachable state.
LEMMA StopInvIsInvariant == Spec => []StopInv
<1>1. Init => StopInv
  BY DEF Init, StopInv, CleanStop
<1>2. ProcessInv /\ StopInv /\ [Next]_vars => StopInv'
  <2>. SUFFICES ASSUME ProcessInv, StopInv, [Next]_vars PROVE StopInv'
    OBVIOUS
  <2>0. request \in [Requests -> Wheres] /\ step \in Nat \ {0}
    BY DEF ProcessInv, RequestInv, LifeInv
  <2>1. ASSUME NEW status \in {1, 2, 130}, Exit(status) PROVE StopInv'
    BY <2>1 DEF Exit, StopInv, CleanStop
  <2>2. CASE StartFails \/ SignalKills \/ TakeServeError \/ ShutdownOverruns
    BY <2>1, <2>2 DEF StartFails, SignalKills, TakeServeError, ShutdownOverruns
  <2>3. CASE PoolClosed
    <3>1. /\ phase = "closing" /\ phase' = "exited" /\ UNCHANGED <<binary, told, late>>
          /\ request' = [h \in Requests |-> IF h \in Active THEN "cut" ELSE request[h]]
      BY <2>3 DEF PoolClosed, Exit
    <3>2. told' /\ (IsGateway' \/ ~late' => \A h \in Requests : request'[h] # "cut")
      BY <3>1 DEF StopInv, IsGateway, IsService
    <3>. QED BY <3>1, <3>2 DEF StopInv, CleanStop
  <2>4. CASE TakeDone \/ Drained \/ ForceStop
    <3>1. /\ phase \in {"serving", "draining"} /\ phase' \in {"draining", "closing"} /\ told'
          /\ UNCHANGED <<binary, late, request>>
          /\ phase' = "closing" => Active = {} \/ (late /\ IsService)
      BY <2>4 DEF TakeDone, Drained, ForceStop, Close, requestVars, StopInv
    <3>. QED BY <3>1 DEF StopInv, CleanStop, Active, IsService
  <2>5. CASE StartStep \/ Started \/ Signal \/ ServeFails \/ Timeout
    <3>1. /\ UNCHANGED <<binary, request>> /\ phase # "exited"
          /\ phase' = phase \/ (phase = "starting" /\ phase' = "serving")
          /\ told' \in {told, TRUE} /\ late' \in {late, TRUE}
      BY <2>5 DEF StartStep, Started, Signal, ServeFails, Timeout, requestVars
    <3>2. /\ phase' \in {"draining", "closing"} => told'
          /\ phase' # "exited"
          /\ Active' = Active /\ (IsService' <=> IsService)
      <4>1. told => told'
        BY <3>1
      <4>2. phase' \in {"draining", "closing"} => phase \in {"draining", "closing"}
        BY <3>1
      <4>3. phase' # "exited"
        BY <3>1
      <4>4. Active' = Active /\ (IsService' <=> IsService)
        BY <3>1 DEF Active, IsService
      <4>. QED BY <4>1, <4>2, <4>3, <4>4 DEF StopInv
    <3>3. phase' = "closing" => Active' = {} \/ (late' /\ IsService')
      <4>1. phase' = "closing" => phase = "closing"
        BY <3>1
      <4>2. late => late'
        BY <3>1
      <4>. QED BY <3>2, <4>1, <4>2 DEF StopInv
    <3>4. ASSUME NEW h \in Requests, request'[h] = "cut"
          PROVE  phase' = "closing" /\ late' /\ IsService'
      <4>1. phase = "closing" /\ late /\ IsService
        BY <3>1, <3>4 DEF StopInv
      <4>. QED BY <3>1, <3>2, <4>1
    <3>. QED BY <3>2, <3>3, <3>4 DEF StopInv, CleanStop
  <2>6. ASSUME UNCHANGED <<binary, lifeVars>>, Running, NEW h \in Requests,
               NEW where \in Wheres \ {"cut"}, request' = [request EXCEPT ![h] = where]
        PROVE  StopInv'
    BY <2>0, <2>6 DEF StopInv, CleanStop, Running, lifeVars
  <2>7. ASSUME NEW h \in Requests, Work(h) \/ GivesUp(h) PROVE StopInv'
    BY <2>6, <2>7 DEF Work, Want, SectionEnds, Finish, GivesUp, Ends, Wheres
  <2>8. CASE Acquire
    <3>1. Head(queue) \in Requests
      BY <2>8, HeadOfQueue DEF Acquire, ProcessInv, RequestInv
    <3>. QED BY <2>6, <2>8, <3>1 DEF Acquire, Wheres
  <2>9. CASE \E h \in Requests, n \in 0 .. Sections, hangs \in BOOLEAN : Accept(h, n, hangs)
    BY <2>6, <2>9 DEF Accept, Wheres, Running
  <2>10. ASSUME NEW h \in Requests, Cancelled(h) \/ Panic(h) PROVE StopInv'
    <3>1. CASE Running /\ Ends(h, "ended")
      BY <2>6, <3>1 DEF Ends, Wheres
    <3>2. CASE Exit(2)
      BY <2>1, <3>2
    <3>3. CASE IsService /\ phase = "closing" /\ h \in Active /\ Ends(h, "cut")
      <4>1. late /\ UNCHANGED <<binary, lifeVars>>
        BY <3>3 DEF StopInv, Ends
      <4>. QED BY <3>3, <4>1 DEF StopInv, CleanStop, lifeVars, IsService
    <3>. QED BY <2>10, <3>1, <3>2, <3>3 DEF Cancelled, Panic
  <2>11. CASE UNCHANGED vars
    BY <2>11 DEF vars, lifeVars, requestVars, StopInv, CleanStop, Active, IsService, IsGateway
  <2>. QED BY <2>2, <2>3, <2>4, <2>5, <2>7, <2>8, <2>9, <2>10, <2>11 DEF Next, Start, Stop
<1>. QED BY <1>1, <1>2, ProcessInvIsInvariant, PTL DEF Spec

\* A process that exits with 0 was told to, and has answered every request unless
\* it is a service whose time was over.
THEOREM StopsAreClean == Spec => []CleanStop
<1>1. StopInv => CleanStop
  BY DEF StopInv
<1>. QED BY <1>1, StopInvIsInvariant, PTL
=============================================================================
