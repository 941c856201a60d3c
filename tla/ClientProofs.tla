------------------------------ MODULE ClientProofs ------------------------------
(***************************************************************************)
(* Theorems about the two programs that run beside a user and talk to a     *)
(* Stackflow node: the agent and the client of the x402 gateway.            *)
(*                                                                         *)
(* AgentService, for an agent whose watcher runs beside it, and             *)
(* AgentWatcher: closures are not disputed twice of the watcher's own, and  *)
(* its cursor passes over no closure that was not dealt with.               *)
(*                                                                         *)
(* X402Client: the lock of the client's store keeps the holders of valid    *)
(* leases apart, and with them the nonces they take, for any number of      *)
(* callers.                                                                 *)
(***************************************************************************)
EXTENDS AgentWatcher, X402Client, FiniteSetTheorems, TLAPS

\* The inductive invariant: types, and no signed transfer without cover.
ServiceInv == ServiceTypeOK /\ AcceptedCovered

\* An agent starts with empty tables.
LEMMA InitService == ServiceInit => ServiceInv
<1> USE DEF ServiceInit, ServiceInv, ServiceTypeOK, AcceptedCovered
<1> QED OBVIOUS

\* Storing a state keeps the table typed, covers the state, and lowers no nonce.
LEMMA UpsertCovers ==
    ASSUME ServiceTypeOK, NEW s \in State, Upsert(s)
    PROVE  /\ latest' \in [Pipes -> State \cup {None}]
           /\ \A p \in Pipes : latest'[p] # None => latest'[p].pipe = p
           /\ latest'[s.pipe] # None /\ latest'[s.pipe].nonce >= s.nonce
           /\ \A p \in Pipes : latest[p] # None =>
                 latest'[p] # None /\ latest'[p].nonce >= latest[p].nonce
<1>0. s.pipe \in Pipes /\ s.nonce \in Nat /\ s # None
  BY AgentAssumption DEF State
<1>1. \A p \in Pipes : latest[p] # None => latest[p] \in State /\ latest[p].nonce \in Nat
  BY DEF ServiceTypeOK, State
<1>2. CASE latest[s.pipe] # None /\ s.nonce < latest[s.pipe].nonce
  <2>1. latest' = latest BY <1>2 DEF Upsert
  <2> QED BY <1>0, <1>1, <1>2, <2>1 DEF ServiceTypeOK
<1>3. CASE ~(latest[s.pipe] # None /\ s.nonce < latest[s.pipe].nonce)
  <2>1. latest' = [latest EXCEPT ![s.pipe] = s] BY <1>3 DEF Upsert
  <2>2. latest'[s.pipe] = s /\ \A p \in Pipes : p # s.pipe => latest'[p] = latest[p]
    BY <1>0, <2>1 DEF ServiceTypeOK
  <2>3. latest' \in [Pipes -> State \cup {None}] BY <1>0, <2>1 DEF ServiceTypeOK
  <2>4. \A p \in Pipes : latest'[p] # None => latest'[p].pipe = p
    BY <1>0, <2>2 DEF ServiceTypeOK
  <2>5. latest'[s.pipe] # None /\ latest'[s.pipe].nonce >= s.nonce BY <1>0, <2>2
  <2>6. \A p \in Pipes : latest[p] # None =>
           latest'[p] # None /\ latest'[p].nonce >= latest[p].nonce
    <3> SUFFICES ASSUME NEW p \in Pipes, latest[p] # None
                 PROVE  latest'[p] # None /\ latest'[p].nonce >= latest[p].nonce
      OBVIOUS
    <3>1. CASE p = s.pipe BY <3>1, <1>0, <1>1, <1>3, <2>2
    <3>2. CASE p # s.pipe BY <3>2, <1>1, <2>2
    <3> QED BY <3>1, <3>2
  <2> QED BY <2>3, <2>4, <2>5, <2>6
<1> QED BY <1>2, <1>3

\* What every step does to the table of states.
Rising == \A p \in Pipes : latest[p] # None =>
              latest'[p] # None /\ latest'[p].nonce >= latest[p].nonce

\* A table that does not change rises.
LEMMA SameRises == ASSUME ServiceTypeOK, latest' = latest PROVE Rising
BY DEF ServiceTypeOK, State, Rising

\* A rising, typed table keeps covering what was accepted.
LEMMA RisingCovers ==
    ASSUME ServiceInv, Rising, latest' \in [Pipes -> State \cup {None}]
    PROVE  \A s \in accepted : latest'[s.pipe] # None /\ latest'[s.pipe].nonce >= s.nonce
<1> SUFFICES ASSUME NEW s \in accepted
             PROVE  latest'[s.pipe] # None /\ latest'[s.pipe].nonce >= s.nonce
  OBVIOUS
<1>1. s \in State /\ s.pipe \in Pipes /\ s.nonce \in Nat
  BY AgentAssumption DEF ServiceInv, ServiceTypeOK, State
<1>2. latest[s.pipe] # None /\ latest[s.pipe].nonce >= s.nonce
  BY DEF ServiceInv, AcceptedCovered
<1>3. latest'[s.pipe] # None /\ latest'[s.pipe].nonce >= latest[s.pipe].nonce
  BY <1>1, <1>2 DEF Rising
<1>4. latest[s.pipe].nonce \in Nat /\ latest'[s.pipe].nonce \in Nat
  BY <1>1, <1>2, <1>3 DEF ServiceInv, ServiceTypeOK, State
<1> QED BY <1>1, <1>2, <1>3, <1>4

\* Every operation of the service keeps the invariant and lowers no stored nonce.
LEMMA ServiceStepKeeps ==
    ASSUME ServiceInv, [ServiceNext]_serviceVars
    PROVE  ServiceInv' /\ Rising
<1> USE DEF ServiceInv
<1>1. CASE UNCHANGED serviceVars
  BY <1>1, SameRises DEF serviceVars, ServiceTypeOK, AcceptedCovered
<1>2. ASSUME NEW p \in Pipes, Track(p) PROVE ServiceInv' /\ Rising
  BY <1>2, SameRises DEF Track, ServiceTypeOK, AcceptedCovered
<1>3. ASSUME NEW c \in Calls, NEW s \in Payloads, BeginAccept(c, s) PROVE ServiceInv' /\ Rising
  BY <1>3, SameRises DEF BeginAccept, ServiceTypeOK, AcceptedCovered
<1>4. ASSUME NEW c \in Calls, FinishAccept(c) PROVE ServiceInv' /\ Rising
  <2>1. calls[c] \in Payloads /\ calls[c] \in State
    BY <1>4, AgentAssumption DEF FinishAccept, ServiceTypeOK
  <2>2. Upsert(calls[c]) BY <1>4 DEF FinishAccept
  <2>3. /\ latest' \in [Pipes -> State \cup {None}]
        /\ \A p \in Pipes : latest'[p] # None => latest'[p].pipe = p
        /\ latest'[calls[c].pipe] # None /\ latest'[calls[c].pipe].nonce >= calls[c].nonce
        /\ Rising
    BY <2>1, <2>2, UpsertCovers DEF Rising
  <2>4. \A s \in accepted : latest'[s.pipe] # None /\ latest'[s.pipe].nonce >= s.nonce
    BY <2>3, RisingCovers
  <2>5. ServiceTypeOK' BY <1>4, <2>1, <2>3 DEF FinishAccept, ServiceTypeOK
  <2>6. accepted' = accepted \cup {calls[c]} BY <1>4 DEF FinishAccept
  <2>7. AcceptedCovered' BY <2>3, <2>4, <2>6 DEF AcceptedCovered
  <2> QED BY <2>3, <2>5, <2>7
<1>5. ASSUME NEW C \in SUBSET Calls, AbandonAccepts(C) PROVE ServiceInv' /\ Rising
  BY <1>5, SameRises DEF AbandonAccepts, ServiceTypeOK, AcceptedCovered
<1>6. ASSUME NEW p \in Pipes, NEW a \in Amounts, Offer(p, a) PROVE ServiceInv' /\ Rising
  <2> DEFINE now == Current(p)
             s == [pipe |-> p, nonce |-> now.nonce + 1, my |-> now.my - a,
                   their |-> now.their + a, actor |-> "local", beneficialOnly |-> FALSE]
  <2>1. now.nonce \in Nat /\ now.my \in Nat /\ now.their \in Nat
    BY AgentAssumption DEF Current, ServiceTypeOK, State
  <2>2. a \in Nat /\ now.my >= a BY <1>6, AgentAssumption DEF Offer
  <2>3. s \in State
    <3>1. now.my - a \in Nat /\ now.nonce + 1 \in Nat /\ now.their + a \in Nat
      BY <2>1, <2>2
    <3> QED BY <3>1 DEF State, Sides
  <2>4. offered' = offered \cup {s} BY <1>6 DEF Offer
  <2>5. UNCHANGED <<tracked, latest, calls, accepted>> BY <1>6 DEF Offer
  <2> QED BY <2>3, <2>4, <2>5, SameRises DEF ServiceTypeOK, AcceptedCovered
<1>7. ASSUME NEW s \in offered, RecordSigned(s) PROVE ServiceInv' /\ Rising
  <2>1. s \in State BY DEF ServiceTypeOK
  <2>2. /\ latest' \in [Pipes -> State \cup {None}]
        /\ \A p \in Pipes : latest'[p] # None => latest'[p].pipe = p
        /\ Rising
    BY <1>7, <2>1, UpsertCovers DEF RecordSigned, Rising
  <2>3. \A t \in accepted : latest'[t.pipe] # None /\ latest'[t.pipe].nonce >= t.nonce
    BY <2>2, RisingCovers
  <2>4. UNCHANGED <<tracked, calls, accepted, offered>> BY <1>7 DEF RecordSigned
  <2> QED BY <2>2, <2>3, <2>4 DEF ServiceTypeOK, AcceptedCovered
<1> QED BY <1>1, <1>2, <1>3, <1>4, <1>5, <1>6, <1>7 DEF ServiceNext

\* Steps of the watcher and of the chain leave the service alone; a restart is the end
\* of its calls.
LEMMA WatcherMovesService ==
    ASSUME ServiceTypeOK, [WatcherNext]_agentVars
    PROVE  [ServiceNext]_serviceVars
<1>1. CASE UNCHANGED agentVars BY <1>1 DEF agentVars
<1>2. CASE ServiceStep BY <1>2 DEF ServiceStep
<1>3. CASE Tick BY <1>3 DEF Tick
<1>4. CASE CallEnds
  BY <1>4 DEF CallEnds, List, ListFails, Submit, SubmitUnnamed, SubmitFails, LookAtPipe,
              LookFails, LookAtEvent
<1>5. CASE Restart
  <2> DEFINE C == {c \in Calls : calls[c] # None}
  <2>1. AbandonAccepts(C) BY <1>5 DEF Restart
  <2>2. CASE C = {}
    <3>1. calls' = calls
      <4>1. calls' = [c \in Calls |-> IF c \in C THEN None ELSE calls[c]]
        BY <2>1 DEF AbandonAccepts
      <4>2. calls = [c \in Calls |-> calls[c]] BY DEF ServiceTypeOK
      <4>3. calls' = [c \in Calls |-> calls[c]] BY <2>2, <4>1
      <4> QED BY <4>2, <4>3
    <3> QED BY <2>1, <3>1 DEF AbandonAccepts, serviceVars
  <2>3. CASE C # {}
    <3>1. C \in SUBSET Calls BY DEF C
    <3>2. C # {} BY <2>3
    <3> HIDE DEF C
    <3> QED BY <2>1, <3>1, <3>2 DEF ServiceNext
  <2> QED BY <2>2, <2>3
<1>6. ASSUME NEW p, NEW c, Close(p, c) PROVE UNCHANGED serviceVars BY <1>6 DEF Close
<1>7. ASSUME NEW d, Mine(d) PROVE UNCHANGED serviceVars BY <1>7 DEF Mine
<1>8. ASSUME NEW p, Finalize(p) PROVE UNCHANGED serviceVars BY <1>8 DEF Finalize
<1>9. CASE EmitOther BY <1>9 DEF EmitOther
<1> QED BY <1>1, <1>2, <1>3, <1>4, <1>5, <1>6, <1>7, <1>8, <1>9 DEF WatcherNext

\* The service invariant holds of the agent with its watcher.
THEOREM AgentInvariance == WatcherSpec => []ServiceInv
<1>1. WatcherInit => ServiceInv BY InitService DEF WatcherInit
<1>2. ServiceInv /\ [WatcherNext]_agentVars => ServiceInv'
  BY WatcherMovesService, ServiceStepKeeps DEF ServiceInv
<1> QED BY <1>1, <1>2, PTL DEF WatcherSpec

\* The agent with its watcher is an agent service: the passes, failures and restarts of
\* the watcher and the events of the chain never do to the tables what the service does
\* not.
THEOREM WatcherRunsService == WatcherSpec => ServiceSpec
<1>1. WatcherInit => ServiceInit BY DEF WatcherInit
<1>2. ServiceInv /\ [WatcherNext]_agentVars => [ServiceNext]_serviceVars
  BY WatcherMovesService DEF ServiceInv
<1> QED BY <1>1, <1>2, AgentInvariance, PTL DEF WatcherSpec, ServiceSpec

\* acceptIncomingTransfer: whatever the wallet, the other calls and restarts do, a
\* transfer answered with a signature is covered by the stored state.
THEOREM SignedStaysCovered == WatcherSpec => []AcceptedCovered
<1>1. ServiceInv => AcceptedCovered BY DEF ServiceInv
<1> QED BY <1>1, AgentInvariance, PTL

\* upsertSignatureState: no order of calls lowers the stored nonce of a pipe.
THEOREM NoncesRise == WatcherSpec => StoredNoncesRise
<1>1. ServiceInv /\ [WatcherNext]_agentVars =>
        [\A p \in Pipes : latest[p] # None =>
            latest'[p] # None /\ latest'[p].nonce >= latest[p].nonce]_serviceVars
  BY WatcherMovesService, ServiceStepKeeps DEF ServiceInv, Rising
<1> QED BY <1>1, AgentInvariance, PTL DEF WatcherSpec, StoredNoncesRise

--------------------------------------------------------------------------------
(* The watcher *)

\* Events are numbered in the order of their blocks; closures have serial numbers of
\* their own, and the closure in progress of a pipe is one of them.
LogInv ==
    /\ IsFiniteSet(log) /\ height \in Nat \ {0}
    /\ \A e \in log : /\ e.index \in 1..Cardinality(log) /\ e.height \in 1..height
    /\ \A d, e \in log : d.index <= e.index => d.height <= e.height
    /\ \A e \in ClosuresOf(log) : /\ e.closure.serial \in Serials
                                  /\ e.closure.serial <= Cardinality(ClosuresOf(log))
    /\ \A d, e \in ClosuresOf(log) : d.closure.serial = e.closure.serial => d = e
    /\ DOMAIN chain = Pipes
    /\ \A p \in Pipes : chain[p] # None => \E e \in ClosuresOf(log) : e.closure = chain[p]

\* What the pass has in hand.
PassInv ==
    /\ mode \in {"readonly", "events"} /\ cursor \in 0..height
    /\ mode = "readonly" => cursor = 0
    /\ \/ pass = Idle
       \/ pass.phase = "listing" /\ pass.failed = FALSE /\ pass.highest = cursor /\ mode = "events"
       \/ /\ pass.phase \in {"looking", "disputing"}
          /\ pass.failed \in BOOLEAN /\ pass.highest \in cursor..height
          /\ IF mode = "readonly" THEN pass.todo \subseteq Pipes
             ELSE \A e \in pass.todo : e \in ClosuresOf(log) /\ e.height >= cursor
    /\ pass.phase = "disputing" =>
          /\ Id(pass.closure) \notin disputed
          /\ \E e \in ClosuresOf(log) : e.closure = pass.closure /\ e.height >= cursor

\* A dispute beyond those that went unmarked was marked.
CountInv ==
    /\ sent \in [Serials -> Nat] /\ unmarked \in [Serials -> Nat]
    /\ \A n \in Serials :
          \/ sent[n] <= unmarked[n]
          \/ /\ sent[n] <= 1 + unmarked[n]
             /\ \E e \in ClosuresOf(log) : e.closure.serial = n /\ Id(e.closure) \in disputed

\* Closures of events in a block before highest, or before an entry of the list, are on
\* the list or among those dealt with.
Covers(todo, highest, dealt) ==
    \A d \in ClosuresOf(log) :
        d.height < highest \/ (\E e \in todo : d.index < e.index)
          => d \in todo \/ Id(d.closure) \in dealt

\* No closure was left out by the pass, or it holds the cursor.
ScanInv ==
    /\ CursorHonest
    /\ mode = "events" /\ pass.phase \in {"looking", "disputing"} /\ ~pass.failed =>
          Covers(pass.todo, pass.highest,
                 settled \cup IF pass.phase = "disputing" THEN {Id(pass.closure)} ELSE {})

WInv == LogInv /\ PassInv /\ CountInv /\ ScanInv

\* A closure keeps the name it is known by.
LEMMA SameId ==
    ASSUME mode' = mode
    PROVE  \A c : Id(c)' = Id(c)
BY DEF Id

\* The closures of a finite log are finitely many.
LEMMA ClosuresFinite ==
    ASSUME LogInv
    PROVE  /\ IsFiniteSet(ClosuresOf(log)) /\ Cardinality(ClosuresOf(log)) \in Nat
           /\ Cardinality(log) \in Nat /\ ClosuresOf(log) \subseteq log
<1>1. ClosuresOf(log) \subseteq log BY DEF ClosuresOf
<1> QED BY <1>1, FS_Subset, FS_CardinalityType DEF LogInv

\* Steps of the chain that emit nothing.
LEMMA ChainStep ==
    ASSUME WInv, UNCHANGED <<log, height, watcherVars, sent, unmarked, settled>>,
           DOMAIN chain' = Pipes, \A p \in Pipes : chain'[p] \in {None, chain[p]}
    PROVE  WInv'
<1>1. \A c : Id(c)' = Id(c) BY SameId DEF watcherVars
<1>2. LogInv' BY DEF WInv, LogInv, ClosuresOf
<1>3. PassInv' BY <1>1 DEF WInv, PassInv, ClosuresOf, watcherVars
<1>4. CountInv' BY <1>1 DEF WInv, CountInv, ClosuresOf, watcherVars
<1>5. ScanInv' BY <1>1 DEF WInv, ScanInv, CursorHonest, Covers, ClosuresOf, watcherVars
<1> QED BY <1>2, <1>3, <1>4, <1>5 DEF WInv

\* The event of a step: the last of the log, in its highest block.
LEMMA EmitExtends ==
    ASSUME LogInv, NEW c, Emit(c)
    PROVE  \E x : /\ log' = log \cup {x} /\ x \notin log
                  /\ x.closure = c /\ x.height = height' /\ x.index = Cardinality(log) + 1
                  /\ height' \in Nat /\ height' >= height /\ height' >= 1
                  /\ IsFiniteSet(log') /\ Cardinality(log') = Cardinality(log) + 1
<1>1. PICK h \in {height, height + 1} :
         /\ height' = h
         /\ log' = log \cup {[index |-> Cardinality(log) + 1, height |-> h, closure |-> c]}
  BY DEF Emit
<1> DEFINE x == [index |-> Cardinality(log) + 1, height |-> h, closure |-> c]
<1>2. Cardinality(log) \in Nat /\ height \in Nat \ {0} BY ClosuresFinite DEF LogInv
<1>3. x.index = Cardinality(log) + 1 /\ x.height = h /\ x.closure = c OBVIOUS
<1> HIDE DEF x
<1>4. x \notin log BY <1>2, <1>3 DEF LogInv
<1>5. IsFiniteSet(log') /\ Cardinality(log') = Cardinality(log) + 1
  BY <1>1, <1>4, FS_AddElement DEF LogInv, x
<1>6. log' = log \cup {x} BY <1>1 DEF x
<1>7. height' \in Nat /\ height' >= height /\ height' >= 1 BY <1>1, <1>2
<1> QED BY <1>1, <1>3, <1>4, <1>5, <1>6, <1>7

\* Steps of the chain that emit an event: it lies beyond what the watcher went past.
LEMMA EmitStep ==
    ASSUME WInv, NEW c, Emit(c), UNCHANGED <<watcherVars, sent, unmarked, settled>>,
           c # None => c.serial \in Serials /\ c.serial = Cardinality(ClosuresOf(log)) + 1,
           DOMAIN chain' = Pipes, \A p \in Pipes : chain'[p] \in {None, chain[p], c}
    PROVE  WInv'
<1>1. PICK x : /\ log' = log \cup {x} /\ x \notin log
               /\ x.closure = c /\ x.height = height' /\ x.index = Cardinality(log) + 1
               /\ height' \in Nat /\ height' >= height /\ height' >= 1
               /\ IsFiniteSet(log') /\ Cardinality(log') = Cardinality(log) + 1
  BY EmitExtends DEF WInv
<1>2. /\ IsFiniteSet(ClosuresOf(log)) /\ Cardinality(ClosuresOf(log)) \in Nat
      /\ Cardinality(log) \in Nat /\ ClosuresOf(log) \subseteq log /\ height \in Nat
  BY ClosuresFinite DEF WInv, LogInv
<1>3. \A c1 : Id(c1)' = Id(c1) BY SameId DEF watcherVars
<1>4. ClosuresOf(log)' = IF c = None THEN ClosuresOf(log) ELSE ClosuresOf(log) \cup {x}
  BY <1>1 DEF ClosuresOf
<1>5. Cardinality(ClosuresOf(log)') >= Cardinality(ClosuresOf(log))
      /\ (c # None => Cardinality(ClosuresOf(log)') = Cardinality(ClosuresOf(log)) + 1)
  <2>1. x \notin ClosuresOf(log) BY <1>1, <1>2
  <2>2. Cardinality(ClosuresOf(log) \cup {x}) = Cardinality(ClosuresOf(log)) + 1
    BY <1>2, <2>1, FS_AddElement
  <2>3. CASE c = None BY <1>2, <1>4, <2>3
  <2>4. CASE c # None BY <1>2, <1>4, <2>2, <2>4
  <2> QED BY <2>3, <2>4
<1>6. \A e \in log : /\ e.index \in 1..Cardinality(log) /\ e.height \in 1..height
                     /\ e.index < x.index /\ e.height <= x.height
  BY <1>1, <1>2 DEF WInv, LogInv
<1>7. LogInv'
  <2>1. \A e \in log' : e.index \in 1..Cardinality(log') /\ e.height \in 1..height'
    BY <1>1, <1>2, <1>6
  <2>2. \A d, e \in log' : d.index <= e.index => d.height <= e.height
    BY <1>1, <1>2, <1>6 DEF WInv, LogInv
  <2>3. \A e \in ClosuresOf(log) : /\ e.closure.serial \in Serials /\ e.closure.serial \in Nat
                                   /\ e.closure.serial <= Cardinality(ClosuresOf(log))
    BY DEF WInv, LogInv, Serials
  <2>4. \A e \in ClosuresOf(log)' : /\ e.closure.serial \in Serials
                                    /\ e.closure.serial <= Cardinality(ClosuresOf(log)')
    <3>1. CASE c = None BY <1>4, <2>3, <3>1
    <3>2. CASE c # None
      <4>1. x.closure.serial \in Serials /\ x.closure.serial <= Cardinality(ClosuresOf(log)')
        BY <1>1, <1>2, <1>5, <3>2
      <4>2. ASSUME NEW e \in ClosuresOf(log)
            PROVE  /\ e.closure.serial \in Serials
                   /\ e.closure.serial <= Cardinality(ClosuresOf(log)')
        BY <1>2, <1>5, <2>3, <3>2
      <4> QED BY <1>4, <3>2, <4>1, <4>2
    <3> QED BY <3>1, <3>2
  <2>5. \A d, e \in ClosuresOf(log)' : d.closure.serial = e.closure.serial => d = e
    BY <1>1, <1>2, <1>4, <2>3 DEF WInv, LogInv
  <2>6. \A p \in Pipes : chain'[p] # None => \E e \in ClosuresOf(log)' : e.closure = chain'[p]
    BY <1>1, <1>4 DEF WInv, LogInv
  <2>7. IsFiniteSet(log') /\ height' \in Nat \ {0} BY <1>1
  <2> QED BY <2>1, <2>2, <2>4, <2>5, <2>6, <2>7 DEF LogInv
<1>8. PassInv'
  <2>1. cursor \in 0..height' /\ cursor \in Nat
    BY <1>1, <1>2 DEF WInv, PassInv
  <2>2. pass.highest \in cursor..height => pass.highest \in cursor..height'
    BY <1>1, <1>2, <2>1
  <2>3. \A e \in ClosuresOf(log) : e \in ClosuresOf(log)' BY <1>4
  <2> QED BY <1>3, <2>1, <2>2, <2>3 DEF WInv, PassInv, watcherVars
<1>9. CountInv'
  BY <1>3, <1>4 DEF WInv, CountInv, watcherVars
<1>10. ScanInv'
  <2>1. \A d \in ClosuresOf(log)' : d \in ClosuresOf(log) \/ d = x BY <1>4
  <2>2. ~(x.height < cursor)
    BY <1>1, <1>2 DEF WInv, PassInv
  <2>3. CursorHonest'
    BY <1>3, <2>1, <2>2 DEF WInv, ScanInv, CursorHonest, watcherVars
  <2>4. ASSUME mode = "events", pass.phase \in {"looking", "disputing"}
        PROVE  ~(x.height < pass.highest) /\ \A e \in pass.todo : ~(x.index < e.index)
    <3>1. pass.highest \in cursor..height /\ pass.todo \subseteq log /\ cursor \in Nat
      BY <1>2, <2>4 DEF WInv, PassInv, Idle
    <3> QED BY <1>1, <1>2, <1>6, <3>1
  <2>5. ASSUME NEW done, mode = "events", pass.phase \in {"looking", "disputing"},
               Covers(pass.todo, pass.highest, done)
        PROVE  Covers(pass.todo, pass.highest, done)'
    BY <1>3, <2>1, <2>4, <2>5 DEF Covers, watcherVars
  <2> QED BY <1>3, <2>3, <2>5 DEF WInv, ScanInv, watcherVars
<1> QED BY <1>7, <1>8, <1>9, <1>10 DEF WInv

\* The loop of a pass goes on, or ends and moves the cursor over what it covered.
LEMMA LoopGoesOn ==
    ASSUME WInv, UNCHANGED <<mode, log, height>>,
           NEW todo, NEW failed \in BOOLEAN, NEW highest \in cursor..height,
           IF mode = "readonly" THEN todo \subseteq Pipes
           ELSE \A e \in todo : e \in ClosuresOf(log) /\ e.height >= cursor,
           GoOn(Looking(todo, failed, highest)),
           \A e \in ClosuresOf(log) : e.height < cursor => Id(e.closure) \in settled',
           mode = "events" /\ ~failed => Covers(todo, highest, settled')
    PROVE  PassInv' /\ ScanInv'
<1> DEFINE q == Looking(todo, failed, highest)
<1>1. \A c : Id(c)' = Id(c) BY SameId
<1>2. ClosuresOf(log)' = ClosuresOf(log) BY DEF ClosuresOf
<1>3. q.phase = "looking" /\ q.todo = todo /\ q.failed = failed /\ q.highest = highest
  BY DEF Looking
<1>4. cursor \in Nat /\ highest \in Nat /\ highest >= cursor /\ highest <= height
      /\ mode \in {"readonly", "events"} /\ (mode = "readonly" => cursor = 0) /\ height \in Nat
  BY DEF WInv, PassInv, LogInv
<1>5. CASE todo = {}
  <2>1. pass' = Idle /\ cursor' = IF failed \/ mode = "readonly" THEN cursor ELSE highest
    BY <1>3, <1>5 DEF GoOn, CursorAfter
  <2>2. PassInv' BY <1>4, <2>1 DEF PassInv, Idle
  <2>3. CursorHonest'
    <3>1. CASE failed \/ mode = "readonly"
      BY <1>1, <1>2, <2>1, <3>1 DEF CursorHonest
    <3>2. CASE ~failed /\ mode = "events"
      BY <1>1, <1>2, <1>5, <2>1, <3>2 DEF CursorHonest, Covers
    <3> QED BY <1>4, <3>1, <3>2
  <2> QED BY <2>1, <2>2, <2>3 DEF ScanInv, Idle
<1>6. CASE todo # {}
  <2>1. pass' = q /\ cursor' = cursor BY <1>3, <1>6 DEF GoOn
  <2> HIDE DEF q
  <2>2. PassInv' BY <1>1, <1>2, <1>3, <1>4, <2>1 DEF WInv, PassInv, Idle
  <2>3. CursorHonest' BY <1>1, <1>2, <2>1 DEF CursorHonest
  <2>4. mode = "events" /\ ~failed => Covers(todo, highest, settled)'
    BY <1>1, <1>2 DEF Covers
  <2> QED BY <1>3, <2>1, <2>2, <2>3, <2>4 DEF ScanInv
<1> QED BY <1>5, <1>6

\* A step of the watcher leaves the chain as it is.
LEMMA SameLog ==
    ASSUME LogInv, UNCHANGED <<log, height, chain>>
    PROVE  LogInv'
BY DEF LogInv, ClosuresOf

\* No dispute was sent and no row marked.
LEMMA SameCounts ==
    ASSUME WInv, UNCHANGED <<log, mode, sent, unmarked>>, disputed \subseteq disputed'
    PROVE  CountInv'
<1>1. \A c : Id(c)' = Id(c) BY SameId
<1> QED BY <1>1 DEF WInv, CountInv, ClosuresOf

\* The timer starts a pass.
LEMMA TickStep ==
    ASSUME WInv, tracked \subseteq Pipes, Tick
    PROVE  WInv'
<1>1. UNCHANGED <<mode, recorded, disputed, cursor, log, height, chain, sent, unmarked, settled>>
  BY DEF Tick, chainVars, historyVars
<1>2. \A c : Id(c)' = Id(c) BY <1>1, SameId
<1>3. LogInv' /\ CountInv' BY <1>1, SameLog, SameCounts DEF WInv
<1>4. CursorHonest' BY <1>1, <1>2 DEF WInv, ScanInv, CursorHonest, ClosuresOf
<1>5. cursor \in 0..height /\ height \in Nat /\ mode \in {"readonly", "events"}
      /\ (mode = "readonly" => cursor = 0)
  BY DEF WInv, PassInv, LogInv
<1>6. CASE mode = "readonly" /\ pass' = Looking(tracked, FALSE, cursor)
  <2>1. PassInv' BY <1>1, <1>5, <1>6 DEF PassInv, Looking, Idle
  <2> QED BY <1>1, <1>3, <1>4, <1>6, <2>1 DEF WInv, ScanInv
<1>7. CASE pass' = Idle
  <2>1. PassInv' BY <1>1, <1>5, <1>7 DEF PassInv, Idle
  <2> QED BY <1>1, <1>3, <1>4, <1>7, <2>1 DEF WInv, ScanInv, Idle
<1>8. CASE mode = "events" /\ pass' = [phase |-> "listing", todo |-> {}, failed |-> FALSE,
                                       highest |-> cursor]
  <2>1. PassInv' BY <1>1, <1>5, <1>8 DEF PassInv, Idle
  <2> QED BY <1>1, <1>3, <1>4, <1>8, <2>1 DEF WInv, ScanInv
<1> QED BY <1>5, <1>6, <1>7, <1>8 DEF Tick, BeginPass

\* A listing is a prefix of the events from the cursor's block on.
LEMMA ListingIsPrefix ==
    ASSUME LogInv, NEW from \in Nat, NEW e \in Listing(from), NEW d \in log,
           d.height >= from, d.index < e.index
    PROVE  d \in Listing(from)
<1> DEFINE eligible == {x \in log : x.height >= from}
           Before(x) == {y \in eligible : y.index < x.index}
<1>1. e \in eligible /\ Cardinality(Before(e)) < ScanLimit /\ d \in eligible
  BY DEF Listing
<1>2. \A x \in log : x.index \in Nat BY DEF LogInv
<1>3. Before(d) \subseteq Before(e) BY <1>1, <1>2
<1>4. IsFiniteSet(Before(e))
  <2>1. Before(e) \subseteq log OBVIOUS
  <2> HIDE DEF Before
  <2> QED BY <2>1, FS_Subset DEF LogInv
<1>5. Cardinality(Before(d)) <= Cardinality(Before(e))
      /\ Cardinality(Before(d)) \in Nat /\ Cardinality(Before(e)) \in Nat
  <2> HIDE DEF Before
  <2>1. IsFiniteSet(Before(d)) BY <1>3, <1>4, FS_Subset
  <2> QED BY <1>3, <1>4, <2>1, FS_Subset, FS_CardinalityType
<1>6. Cardinality(Before(d)) < ScanLimit
  BY <1>1, <1>5, WatcherAssumption
<1> QED BY <1>1, <1>6 DEF Listing

\* The listing answers: nothing from the cursor on is left out before its last entry.
LEMMA ListStep ==
    ASSUME WInv, List
    PROVE  WInv'
<1> DEFINE found == ClosuresOf(Listing(cursor))
<1>1. UNCHANGED <<mode, recorded, disputed, cursor, log, height, chain, sent, unmarked, settled>>
  BY DEF List, chainVars, historyVars
<1>2. \A c : Id(c)' = Id(c) BY <1>1, SameId
<1>3. LogInv' /\ CountInv' BY <1>1, SameLog, SameCounts DEF WInv
<1>4. CursorHonest' BY <1>1, <1>2 DEF WInv, ScanInv, CursorHonest, ClosuresOf
<1>5. cursor \in 0..height /\ cursor \in Nat /\ height \in Nat /\ mode = "events"
      /\ pass.failed = FALSE /\ pass.highest = cursor
  BY DEF WInv, PassInv, LogInv, List, Idle
<1>6. CASE pass' = Idle
  <2>1. PassInv' BY <1>1, <1>5, <1>6 DEF PassInv, Idle
  <2> QED BY <1>1, <1>3, <1>4, <1>6, <2>1 DEF WInv, ScanInv, Idle
<1>7. CASE pass' = Looking(found, FALSE, cursor)
  <2>1. \A e \in found : e \in ClosuresOf(log) /\ e.height >= cursor
    BY DEF Listing, ClosuresOf
  <2>2. \A d \in ClosuresOf(log), e \in found : d.index < e.index /\ d.height >= cursor
            => d \in found
    BY <1>5, ListingIsPrefix DEF ClosuresOf, WInv
  <2>3. \A d \in ClosuresOf(log) : d.height \in Nat BY DEF ClosuresOf, WInv, LogInv
  <2>4. Covers(found, cursor, settled)
    BY <1>5, <2>2, <2>3 DEF Covers, WInv, ScanInv, CursorHonest
  <2> HIDE DEF found
  <2>5. PassInv' BY <1>1, <1>5, <1>7, <2>1 DEF PassInv, Looking, Idle, ClosuresOf
  <2>7. pass'.todo = found /\ pass'.highest = cursor /\ pass'.phase = "looking"
    BY <1>7 DEF Looking
  <2>8. ScanInv'
    BY <1>1, <1>2, <1>4, <2>4, <2>7 DEF ScanInv, Covers, ClosuresOf
  <2> QED BY <1>3, <2>5, <2>8 DEF WInv
<1> QED BY <1>5, <1>6, <1>7 DEF List

\* With the first entry dealt with, the rest of the list covers as much.
LEMMA RestCovers ==
    ASSUME WInv, pass.phase = "looking", mode = "events", ~pass.failed,
           NEW x \in pass.todo, \A d \in pass.todo : x.index <= d.index
    PROVE  Covers(pass.todo \ {x}, HighestWith(x), settled \cup {Id(x.closure)})
<1>1. Covers(pass.todo, pass.highest, settled) BY DEF WInv, ScanInv
<1>2. x \in ClosuresOf(log) BY DEF WInv, PassInv, Idle
<1>3. \A d \in ClosuresOf(log) : /\ d.index \in Nat /\ d.height \in Nat
                                 /\ d.height < x.height => d.index < x.index
  BY <1>2 DEF WInv, LogInv, ClosuresOf
<1> SUFFICES ASSUME NEW d \in ClosuresOf(log),
                    d.height < HighestWith(x) \/ \E e \in pass.todo \ {x} : d.index < e.index
             PROVE  d \in pass.todo \ {x} \/ Id(d.closure) \in settled \cup {Id(x.closure)}
  BY DEF Covers
<1>4. d.height < pass.highest \/ d.height < x.height
      \/ \E e \in pass.todo : d.index < e.index
  BY DEF HighestWith
<1>5. d \in pass.todo \/ Id(d.closure) \in settled
  BY <1>1, <1>3, <1>4 DEF Covers
<1> QED BY <1>5

\* An entry of the list is looked at.
LEMMA LookAtStep ==
    ASSUME WInv, pass.phase = "looking", NEW x \in pass.todo, NEW c, LookAt(x, c),
           UNCHANGED <<mode, disputed, log, height, chain, sent, unmarked>>,
           \E e \in ClosuresOf(log) : e.closure = c /\ e.height >= cursor,
           mode = "events" => c = x.closure /\ \A d \in pass.todo : x.index <= d.index
    PROVE  WInv'
<1> DEFINE todo == pass.todo \ {x}
           highest == HighestWith(x)
<1>1. \A c1 : Id(c1)' = Id(c1) BY SameId
<1>2. LogInv' /\ CountInv' BY SameLog, SameCounts DEF WInv
<1>3. /\ cursor \in Nat /\ height \in Nat /\ mode \in {"readonly", "events"}
      /\ pass.failed \in BOOLEAN /\ pass.highest \in cursor..height
      /\ mode = "readonly" => pass.todo \subseteq Pipes
      /\ mode = "events" => \A e \in pass.todo : e \in ClosuresOf(log) /\ e.height >= cursor
  BY DEF WInv, PassInv, LogInv, Idle
<1>4. highest \in cursor..height
  BY <1>3 DEF HighestWith, WInv, LogInv, ClosuresOf
<1>5. mode = "events" /\ ~pass.failed => Covers(todo, highest, settled \cup {Id(c)})
  BY RestCovers
<1>6. \A e \in ClosuresOf(log) : e.height < cursor => Id(e.closure) \in settled
  BY DEF WInv, ScanInv, CursorHonest
<1>7. IF mode = "readonly" THEN todo \subseteq Pipes
      ELSE \A e \in todo : e \in ClosuresOf(log) /\ e.height >= cursor
  BY <1>3
<1> HIDE DEF todo, highest
<1>8. CASE GoOn(Looking(todo, pass.failed, highest)) /\ settled' = settled \cup {Id(c)}
  BY <1>2, <1>3, <1>4, <1>5, <1>6, <1>7, <1>8, LoopGoesOn DEF WInv
<1>9. CASE /\ ~Skips(c)
           /\ pass' = [phase |-> "disputing", todo |-> todo, failed |-> pass.failed,
                       highest |-> highest, closure |-> c, with |-> latest[c.pipe]]
           /\ UNCHANGED <<cursor, settled>>
  <2>1. /\ pass'.phase = "disputing" /\ pass'.todo = todo /\ pass'.failed = pass.failed
        /\ pass'.highest = highest /\ pass'.closure = c
    BY <1>9
  <2>2. ClosuresOf(log)' = ClosuresOf(log) BY DEF ClosuresOf
  <2>3. PassInv'
    BY <1>1, <1>3, <1>4, <1>7, <1>9, <2>1, <2>2 DEF WInv, PassInv, Skips, Idle
  <2>4. CursorHonest' BY <1>1, <1>6, <1>9, <2>2 DEF CursorHonest
  <2>5. ScanInv'
    BY <1>1, <1>5, <1>9, <2>1, <2>2, <2>4 DEF ScanInv, Covers
  <2> QED BY <1>2, <2>3, <2>5 DEF WInv
<1>10. \/ GoOn(Looking(todo, pass.failed, highest)) /\ settled' = settled \cup {Id(c)}
       \/ /\ ~Skips(c)
          /\ pass' = [phase |-> "disputing", todo |-> todo, failed |-> pass.failed,
                      highest |-> highest, closure |-> c, with |-> latest[c.pipe]]
          /\ UNCHANGED <<cursor, settled>>
  BY DEF LookAt, Looking, todo, highest
<1> QED BY <1>8, <1>9, <1>10

\* A pipe is read, or cannot be read; an event is looked at.
LEMMA LookStep ==
    ASSUME WInv, (\E p \in Pipes : LookAtPipe(p) \/ LookFails(p))
                 \/ (pass.phase = "looking" /\ mode = "events"
                       /\ \E e \in pass.todo : LookAtEvent(e))
    PROVE  WInv'
<1>1. UNCHANGED <<mode, disputed, log, height, chain, sent, unmarked>> /\ pass.phase = "looking"
  BY DEF LookAtPipe, LookFails, LookAtEvent, chainVars
<1>2. \A e \in ClosuresOf(log) : e.height \in Nat BY DEF WInv, LogInv, ClosuresOf
<1>3. ASSUME NEW p \in Pipes, p \in pass.todo, mode = "readonly",
             GoOn(Looking(pass.todo \ {p}, pass.failed, pass.highest)), settled' = settled
      PROVE  WInv'
  <2>1. pass.failed \in BOOLEAN /\ pass.highest \in cursor..height /\ pass.todo \subseteq Pipes
    BY <1>1, <1>3 DEF WInv, PassInv, Idle
  <2>2. LogInv' /\ CountInv' BY <1>1, SameLog, SameCounts DEF WInv
  <2>3. \A e \in ClosuresOf(log) : e.height < cursor => Id(e.closure) \in settled
    BY DEF WInv, ScanInv, CursorHonest
  <2>4. PassInv' /\ ScanInv' BY <1>1, <1>3, <2>1, <2>3, LoopGoesOn
  <2> QED BY <2>2, <2>4 DEF WInv
<1>4. ASSUME NEW p \in Pipes, LookAtPipe(p), chain[p] # None PROVE WInv'
  <2>1. \E e \in ClosuresOf(log) : e.closure = chain[p] /\ e.height >= cursor
    BY <1>2, <1>4 DEF WInv, LogInv, PassInv, LookAtPipe
  <2>2. p \in pass.todo /\ mode = "readonly" /\ LookAt(p, chain[p]) BY <1>4 DEF LookAtPipe
  <2> QED BY <1>1, <2>1, <2>2, LookAtStep
<1>5. ASSUME NEW e \in pass.todo, mode = "events", LookAtEvent(e) PROVE WInv'
  <2>1. e \in ClosuresOf(log) /\ e.height >= cursor
    BY <1>1, <1>5 DEF WInv, PassInv, Idle
  <2>2. LookAt(e, e.closure) /\ \A d \in pass.todo : e.index <= d.index
    BY <1>5 DEF LookAtEvent
  <2> QED BY <1>1, <2>1, <2>2, LookAtStep
<1> QED BY <1>3, <1>4, <1>5 DEF LookAtPipe, LookFails

\* A dispute of the closure in hand goes out: it is its first, but for those whose
\* transaction the agent could not name.
LEMMA SendCounts ==
    ASSUME WInv, pass.phase = "disputing", Sent, mode' = mode, log' = log,
           \/ Unmarked /\ disputed' = disputed
           \/ unmarked' = unmarked /\ disputed' = disputed \cup {Id(pass.closure)}
    PROVE  CountInv'
<1> DEFINE n == pass.closure.serial
<1>1. PICK x \in ClosuresOf(log) : x.closure = pass.closure
  BY DEF WInv, PassInv
<1>2. n \in Serials /\ Id(x.closure) \notin disputed
  BY <1>1 DEF WInv, LogInv, PassInv
<1>3. \A e \in ClosuresOf(log) : e.closure.serial = n => e = x
  BY <1>1 DEF WInv, LogInv
<1>4. sent[n] <= unmarked[n] BY <1>2, <1>3 DEF WInv, CountInv
<1>5. \A c : Id(c)' = Id(c) BY SameId
<1>6. ClosuresOf(log)' = ClosuresOf(log) BY DEF ClosuresOf
<1>7. sent \in [Serials -> Nat] /\ unmarked \in [Serials -> Nat] /\ n \in Serials
  BY <1>2 DEF WInv, CountInv
<1>8. sent' \in [Serials -> Nat] /\ sent'[n] = sent[n] + 1
      /\ \A m \in Serials : m # n => sent'[m] = sent[m]
  BY <1>7 DEF Sent
<1>9. unmarked' \in [Serials -> Nat] /\ unmarked'[n] \in {unmarked[n], unmarked[n] + 1}
      /\ \A m \in Serials : m # n => unmarked'[m] = unmarked[m]
  BY <1>7 DEF Unmarked
<1>10. \/ sent'[n] <= unmarked'[n]
       \/ sent'[n] <= 1 + unmarked'[n] /\ Id(x.closure) \in disputed'
  <2>1. CASE Unmarked
    <3>1. unmarked'[n] = unmarked[n] + 1 BY <1>7, <2>1 DEF Unmarked
    <3> QED BY <1>4, <1>7, <1>8, <3>1
  <2>2. CASE unmarked' = unmarked /\ disputed' = disputed \cup {Id(pass.closure)}
    BY <1>1, <1>4, <1>7, <1>8, <2>2
  <2> QED BY <2>1, <2>2
<1>11. disputed \subseteq disputed' OBVIOUS
<1>12. ASSUME NEW m \in Serials
       PROVE  \/ sent'[m] <= unmarked'[m]
              \/ /\ sent'[m] <= 1 + unmarked'[m]
                 /\ \E e \in ClosuresOf(log) : e.closure.serial = m /\ Id(e.closure) \in disputed'
  <2>1. CASE m = n BY <1>1, <1>10, <2>1
  <2>2. CASE m # n BY <1>8, <1>9, <1>11, <2>2 DEF WInv, CountInv
  <2> QED BY <2>1, <2>2
<1> QED BY <1>5, <1>6, <1>8, <1>9, <1>12 DEF CountInv

\* submitDispute answers, or fails and the cursor is held.
LEMMA SubmitStep ==
    ASSUME WInv, Submit \/ SubmitUnnamed \/ SubmitFails
    PROVE  WInv'
<1>1. UNCHANGED <<mode, log, height, chain>> /\ pass.phase = "disputing"
  BY DEF Submit, SubmitUnnamed, SubmitFails
<1>2. LogInv' BY <1>1, SameLog DEF WInv
<1>3. CountInv'
  <2>1. CASE Sent /\ \/ Unmarked /\ disputed' = disputed
                     \/ unmarked' = unmarked /\ disputed' = disputed \cup {Id(pass.closure)}
    BY <1>1, <2>1, SendCounts
  <2>2. CASE UNCHANGED <<sent, unmarked, disputed>> BY <1>1, <2>2, SameCounts
  <2> QED BY <2>1, <2>2 DEF Submit, SubmitUnnamed, SubmitFails
<1>4. /\ pass.failed \in BOOLEAN /\ pass.highest \in cursor..height
      /\ IF mode = "readonly" THEN pass.todo \subseteq Pipes
         ELSE \A e \in pass.todo : e \in ClosuresOf(log) /\ e.height >= cursor
  BY <1>1 DEF WInv, PassInv, Idle
<1>5. \A e \in ClosuresOf(log) : e.height < cursor => Id(e.closure) \in settled
  BY DEF WInv, ScanInv, CursorHonest
<1>6. CASE /\ settled' = settled \cup {Id(pass.closure)}
           /\ GoOn(Looking(pass.todo, pass.failed, pass.highest))
  <2>1. mode = "events" /\ ~pass.failed => Covers(pass.todo, pass.highest, settled')
    BY <1>1, <1>6 DEF WInv, ScanInv
  <2> QED BY <1>1, <1>2, <1>3, <1>4, <1>5, <1>6, <2>1, LoopGoesOn DEF WInv
<1>7. CASE /\ settled' = settled \ {Id(pass.closure)}
           /\ GoOn(Looking(pass.todo, TRUE, pass.highest))
  <2>1. PICK x \in ClosuresOf(log) : x.closure = pass.closure /\ x.height >= cursor
    BY <1>1 DEF WInv, PassInv
  <2>2. \A e \in ClosuresOf(log) : e.height \in Nat /\ e.height >= 1
    BY DEF WInv, LogInv, ClosuresOf
  <2>3. mode \in {"readonly", "events"} /\ (mode = "readonly" => cursor = 0) /\ cursor \in Nat
    BY DEF WInv, PassInv, LogInv
  <2>4. ASSUME NEW e \in ClosuresOf(log), e.height < cursor, Id(e.closure) = Id(x.closure)
        PROVE  FALSE
    <3>1. mode = "events" BY <2>2, <2>3, <2>4
    <3>2. e.closure.serial = x.closure.serial BY <2>4, <3>1 DEF Id
    <3>3. e = x BY <3>2 DEF WInv, LogInv
    <3> QED BY <2>1, <2>2, <2>3, <2>4, <3>3
  <2>5. \A e \in ClosuresOf(log) : e.height < cursor => Id(e.closure) \in settled'
    BY <1>5, <1>7, <2>1, <2>4
  <2>6. PassInv' /\ ScanInv' BY <1>1, <1>4, <1>7, <2>5, LoopGoesOn
  <2> QED BY <1>2, <1>3, <2>6 DEF WInv
<1> QED BY <1>6, <1>7 DEF Submit, SubmitUnnamed, SubmitFails

\* A pass is dropped: the listing failed or the process restarts.
LEMMA DropStep ==
    ASSUME WInv, ListFails \/ Restart
    PROVE  WInv'
<1>1. UNCHANGED <<mode, disputed, cursor, log, height, chain, settled>> /\ pass' = Idle
  BY DEF ListFails, Restart, chainVars
<1>2. \A c : Id(c)' = Id(c) BY <1>1, SameId
<1>3. LogInv' BY <1>1, SameLog DEF WInv
<1>4. CountInv'
  <2>1. CASE pass.phase = "disputing" /\ Sent /\ Unmarked BY <1>1, <2>1, SendCounts
  <2>2. CASE UNCHANGED <<sent, unmarked>> BY <1>1, <2>2, SameCounts
  <2> QED BY <2>1, <2>2 DEF ListFails, Restart
<1>5. PassInv' BY <1>1 DEF WInv, PassInv, Idle
<1>6. ScanInv'
  BY <1>1, <1>2 DEF WInv, ScanInv, CursorHonest, ClosuresOf, Idle
<1> QED BY <1>3, <1>4, <1>5, <1>6 DEF WInv

\* A step of the agent's service, of the watcher or of the chain.
LEMMA WatcherStep ==
    ASSUME WInv, ServiceInv, [WatcherNext]_agentVars
    PROVE  WInv'
<1>0. DOMAIN chain = Pipes BY DEF WInv, LogInv
<1>1. CASE ServiceStep \/ UNCHANGED agentVars
  BY <1>0, <1>1, ChainStep DEF ServiceStep, agentVars, chainVars, historyVars
<1>2. CASE Tick BY <1>2, TickStep DEF ServiceInv, ServiceTypeOK
<1>3. CASE CallEnds BY <1>3, ListStep, DropStep, SubmitStep, LookStep DEF CallEnds
<1>4. CASE Restart BY <1>4, DropStep
<1>5. ASSUME NEW p \in Pipes, NEW c, c.serial \in Serials, Close(p, c) PROVE WInv'
  <2>1. \A i \in Pipes : chain'[i] \in {None, chain[i], c} BY <1>0, <1>5 DEF Close
  <2> QED BY <1>0, <1>5, <2>1, EmitStep DEF Close
<1>6. CASE \E d \in mempool : Mine(d)
  <2>1. (\E i, n : Reopen(i, n)) \/ UNCHANGED <<chain, settledAt>>
    BY <1>6, Zenon DEF Mine
  <2>2. \A i \in Pipes : chain'[i] \in {None, chain[i]} BY <1>0, <2>1 DEF Reopen
  <2>3. DOMAIN chain' = Pipes BY <1>0, <2>1 DEF Reopen
  <2> QED BY <1>6, <2>2, <2>3, ChainStep DEF Mine
<1>7. CASE \E p \in Pipes : Finalize(p)
  BY <1>0, <1>7, ChainStep DEF Finalize, Reopen
<1>8. CASE EmitOther
  BY <1>0, <1>8, EmitStep DEF EmitOther, historyVars
<1>9. CASE \E p \in Pipes, n \in Serials, v \in {"force-close", "force-cancel"}, s \in Sides,
              q \in {Base} \cup accepted \cup offered :
              Close(p, [pipe |-> p, serial |-> n, event |-> v, closer |-> s,
                        nonce |-> IF v = "force-cancel" THEN settledAt[p] ELSE q.nonce,
                        my |-> q.my])
  BY <1>5, <1>9
<1> QED BY <1>1, <1>2, <1>3, <1>4, <1>6, <1>7, <1>8, <1>9 DEF WatcherNext

\* The watcher's invariant holds of an agent, whatever fails and whenever it restarts.
THEOREM WatcherInvariance == WatcherSpec => []WInv
<1>1. WatcherInit => WInv
  <2> SUFFICES ASSUME WatcherInit PROVE WInv OBVIOUS
  <2>1. IsFiniteSet(log) /\ ClosuresOf(log) = {} BY FS_EmptySet DEF WatcherInit, ClosuresOf
  <2>2. LogInv BY <2>1 DEF WatcherInit, LogInv
  <2>3. PassInv BY DEF WatcherInit, PassInv, Idle
  <2>4. CountInv BY DEF WatcherInit, CountInv
  <2>5. ScanInv BY <2>1 DEF WatcherInit, ScanInv, CursorHonest, Idle
  <2> QED BY <2>2, <2>3, <2>4, <2>5 DEF WInv
<1>2. WInv /\ ServiceInv /\ [WatcherNext]_agentVars => WInv' BY WatcherStep
<1> QED BY <1>1, <1>2, AgentInvariance, PTL DEF WatcherSpec

\* Of the watcher's own accord a closure is disputed once: every further dispute of it
\* follows one whose transaction the agent could not name, or whose answer was lost.
THEOREM DisputesOnceUnlessLost == WatcherSpec => []RepeatsOnlyAfterLoss
<1>1. WInv => RepeatsOnlyAfterLoss
  BY DEF WInv, CountInv, RepeatsOnlyAfterLoss
<1> QED BY <1>1, WatcherInvariance, PTL

\* The cursor passes over no closure whose last look did not end well: a failed dispute
\* holds it, and a listing cut at its limit leaves the rest for the next.
THEOREM CursorPassesOnlySettled == WatcherSpec => []CursorHonest
BY WatcherInvariance, PTL DEF WInv, ScanInv

---------------------------------------------------------------------------------
\* The client of the x402 gateway.

Inside == {"inside", "building", "leaving"}

\* A caller with a valid lease.
Holds(c) == requests[c].phase \in Inside /\ ~requests[c].lapsed

Loop == [phase : Phases, challenged : BOOLEAN, lapsed : BOOLEAN,
         attempts : Int, paid : Int, nonce : Nat \cup {Null}]

ClientTypes ==
    /\ requests \in [Callers -> Loop]
    /\ lock = Null \/ lock \in [token : Callers, expired : BOOLEAN]
    /\ row \in Nat /\ nodeNonce \in Nat /\ epoch \in Nat
    /\ consumed \subseteq Nat
    /\ fetched = Null \/ fetched \in Pipe
    /\ built \subseteq [by : Callers, nonce : Nat, epoch : Nat]

\* Whoever is about to write has read a nonce.
BuilderHasNonce == \A c \in Callers : requests[c].phase = "building" => requests[c].nonce \in Nat

\* No nonce of the present epoch is above the row, nor as high as one that is about to be
\* written under a valid lease.
NoncesBelow ==
    \A b \in built :
        /\ b.epoch <= epoch
        /\ b.epoch = epoch =>
               /\ b.nonce <= row
               /\ \A c \in Callers : Holds(c) /\ requests[c].phase = "building"
                                         => b.nonce < requests[c].nonce

ClientInv ==
    ClientTypes /\ HolderKeepsLock /\ BuilderHasNonce /\ NoncesBelow /\ NoncesTakenOnce

\* A step that gives nobody a lease or a nonce to write, and leaves row, epoch and history
\* alone, keeps the invariant.
Quiet ==
    /\ UNCHANGED <<row, built, epoch>>
    /\ \A c \in Callers :
           /\ requests'[c].phase \in Inside \/ requests'[c].phase = "building"
                  => requests'[c].phase = requests[c].phase
           /\ requests'[c].phase = requests[c].phase /\ requests[c].phase \in Inside
                  => requests'[c].nonce = requests[c].nonce
           /\ requests'[c].phase \in Inside => (~requests'[c].lapsed => ~requests[c].lapsed)

\* ... provided that the lock stays with those who keep their lease.
LEMMA QuietKeeps ==
    ASSUME ClientInv, ClientTypes', Quiet,
           \A c \in Callers : requests'[c].phase \in Inside /\ ~requests'[c].lapsed
                                 => lock' = lock
    PROVE  ClientInv'
<1>1. HolderKeepsLock'
  BY DEF ClientInv, HolderKeepsLock, Quiet, Inside
<1>2. BuilderHasNonce'
  BY DEF ClientInv, BuilderHasNonce, Quiet, Inside
<1>3. NoncesBelow'
  BY DEF ClientInv, NoncesBelow, Holds, Quiet, Inside
<1>4. NoncesTakenOnce'
  BY DEF ClientInv, NoncesTakenOnce, Quiet
<1> QED BY <1>1, <1>2, <1>3, <1>4 DEF ClientInv

\* Two valid leases are one: both are the row of pipe_locks.
LEMMA OneHolder ==
    ASSUME HolderKeepsLock, NEW c \in Callers, NEW d \in Callers, Holds(c), Holds(d)
    PROVE  c = d
BY DEF HolderKeepsLock, Holds, Inside

\* Initially nobody holds the lock and nothing is built.
LEMMA ClientStarts == Init => ClientInv
BY ClientAssumption DEF Init, ClientInv, ClientTypes, HolderKeepsLock, BuilderHasNonce,
   NoncesBelow, NoncesTakenOnce, Loop, Phases

\* What the updates of one caller's loop leave as it was.
LEMMA BeginStep ==
    ASSUME requests \in [Callers -> Loop], NEW c \in Callers, NEW phase \in Phases,
           requests' = [requests EXCEPT ![c].phase = phase, ![c].nonce = Null,
                                        ![c].lapsed = FALSE]
    PROVE  /\ requests' \in [Callers -> Loop]
           /\ requests'[c].phase = phase
           /\ \A d \in Callers \ {c} : requests'[d] = requests[d]
BY DEF Loop

\* A step of one caller that sets its phase and nonce.
LEMMA NonceStep ==
    ASSUME requests \in [Callers -> Loop], NEW c \in Callers, NEW phase \in Phases,
           NEW nonce \in Nat,
           requests' = [requests EXCEPT ![c].phase = phase, ![c].nonce = nonce]
    PROVE  /\ requests' \in [Callers -> Loop]
           /\ requests'[c].phase = phase /\ requests'[c].nonce = nonce
           /\ requests'[c].lapsed = requests[c].lapsed
           /\ \A d \in Callers \ {c} : requests'[d] = requests[d]
BY DEF Loop

\* A step of one caller that sets its phase and counters.
LEMMA SubmitProofStep ==
    ASSUME requests \in [Callers -> Loop], NEW c \in Callers, NEW phase \in Phases,
           NEW attempts \in Int, NEW paid \in Int,
           requests' = [requests EXCEPT ![c].attempts = attempts, ![c].paid = paid,
                                        ![c].phase = phase]
    PROVE  /\ requests' \in [Callers -> Loop]
           /\ requests'[c].phase = phase
           /\ \A d \in Callers \ {c} : requests'[d] = requests[d]
BY DEF Loop

\* The steps of the loop that do not touch the store's lock or row.
LEMMA LoopKeeps ==
    ASSUME ClientInv, NEW c \in Callers,
           Begin(c) \/ ProvideFixed(c) \/ LockTimeout(c) \/ SubmitProof(c) \/ Succeed(c)
             \/ OtherAnswer(c) \/ Challenged(c) \/ Crash(c)
    PROVE  ClientInv'
<1> USE DEF ClientInv, In, Goto, Apart, Phases
<1>0. requests \in [Callers -> Loop] BY DEF ClientTypes
<1>1. CASE Begin(c)
  <2>0. PICK phase \in {"proving", "sent"} :
            requests' = [requests EXCEPT ![c].phase = phase, ![c].nonce = Null,
                                         ![c].lapsed = FALSE]
    BY <1>1, Zenon DEF Begin
  <2>3. phase \in Phases OBVIOUS
  <2>4. /\ requests' \in [Callers -> Loop]
        /\ requests'[c].phase = phase
        /\ \A d \in Callers \ {c} : requests'[d] = requests[d]
    BY <1>0, <2>0, <2>3, BeginStep
  <2>1. ClientTypes' BY <1>1, <2>4 DEF Begin, ClientTypes
  <2>2. Quiet BY <1>1, <2>4 DEF Begin, Quiet, Inside
  <2> QED BY <1>1, <2>1, <2>2, QuietKeeps DEF Begin
<1>2. CASE ProvideFixed(c)
  <2>3. "proved" \in Phases /\ FixedProof \in Nat BY DEF FixedProof
  <2>4. /\ requests' \in [Callers -> Loop]
        /\ requests'[c].phase = "proved"
        /\ \A d \in Callers \ {c} : requests'[d] = requests[d]
    BY <1>0, <1>2, <2>3, NonceStep DEF ProvideFixed
  <2>1. ClientTypes' BY <1>2, <2>4 DEF ProvideFixed, ClientTypes
  <2>2. Quiet BY <1>2, <2>4 DEF ProvideFixed, Quiet, Inside
  <2> QED BY <1>2, <2>1, <2>2, QuietKeeps DEF ProvideFixed
<1>3. CASE LockTimeout(c)
  <2>1. ClientTypes' BY <1>0, <1>3 DEF LockTimeout, ClientTypes, Loop
  <2>2. Quiet BY <1>0, <1>3 DEF LockTimeout, Quiet, Loop, Inside
  <2> QED BY <1>3, <2>1, <2>2, QuietKeeps DEF LockTimeout
<1>4. CASE SubmitProof(c)
  <2> DEFINE used == requests[c].nonce \in consumed
             attempts == Counted(requests[c].attempts + 1)
             paid == IF used THEN requests[c].paid ELSE requests[c].paid + 1
             phase == IF used THEN "start" ELSE "sent"
  <2>1. requests[c].attempts \in Int /\ requests[c].paid \in Int BY <1>0 DEF Loop
  <2>2. attempts \in Int BY <2>1, ClientAssumption DEF Counted
  <2>3. paid \in Int BY <2>1
  <2>6. phase \in Phases \ Inside BY DEF Inside
  <2>7. requests' = [requests EXCEPT ![c].attempts = attempts, ![c].paid = paid,
                                     ![c].phase = phase]
    BY <1>4 DEF SubmitProof
  <2> HIDE DEF attempts, paid, phase, Phases
  <2>8. /\ requests' \in [Callers -> Loop]
        /\ requests'[c].phase = phase
        /\ \A d \in Callers \ {c} : requests'[d] = requests[d]
    BY <1>0, <2>2, <2>3, <2>6, <2>7, SubmitProofStep
  <2>4. ClientTypes' BY <1>4, <2>8 DEF SubmitProof, ClientTypes
  <2>5. Quiet BY <1>4, <2>6, <2>8 DEF SubmitProof, Quiet, Inside
  <2> QED BY <1>4, <2>4, <2>5, QuietKeeps DEF SubmitProof
<1>5. CASE Succeed(c)
  <2>1. ClientTypes' BY <1>0, <1>5 DEF Succeed, ClientTypes, Loop
  <2>2. Quiet BY <1>0, <1>5 DEF Succeed, Quiet, Loop, Inside
  <2> QED BY <1>5, <2>1, <2>2, QuietKeeps DEF Succeed
<1>6. CASE OtherAnswer(c)
  <2>1. ClientTypes' BY <1>0, <1>6 DEF OtherAnswer, ClientTypes, Loop
  <2>2. Quiet BY <1>0, <1>6 DEF OtherAnswer, Quiet, Loop, Inside
  <2> QED BY <1>6, <2>1, <2>2, QuietKeeps DEF OtherAnswer
<1>7. CASE Challenged(c)
  <2>1. ClientTypes' BY <1>0, <1>7 DEF Challenged, ClientTypes, Loop
  <2>2. Quiet BY <1>0, <1>7 DEF Challenged, Quiet, Loop, Inside
  <2> QED BY <1>7, <2>1, <2>2, QuietKeeps DEF Challenged
<1>8. CASE Crash(c)
  <2>1. ClientTypes' BY <1>0, <1>8 DEF Crash, ClientTypes, Loop
  <2>2. Quiet BY <1>0, <1>8 DEF Crash, Quiet, Loop, Inside
  <2> QED BY <1>8, <2>1, <2>2, QuietKeeps DEF Crash
<1> QED BY <1>1, <1>2, <1>3, <1>4, <1>5, <1>6, <1>7, <1>8

\* Taking the lock: nobody else has a valid lease, or the lock would not be free.
LEMMA AcquireKeeps ==
    ASSUME ClientInv, NEW c \in Callers, AcquirePipeLock(c)
    PROVE  ClientInv'
<1> USE DEF ClientInv
<1>0. requests \in [Callers -> Loop] BY DEF ClientTypes
<1>1. requests' = [requests EXCEPT ![c].phase = "inside"]
  BY DEF AcquirePipeLock, Goto
<1>2. ClientTypes'
  BY <1>0, <1>1 DEF AcquirePipeLock, Apart, ClientTypes, Loop, Phases
<1>3. \A d \in Callers : ~Holds(d)
  <2> SUFFICES ASSUME NEW d \in Callers, Holds(d) PROVE FALSE OBVIOUS
  <2>1. lock = [token |-> d, expired |-> FALSE] BY DEF HolderKeepsLock, Holds, Inside
  <2>4. lock \in [token : Callers, expired : BOOLEAN] BY <2>1
  <2>2. lock # Null BY <2>4, ClientAssumption, Zenon
  <2>3. ~lock.expired BY <2>1
  <2> QED BY <2>2, <2>3 DEF AcquirePipeLock, Free
<1>4. /\ \A d \in Callers \ {c} : requests'[d] = requests[d]
      /\ requests'[c].phase = "inside"
  BY <1>0, <1>1 DEF Loop
<1>5. HolderKeepsLock'
  BY <1>3, <1>4 DEF HolderKeepsLock, Holds, Inside, AcquirePipeLock
<1>6. BuilderHasNonce' BY <1>4 DEF BuilderHasNonce
<1>7. NoncesBelow' BY <1>3, <1>4 DEF NoncesBelow, Holds, Inside, AcquirePipeLock, Apart
<1>8. NoncesTakenOnce' BY DEF NoncesTakenOnce, AcquirePipeLock, Apart
<1> QED BY <1>2, <1>5, <1>6, <1>7, <1>8

\* Reading the row: the nonce that will be written is above all of the present epoch.
LEMMA ReadKeeps ==
    ASSUME ClientInv, NEW c \in Callers, GetPipeState(c)
    PROVE  ClientInv'
<1> USE DEF ClientInv
<1>0. requests \in [Callers -> Loop] /\ row \in Nat BY DEF ClientTypes
<1>1. /\ requests' = [requests EXCEPT ![c].phase = "building", ![c].nonce = row + 1]
      /\ requests[c].phase = "inside"
      /\ UNCHANGED <<row, lock, built, epoch, consumed, nodeNonce, fetched>>
  BY DEF GetPipeState, In, Apart
<1>9. "building" \in Phases /\ row + 1 \in Nat BY <1>0 DEF Phases
<1>3. /\ requests' \in [Callers -> Loop]
      /\ requests'[c].phase = "building" /\ requests'[c].nonce = row + 1
      /\ requests'[c].lapsed = requests[c].lapsed
      /\ \A d \in Callers \ {c} : requests'[d] = requests[d]
  BY <1>0, <1>1, <1>9, NonceStep
<1>2. ClientTypes' BY <1>1, <1>3 DEF ClientTypes
<1>4. HolderKeepsLock' BY <1>1, <1>3 DEF HolderKeepsLock
<1>5. BuilderHasNonce' BY <1>0, <1>3 DEF BuilderHasNonce
<1>6. \A b \in built : b.nonce \in Nat BY DEF ClientTypes
<1>7. NoncesBelow' BY <1>0, <1>1, <1>3, <1>6 DEF NoncesBelow, Holds, Inside
<1>8. NoncesTakenOnce' BY <1>1 DEF NoncesTakenOnce
<1> QED BY <1>2, <1>4, <1>5, <1>7, <1>8

\* Writing the row: under a valid lease the nonce is new in its epoch and no other caller
\* is about to write under one; otherwise a new epoch begins.
LEMMA WriteKeeps ==
    ASSUME ClientInv, NEW c \in Callers, SetPipeState(c)
    PROVE  ClientInv'
<1> USE DEF ClientInv
<1> DEFINE new == [by |-> c, nonce |-> requests[c].nonce, epoch |-> epoch]
<1>0. /\ requests \in [Callers -> Loop] /\ row \in Nat /\ epoch \in Nat
      /\ \A b \in built : b.nonce \in Nat /\ b.epoch \in Nat
  BY DEF ClientTypes
<1>1. /\ requests' = [requests EXCEPT ![c].phase = "leaving"]
      /\ requests[c].phase = "building"
      /\ row' = requests[c].nonce
      /\ UNCHANGED <<lock, consumed, nodeNonce, fetched>>
  BY DEF SetPipeState, In, Goto, Apart
<1>2. requests[c].nonce \in Nat BY <1>1 DEF BuilderHasNonce
<1>3. /\ \A d \in Callers \ {c} : requests'[d] = requests[d]
      /\ requests'[c].phase = "leaving"
      /\ requests'[c].lapsed = requests[c].lapsed
  BY <1>0, <1>1 DEF Loop
<1>4. requests' \in [Callers -> Loop] BY <1>0, <1>1 DEF Loop, Phases
<1>5. HolderKeepsLock' BY <1>1, <1>3 DEF HolderKeepsLock
<1>6. BuilderHasNonce' BY <1>3 DEF BuilderHasNonce
<1>7. CASE requests[c].lapsed
  <2>1. epoch' = epoch + 1 /\ built' = built BY <1>7 DEF SetPipeState
  <2>2. ClientTypes' BY <1>0, <1>1, <1>2, <1>4, <2>1 DEF ClientTypes
  <2>3. NoncesBelow' BY <1>0, <2>1 DEF NoncesBelow
  <2>4. NoncesTakenOnce' BY <2>1 DEF NoncesTakenOnce
  <2> QED BY <1>5, <1>6, <2>2, <2>3, <2>4
<1>8. CASE ~requests[c].lapsed
  <2>1. epoch' = epoch /\ built' = built \cup {new} BY <1>8 DEF SetPipeState
  <2>2. new \in [by : Callers, nonce : Nat, epoch : Nat] BY <1>0, <1>2
  <2>3. Holds(c) BY <1>1, <1>8 DEF Holds, Inside
  <2>4. \A b \in built : b.epoch = epoch => b.nonce < new.nonce
    BY <1>1, <2>3 DEF NoncesBelow
  <2>5. \A d \in Callers : ~(Holds(d)' /\ requests'[d].phase = "building")
    BY <1>3, <2>3, OneHolder DEF Holds
  <2>6. ClientTypes' BY <1>0, <1>1, <1>2, <1>4, <2>1, <2>2 DEF ClientTypes
  <2>7. NoncesBelow'
    <3> SUFFICES ASSUME NEW b \in built'
                 PROVE  /\ b.epoch <= epoch
                        /\ b.epoch = epoch => b.nonce <= requests[c].nonce
      BY <1>1, <2>1, <2>5 DEF NoncesBelow
    <3>1. CASE b \in built BY <1>0, <1>2, <2>4, <3>1 DEF NoncesBelow
    <3>2. CASE b = new BY <1>0, <1>2, <3>2
    <3> QED BY <2>1, <3>1, <3>2
  <2>8. NoncesTakenOnce'
    <3> SUFFICES ASSUME NEW a \in built', NEW b \in built',
                        a.nonce = b.nonce, a.epoch = b.epoch
                 PROVE  a = b
      BY DEF NoncesTakenOnce
    <3>1. CASE a \in built /\ b \in built BY <3>1 DEF NoncesTakenOnce
    <3>2. CASE a \in built /\ b = new BY <1>0, <1>2, <2>4, <3>2
    <3>3. CASE a = new /\ b \in built BY <1>0, <1>2, <2>4, <3>3
    <3> QED BY <2>1, <3>1, <3>2, <3>3
  <2> QED BY <1>5, <1>6, <2>6, <2>7, <2>8
<1> QED BY <1>7, <1>8

\* Giving the lock back takes it from nobody else; an ended lease and its removal concern
\* only the one whose lease it was.
LEMMA LockKeeps ==
    ASSUME ClientInv, (\E c \in Callers : ReleasePipeLock(c)) \/ LeaseEnds \/ Purge
    PROVE  ClientInv'
<1> USE DEF ClientInv
<1>0. /\ requests \in [Callers -> Loop]
      /\ lock = Null \/ lock \in [token : Callers, expired : BOOLEAN]
  BY DEF ClientTypes
<1>1. ASSUME NEW c \in Callers, ReleasePipeLock(c) PROVE ClientInv'
  <2>1. /\ requests' = [requests EXCEPT ![c].phase = "proved"]
        /\ lock' = IF lock # Null /\ lock.token = c THEN Null ELSE lock
        /\ UNCHANGED <<row, consumed, nodeNonce, built, epoch, fetched>>
    BY <1>1 DEF ReleasePipeLock, Released, Goto, Apart
  <2>2. ClientTypes' BY <1>0, <2>1 DEF ClientTypes, Loop, Phases
  <2>3. /\ \A d \in Callers \ {c} : requests'[d] = requests[d]
        /\ requests'[c].phase = "proved"
    BY <1>0, <2>1 DEF Loop
  <2>4. Quiet BY <2>1, <2>3 DEF Quiet, Inside
  <2>5. ASSUME NEW d \in Callers, requests'[d].phase \in Inside, ~requests'[d].lapsed
        PROVE  lock' = lock
    <3>1. d # c BY <2>3, <2>5 DEF Inside
    <3>2. lock = [token |-> d, expired |-> FALSE]
      BY <2>3, <2>5, <3>1 DEF HolderKeepsLock, Inside
    <3> QED BY <2>1, <3>1, <3>2
  <2> QED BY <2>2, <2>4, <2>5, QuietKeeps
<1>2. CASE LeaseEnds
  <2>1. /\ lock \in [token : Callers, expired : BOOLEAN]
        /\ lock' = [lock EXCEPT !.expired = TRUE]
        /\ requests' = [requests EXCEPT ![lock.token].lapsed = TRUE]
        /\ UNCHANGED <<row, consumed, nodeNonce, built, epoch, fetched>>
    BY <1>0, <1>2 DEF LeaseEnds, Apart
  <2>2. ClientTypes' BY <1>0, <2>1 DEF ClientTypes, Loop
  <2>3. /\ \A d \in Callers \ {lock.token} : requests'[d] = requests[d]
        /\ requests'[lock.token].lapsed = TRUE
        /\ requests'[lock.token].phase = requests[lock.token].phase
        /\ requests'[lock.token].nonce = requests[lock.token].nonce
    BY <1>0, <2>1 DEF Loop
  <2>4. Quiet BY <2>1, <2>3 DEF Quiet, Inside
  <2>5. \A d \in Callers : ~(requests'[d].phase \in Inside /\ ~requests'[d].lapsed)
    BY <2>1, <2>3 DEF HolderKeepsLock, Inside
  <2> QED BY <2>2, <2>4, <2>5, QuietKeeps
<1>3. CASE Purge
  <2>1. /\ lock # Null /\ lock.expired /\ lock' = Null
        /\ UNCHANGED <<requests, row, consumed, nodeNonce, built, epoch, fetched>>
    BY <1>3 DEF Purge, Apart
  <2>2. ClientTypes' BY <2>1 DEF ClientTypes
  <2>3. Quiet BY <2>1 DEF Quiet
  <2>4. \A d \in Callers : ~(requests'[d].phase \in Inside /\ ~requests'[d].lapsed)
    BY <2>1 DEF HolderKeepsLock, Inside
  <2> QED BY <2>2, <2>3, <2>4, QuietKeeps
<1> QED BY <1>1, <1>2, <1>3

\* The clock of used proofs and the synchronisation; what is stored from outside the lock
\* begins a new epoch.
LEMMA OutsideKeeps ==
    ASSUME ClientInv, (\E nonce \in consumed : Forget(nonce)) \/ GetPipeStatus \/ StoreStatus
    PROVE  ClientInv'
<1> USE DEF ClientInv
<1>1. CASE \E nonce \in consumed : Forget(nonce)
  <2>1. /\ UNCHANGED <<row, lock, requests, nodeNonce, built, epoch, fetched>>
        /\ consumed' \subseteq consumed
    BY <1>1 DEF Forget, Apart
  <2>2. ClientTypes' BY <2>1 DEF ClientTypes
  <2>3. Quiet BY <2>1 DEF Quiet
  <2> QED BY <2>1, <2>2, <2>3, QuietKeeps
<1>2. CASE GetPipeStatus
  <2>1. /\ UNCHANGED <<row, lock, consumed, requests, nodeNonce, built, epoch>>
        /\ fetched' \in Best(NodePipes)
    BY <1>2 DEF GetPipeStatus
  <2>2. NodePipes \subseteq Pipe BY ClientAssumption DEF NodePipes, Pipe, ClientTypes
  <2>3. ClientTypes' BY <2>1, <2>2 DEF ClientTypes, Best
  <2>4. Quiet BY <2>1 DEF Quiet
  <2> QED BY <2>1, <2>3, <2>4, QuietKeeps
<1>3. CASE StoreStatus
  <2>1. CASE fetched.token # "ours"
    <3>1. UNCHANGED <<row, lock, consumed, requests, nodeNonce, built, epoch>> /\ fetched' = Null
      BY <1>3, <2>1 DEF StoreStatus
    <3>2. ClientTypes' BY <3>1 DEF ClientTypes
    <3>3. Quiet BY <3>1 DEF Quiet
    <3> QED BY <3>1, <3>2, <3>3, QuietKeeps
  <2>2. CASE fetched.token = "ours"
    <3>1. /\ UNCHANGED <<lock, consumed, requests, nodeNonce, built>>
          /\ row' = fetched.nonce /\ epoch' = epoch + 1 /\ fetched # Null /\ fetched' = Null
      BY <1>3, <2>2 DEF StoreStatus
    <3>2. ClientTypes' BY <3>1 DEF ClientTypes, Pipe
    <3>3. HolderKeepsLock' /\ BuilderHasNonce' /\ NoncesTakenOnce'
      BY <3>1 DEF HolderKeepsLock, BuilderHasNonce, NoncesTakenOnce
    <3>4. epoch \in Nat /\ \A b \in built : b.epoch \in Nat BY DEF ClientTypes
    <3>5. NoncesBelow' BY <3>1, <3>4 DEF NoncesBelow
    <3> QED BY <3>2, <3>3, <3>5
  <2> QED BY <2>1, <2>2
<1> QED BY <1>1, <1>2, <1>3

\* X402Client and SqliteX402StateStore: the invariant holds with crashes, ended leases and
\* synchronisations.
THEOREM ClientInvariance == Spec => []ClientInv
<1>1. ClientInv /\ [Next]_vars => ClientInv'
  <2> SUFFICES ASSUME ClientInv, [Next]_vars PROVE ClientInv' OBVIOUS
  <2>1. CASE UNCHANGED vars
    BY <2>1 DEF vars, ClientInv, ClientTypes, HolderKeepsLock, BuilderHasNonce,
                NoncesBelow, Holds, NoncesTakenOnce
  <2>2. ASSUME NEW c \in Callers, Advance(c) \/ Crash(c) PROVE ClientInv'
    BY <2>2, LoopKeeps, AcquireKeeps, ReadKeeps, WriteKeeps, LockKeeps DEF Advance
  <2> QED BY <2>1, <2>2, LockKeeps, OutsideKeeps DEF Next
<1> QED BY ClientStarts, <1>1, PTL DEF Spec

\* acquirePipeLock, releasePipeLock: a valid lease is the row of pipe_locks, whatever the
\* other callers do.
THEOREM LeaseIsExclusive == Spec => []HolderKeepsLock
<1>1. ClientInv => HolderKeepsLock BY DEF ClientInv
<1> QED BY ClientInvariance, <1>1, PTL

\* getPipeState, setPipeState under the lock: callers with a valid lease take different
\* nonces, unless the row was written from outside a lease in between.
THEOREM NoncesDiffer == Spec => []NoncesTakenOnce
<1>1. ClientInv => NoncesTakenOnce BY DEF ClientInv
<1> QED BY ClientInvariance, <1>1, PTL
=================================================================================
