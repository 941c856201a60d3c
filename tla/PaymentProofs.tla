------------------------------ MODULE PaymentProofs -----------------------------
(***************************************************************************)
(* Proofs about CounterpartyService: for any number of concurrent          *)
(* requests, and with crashes anywhere, what the server acknowledged stays *)
(* stored, no nonce is signed twice and no state is taken under two keys.  *)
(*                                                                         *)
(* And about X402Gateway in front of it: nothing is served unpaid and a    *)
(* transfer pays for one route.                                            *)
(***************************************************************************)
EXTENDS X402Gateway, TLAPS

--------------------------------------------------------------------------------
(* The inductive invariant *)

\* States in answers: sent, recorded, or about to be.
Promised ==
    {s \in States :
        \/ \E a \in released : a.answer.state = s
        \/ \E k \in Slots : answers[k] # None /\ answers[k].state = s
        \/ \E r \in Requests : requests[r].phase = "stored" /\ requests[r].answer.state = s}

\* State s is the stored one or older.
Kept(s) == stored # None /\ (stored = s \/ stored.nonce > s.nonce)

AnswerReady == \A r \in Requests : requests[r].phase = "stored" => requests[r].answer \in Answer

IInv ==
    /\ TypeOK
    /\ AnswerReady
    /\ \A s \in Promised : Kept(s)
    /\ \A s, t \in Promised : s.nonce = t.nonce => s = t

\* The stored state is not replaced by an older one or by another of its nonce.
Advances ==
    \/ stored' = stored
    \/ stored' \in States /\ (stored = None \/ stored'.nonce > stored.nonce)

\* If every new promise is the stored state, promises stay kept and consistent.
LEMMA PromisesKept ==
    ASSUME IInv, Advances, Promised' \subseteq Promised \cup {stored'}, None \notin Promised'
    PROVE  /\ \A s \in Promised' : Kept(s)'
           /\ \A s, t \in Promised' : s.nonce = t.nonce => s = t
  <1>1. \A s \in States : s.nonce \in Nat
    BY StateAssumption
  <1>2. Promised \subseteq States /\ stored \in States \cup {None} /\ None \notin States
    BY StateAssumption DEF Promised, IInv, TypeOK
  <1>3. ASSUME NEW s \in Promised
        PROVE  stored' # None /\ (stored' = s \/ stored'.nonce > s.nonce)
    BY <1>1, <1>2, <1>3 DEF IInv, Kept, Advances
  <1>4. \A s \in Promised' : Kept(s)'
    BY <1>3, <1>2 DEF Kept
  <1>5. ASSUME NEW s \in Promised, s.nonce = stored'.nonce
        PROVE  s = stored'
    BY <1>1, <1>2, <1>3, <1>5
  <1>6. \A s, t \in Promised' : s.nonce = t.nonce => s = t
    BY <1>5 DEF IInv
  <1>7. QED
    BY <1>4, <1>6

\* A promised state is a state, so an absent row is not one.
LEMMA PromisedStates ==
    None \notin Promised'
  BY StateAssumption DEF Promised

--------------------------------------------------------------------------------
(* The steps *)

\* An answer that was recorded is sent once more.
LEMMA ReplayStep ==
    ASSUME IInv, NEW key \in Keys, NEW s \in States, Replay(key, s)
    PROVE  IInv'
  <1> DEFINE a == answers[Slot(s, key)]
  <1>1. Slot(s, key) \in Slots
    BY DEF Slot, Slots, Endpoint, Endpoints
  <1>2. a # None /\ a \in Answer
    BY <1>1 DEF Replay, IInv, TypeOK
  <1>3. released' = released \cup {[key |-> key, answer |-> a]}
        /\ UNCHANGED <<stored, observed, newer, answers, requests, writes>>
    BY DEF Replay
  <1>4. TypeOK'
    BY <1>2, <1>3 DEF IInv, TypeOK
  <1>5. AnswerReady'
    BY <1>3 DEF IInv, AnswerReady
  <1>6. Promised' \subseteq Promised
    BY <1>1, <1>2, <1>3 DEF Promised
  <1>7. Advances
    BY <1>3 DEF Advances
  <1>8. QED
    BY <1>4, <1>5, <1>6, <1>7, PromisesKept, PromisedStates DEF IInv

\* A request moves on to a phase that promises nothing yet, or ends without an answer.
LEMMA RequestStep ==
    ASSUME IInv, NEW r \in Requests, NEW q \in Request \cup {Idle}, q.phase # "stored",
           requests' = [requests EXCEPT ![r] = q], writes' \in 0..WriteLimit,
           UNCHANGED <<stored, observed, newer, answers, released>>
    PROVE  IInv'
  <1>1. TypeOK'
    BY DEF IInv, TypeOK
  <1>2. AnswerReady'
    BY DEF IInv, TypeOK, AnswerReady
  <1>3. Promised' \subseteq Promised
    BY DEF IInv, TypeOK, Promised
  <1>4. Advances
    BY DEF Advances
  <1>5. QED
    BY <1>1, <1>2, <1>3, <1>4, PromisesKept, PromisedStates DEF IInv

\* A request whose answer is ready is still a request.
LEMMA AnsweredRequest ==
    ASSUME NEW q \in Request, NEW a \in Answer
    PROVE  LET done == [q EXCEPT !.phase = "stored", !.answer = a]
           IN done \in Request /\ done.phase = "stored" /\ done.answer = a
  <1> DEFINE done == [q EXCEPT !.phase = "stored", !.answer = a]
  <1>1. "stored" \in Phases
    BY DEF Phases
  <1>2. done \in Request
    BY <1>1 DEF Request
  <1>3. done.phase = "stored"
    BY DEF Request
  <1>4. done.answer = a
    BY DEF Request
  <1>5. QED
    BY <1>2, <1>3, <1>4

\* The upsert: the promise it makes is the state it leaves in the store.
LEMMA StoreStep ==
    ASSUME IInv, NEW r \in Requests, Store(r)
    PROVE  IInv'
  <1> DEFINE s == requests[r].state
             answer == IF Upserts(s)
                       THEN [payload |-> s, status |-> 200, state |-> s]
                       ELSE [payload |-> s, status |-> 409, state |-> stored]
             q == [requests[r] EXCEPT !.phase = "stored", !.answer = answer]
  <1>1. requests[r] \in Request /\ s \in States
    BY DEF Store, IInv, TypeOK, Request, Idle
  <1>2. answer \in Answer /\ answer.state = stored'
    BY <1>1 DEF Store, Upserts, Answer, IInv, TypeOK
  <1>3. q \in Request /\ q.phase = "stored" /\ q.answer = answer
    <2> HIDE DEF answer
    <2> QED
      BY <1>1, <1>2, AnsweredRequest
  <1>4. requests' = [requests EXCEPT ![r] = q]
    BY <1>1 DEF Store, Request
  <1>5. UNCHANGED <<observed, answers, writes, released>> /\ stored' \in States
        /\ newer' \in {"onchain", "signature-state"}
    BY <1>1, <1>2 DEF Store, IInv, TypeOK, Answer
  <1>6. TypeOK'
    BY <1>3, <1>4, <1>5 DEF IInv, TypeOK
  <1>7. AnswerReady'
    BY <1>2, <1>3, <1>4 DEF IInv, TypeOK, AnswerReady
  <1>8. Promised' \subseteq Promised \cup {stored'}
    BY <1>2, <1>3, <1>4, <1>5 DEF IInv, TypeOK, Promised
  <1>9. Advances
    BY <1>1 DEF Store, Upserts, Advances
  <1>10. QED
    BY <1>6, <1>7, <1>8, <1>9, PromisesKept, PromisedStates DEF IInv

\* The answer: a promise already made is recorded and sent.
LEMMA RespondStep ==
    ASSUME IInv, NEW r \in Requests, Respond(r)
    PROVE  IInv'
  <1> DEFINE q == requests[r]
             k == Slot(q.state, q.key)
  <1>1. q \in Request /\ q.phase = "stored" /\ q.answer \in Answer
    BY DEF Respond, IInv, TypeOK, AnswerReady, Idle
  <1>2. k \in Slots /\ q.key \in Keys
    BY <1>1 DEF Request, Slot, Slots, Endpoint, Endpoints
  <1>3. answers' = [answers EXCEPT ![k] = Record(answers[k], q.answer)]
        /\ released' = released \cup {[key |-> q.key, answer |-> q.answer]}
        /\ requests' = [requests EXCEPT ![r] = Idle]
        /\ UNCHANGED <<stored, observed, newer, writes>>
    BY DEF Respond, End
  <1>4. Record(answers[k], q.answer) \in {answers[k], q.answer}
    BY DEF Record
  <1>5. TypeOK'
    BY <1>1, <1>2, <1>3, <1>4 DEF IInv, TypeOK
  <1>6. AnswerReady'
    BY <1>3 DEF IInv, TypeOK, AnswerReady, Idle
  <1>7. q.answer.state \in Promised
    BY <1>1 DEF Promised, Answer
  <1>8. Promised' \subseteq Promised
    <2> SUFFICES ASSUME NEW s \in States, s \in Promised' PROVE s \in Promised
      BY DEF Promised
    <2>1. CASE \E a \in released' : a.answer.state = s
      BY <1>3, <1>7, <2>1 DEF Promised
    <2>2. CASE \E j \in Slots : answers'[j] # None /\ answers'[j].state = s
      BY <1>2, <1>3, <1>4, <1>7, <2>2 DEF Promised, IInv, TypeOK
    <2>3. CASE \E i \in Requests : requests'[i].phase = "stored" /\ requests'[i].answer.state = s
      BY <1>3, <2>3 DEF Promised, Idle, IInv, TypeOK
    <2>4. QED
      BY <2>1, <2>2, <2>3 DEF Promised
  <1>9. Advances
    BY <1>3 DEF Advances
  <1>10. QED
    BY <1>5, <1>6, <1>8, <1>9, PromisesKept, PromisedStates DEF IInv

\* Everything else makes no promise and takes none back from the store.
LEMMA WorldStep ==
    ASSUME IInv,
           \/ \E o \in Observations : Observe(o)
           \/ \E k \in Slots : Prune(k)
           \/ NewWindow
           \/ Restart
           \/ UNCHANGED vars
    PROVE  IInv'
  <1>1. stored' = stored /\ released' = released
    BY DEF Observe, Prune, NewWindow, Restart, vars
  <1>2. requests' = requests \/ requests' = [r \in Requests |-> Idle]
    BY DEF Observe, Prune, NewWindow, Restart, vars
  <1>3. answers' = answers \/ \E k \in Slots : answers' = [answers EXCEPT ![k] = None]
    BY DEF Observe, Prune, NewWindow, Restart, vars
  <1>4. newer' \in {"onchain", "signature-state"} /\ writes' \in 0..WriteLimit
        /\ observed' \in Observations \cup {None}
    BY StateAssumption DEF Observe, Prune, NewWindow, Restart, vars, IInv, TypeOK
  <1>5. TypeOK'
    BY <1>1, <1>2, <1>3, <1>4 DEF IInv, TypeOK
  <1>6. AnswerReady'
    BY <1>2 DEF IInv, AnswerReady, Idle
  <1>7. Promised' \subseteq Promised
    BY <1>1, <1>2, <1>3 DEF Promised, Idle, IInv, TypeOK
  <1>8. Advances
    BY <1>1 DEF Advances
  <1>9. QED
    BY <1>5, <1>6, <1>7, <1>8, PromisesKept, PromisedStates DEF IInv

\* A step of a request in service.
LEMMA ServeStep ==
    ASSUME IInv, NEW r \in Requests, Serve(r)
    PROVE  IInv'
  <1>1. ASSUME NEW key \in Keys, NEW s \in States, Accept(r, key, s) PROVE IInv'
    <2> DEFINE q == [phase |-> "accepted", key |-> key, state |-> s, answer |-> None]
    <2>1. q \in Request /\ q.phase # "stored"
      BY DEF Request, Phases
    <2>2. writes' \in 0..WriteLimit
      BY <1>1, StateAssumption DEF Accept, IInv, TypeOK
    <2>3. QED
      BY <1>1, <2>1, <2>2, RequestStep DEF Accept
  <1>2. ASSUME Check(r) \/ Verify(r) \/ Sign(r) PROVE IInv'
    <2>1. requests[r] \in Request
      BY <1>2 DEF Check, Verify, Sign, IInv, TypeOK, Idle
    <2>2. ASSUME NEW phase \in Phases \ {"stored"} PROVE
              /\ [requests[r] EXCEPT !.phase = phase] \in Request
              /\ [requests[r] EXCEPT !.phase = phase].phase # "stored"
      BY <2>1 DEF Request
    <2>3. Idle.phase # "stored"
      BY DEF Idle
    <2>4. \/ \E phase \in Phases \ {"stored"} :
                 requests' = [requests EXCEPT ![r] = [requests[r] EXCEPT !.phase = phase]]
          \/ requests' = [requests EXCEPT ![r] = Idle]
      BY <1>2 DEF Check, Verify, Sign, MoveTo, End, Phases
    <2>5. writes' \in 0..WriteLimit /\ UNCHANGED <<stored, observed, newer, answers, released>>
      BY <1>2 DEF Check, Verify, Sign, IInv, TypeOK
    <2>6. CASE requests' = [requests EXCEPT ![r] = Idle]
      BY <2>3, <2>5, <2>6, RequestStep
    <2>7. ASSUME NEW phase \in Phases \ {"stored"},
                 requests' = [requests EXCEPT ![r] = [requests[r] EXCEPT !.phase = phase]]
          PROVE  IInv'
      BY <2>2, <2>5, <2>7, RequestStep
    <2>8. QED
      BY <2>4, <2>6, <2>7
  <1>3. QED
    BY <1>1, <1>2, StoreStep, RespondStep DEF Serve

--------------------------------------------------------------------------------
(* Under which key a state was taken *)

\* State s was accepted, with status 200, in answer to a request under this key: the
\* answer was sent, is recorded, or is about to be.
Taken(key, s) ==
    \/ \E a \in released : a.key = key /\ a.answer.status = 200 /\ a.answer.state = s
    \/ \E k \in Slots : /\ k[2] = key /\ answers[k] # None
                       /\ answers[k].status = 200 /\ answers[k].state = s
    \/ \E r \in Requests : /\ requests[r].phase = "stored" /\ requests[r].key = key
                          /\ requests[r].answer.status = 200 /\ requests[r].answer.state = s

\* An answer is to the payload of its request, and an accepting one says that payload.
AnswersFit ==
    /\ \A k \in Slots : answers[k] # None /\ answers[k].status = 200
                          => answers[k].state = answers[k].payload
    /\ \A r \in Requests : requests[r].phase = "stored" =>
          /\ requests[r].answer.payload = requests[r].state
          /\ requests[r].answer.status = 200 => requests[r].answer.state = requests[r].state

TakenOnce ==
    \A h, k \in Keys, s \in States : Taken(h, s) /\ Taken(k, s) => h = k

KeyInv == AnswersFit /\ TakenOnce

\* A step that takes no state leaves the keys alone.
LEMMA NothingTaken ==
    ASSUME TakenOnce, \A key \in Keys, s \in States : Taken(key, s)' => Taken(key, s)
    PROVE  TakenOnce'
  BY DEF TakenOnce

\* A state that was taken is the stored one or older, so the upsert refuses it.
LEMMA TakenIsKept ==
    ASSUME IInv, NEW key \in Keys, NEW s \in States, Taken(key, s)
    PROVE  ~Upserts(s)
  <1>1. s \in Promised
    BY DEF Taken, Promised
  <1>2. stored # None /\ (stored = s \/ stored.nonce > s.nonce)
    BY <1>1 DEF IInv, Kept
  <1>3. stored.nonce \in Nat /\ s.nonce \in Nat
    BY <1>2, StateAssumption DEF IInv, TypeOK
  <1>4. QED
    BY <1>2, <1>3 DEF Upserts

\* A request moves on to another phase than "stored", or ends: nothing is taken.
LEMMA KeyRequestStep ==
    ASSUME IInv, KeyInv, NEW r \in Requests, NEW q, q.phase # "stored",
           requests' = [requests EXCEPT ![r] = q], UNCHANGED <<answers, released>>
    PROVE  KeyInv'
  <1>1. \A i \in Requests : requests'[i].phase = "stored" => requests'[i] = requests[i]
    BY DEF IInv, TypeOK
  <1>2. AnswersFit'
    BY <1>1 DEF KeyInv, AnswersFit
  <1>3. \A key \in Keys, s \in States : Taken(key, s)' => Taken(key, s)
    BY <1>1 DEF Taken
  <1>4. QED
    BY <1>2, <1>3, NothingTaken DEF KeyInv

\* The upsert takes the state only if it replaces the stored one.
LEMMA KeyStoreStep ==
    ASSUME IInv, KeyInv, NEW r \in Requests, Store(r)
    PROVE  KeyInv'
  <1> DEFINE s == requests[r].state
             answer == IF Upserts(s)
                       THEN [payload |-> s, status |-> 200, state |-> s]
                       ELSE [payload |-> s, status |-> 409, state |-> stored]
             q == [requests[r] EXCEPT !.phase = "stored", !.answer = answer]
  <1>1. requests[r] \in Request /\ s \in States
    BY DEF Store, IInv, TypeOK, Request, Idle
  <1>2. q.phase = "stored" /\ q.answer = answer /\ q.state = s /\ q.key = requests[r].key
    <2> HIDE DEF answer
    <2> QED
      BY <1>1 DEF Request
  <1>3. requests' = [requests EXCEPT ![r] = q] /\ UNCHANGED <<answers, released>>
    BY <1>1 DEF Store, Request
  <1>4. /\ answer.payload = s /\ (answer.status = 200 <=> Upserts(s))
        /\ answer.status = 200 => answer.state = s
    OBVIOUS
  <1> HIDE DEF answer, q
  <1>5. \A i \in Requests : requests'[i] = IF i = r THEN q ELSE requests[i]
    BY <1>3 DEF IInv, TypeOK
  <1>6. AnswersFit'
    BY <1>2, <1>3, <1>4, <1>5 DEF KeyInv, AnswersFit
  <1>7. \A key \in Keys, t \in States :
            Taken(key, t)' => Taken(key, t) \/ (t = s /\ key = requests[r].key /\ Upserts(s))
    BY <1>2, <1>3, <1>4, <1>5 DEF Taken
  <1>8. \A key \in Keys : Upserts(s) => ~Taken(key, s)
    BY <1>1, TakenIsKept
  <1>9. TakenOnce'
    BY <1>7, <1>8 DEF KeyInv, TakenOnce
  <1>10. QED
    BY <1>6, <1>9 DEF KeyInv

\* The answer is recorded and sent under the key of its request.
LEMMA KeyRespondStep ==
    ASSUME IInv, KeyInv, NEW r \in Requests, Respond(r)
    PROVE  KeyInv'
  <1> DEFINE q == requests[r]
             k == Slot(q.state, q.key)
  <1>1. q \in Request /\ q.phase = "stored" /\ q.answer \in Answer
    BY DEF Respond, IInv, TypeOK, AnswerReady, Idle
  <1>2. k \in Slots /\ k[2] = q.key
    BY <1>1 DEF Request, Slot, Slots, Endpoint, Endpoints
  <1>3. answers' = [answers EXCEPT ![k] = Record(answers[k], q.answer)]
        /\ released' = released \cup {[key |-> q.key, answer |-> q.answer]}
        /\ requests' = [requests EXCEPT ![r] = Idle]
    BY DEF Respond, End
  <1>4. \A j \in Slots : answers'[j] = answers[j] \/ (j = k /\ answers'[j] = q.answer)
    BY <1>2, <1>3 DEF IInv, TypeOK, Record
  <1>5. \A i \in Requests : requests'[i].phase = "stored" => requests'[i] = requests[i]
    BY <1>3 DEF IInv, TypeOK, Idle
  <1>6. AnswersFit'
    BY <1>1, <1>4, <1>5 DEF KeyInv, AnswersFit
  <1>7. ASSUME NEW key \in Keys, NEW s \in States, Taken(key, s)' PROVE Taken(key, s)
    <2>1. CASE \E a \in released' : a.key = key /\ a.answer.status = 200 /\ a.answer.state = s
      BY <1>1, <1>3, <2>1 DEF Taken
    <2>2. CASE \E j \in Slots : /\ j[2] = key /\ answers'[j] # None
                               /\ answers'[j].status = 200 /\ answers'[j].state = s
      BY <1>1, <1>2, <1>4, <2>2 DEF Taken
    <2>3. CASE \E i \in Requests :
                 /\ requests'[i].phase = "stored" /\ requests'[i].key = key
                 /\ requests'[i].answer.status = 200 /\ requests'[i].answer.state = s
      BY <1>5, <2>3 DEF Taken
    <2>4. QED
      BY <1>7, <2>1, <2>2, <2>3 DEF Taken
  <1>8. QED
    BY <1>6, <1>7, NothingTaken DEF KeyInv

\* A recorded answer is sent again under its own key.
LEMMA KeyReplayStep ==
    ASSUME IInv, KeyInv, NEW key \in Keys, NEW s \in States, Replay(key, s)
    PROVE  KeyInv'
  <1>1. Slot(s, key) \in Slots /\ Slot(s, key)[2] = key
    BY DEF Slot, Slots, Endpoint, Endpoints
  <1>2. AnswersFit'
    BY DEF Replay, KeyInv, AnswersFit
  <1>3. \A k \in Keys, t \in States : Taken(k, t)' => Taken(k, t)
    BY <1>1 DEF Replay, Taken
  <1>4. QED
    BY <1>2, <1>3, NothingTaken DEF KeyInv

\* Every step of the service keeps the keys.
LEMMA KeyStep ==
    ASSUME IInv, KeyInv, [Next]_vars
    PROVE  KeyInv'
  <1>1. ASSUME NEW r \in Requests, NEW key \in Keys, NEW s \in States, Accept(r, key, s)
        PROVE  KeyInv'
    <2> DEFINE q == [phase |-> "accepted", key |-> key, state |-> s, answer |-> None]
    <2>1. q.phase # "stored" /\ requests' = [requests EXCEPT ![r] = q]
          /\ UNCHANGED <<answers, released>>
      BY <1>1 DEF Accept
    <2>2. QED
      BY <2>1, KeyRequestStep
  <1>2. ASSUME NEW r \in Requests, Check(r) \/ Verify(r) \/ Sign(r) PROVE KeyInv'
    <2>1. requests[r] \in Request
      BY <1>2 DEF Check, Verify, Sign, IInv, TypeOK, Idle
    <2>2. \E q : q.phase # "stored" /\ requests' = [requests EXCEPT ![r] = q]
      <3>1. \/ \E phase \in Phases \ {"stored"} :
                  requests' = [requests EXCEPT ![r] = [requests[r] EXCEPT !.phase = phase]]
            \/ requests' = [requests EXCEPT ![r] = Idle]
        BY <1>2 DEF Check, Verify, Sign, MoveTo, End, Phases
      <3>2. \A phase \in Phases : [requests[r] EXCEPT !.phase = phase].phase = phase
        BY <2>1 DEF Request
      <3>3. Idle.phase # "stored"
        BY DEF Idle
      <3>4. QED
        BY <3>1, <3>2, <3>3
    <2>3. UNCHANGED <<answers, released>>
      BY <1>2 DEF Check, Verify, Sign
    <2>4. QED
      BY <2>2, <2>3, KeyRequestStep
  <1>3. ASSUME \/ \E o \in Observations : Observe(o)
               \/ \E k \in Slots : Prune(k)
               \/ NewWindow
               \/ Restart
               \/ UNCHANGED vars
        PROVE  KeyInv'
    <2>1. released' = released
      BY <1>3 DEF Observe, Prune, NewWindow, Restart, vars
    <2>2. \A r \in Requests : requests'[r].phase = "stored" => requests'[r] = requests[r]
      BY <1>3 DEF Observe, Prune, NewWindow, Restart, vars, Idle
    <2>3. \A k \in Slots : answers'[k] = answers[k] \/ answers'[k] = None
      BY <1>3 DEF Observe, Prune, NewWindow, Restart, vars, IInv, TypeOK
    <2>4. AnswersFit'
      BY <2>2, <2>3 DEF KeyInv, AnswersFit
    <2>5. \A key \in Keys, s \in States : Taken(key, s)' => Taken(key, s)
      BY <2>1, <2>2, <2>3 DEF Taken
    <2>6. QED
      BY <2>4, <2>5, NothingTaken DEF KeyInv
  <1>4. QED
    BY <1>1, <1>2, <1>3, KeyStoreStep, KeyRespondStep, KeyReplayStep DEF Next, Serve

\* A server starts with no promise, and no step breaks one.
LEMMA InitService ==
    ASSUME Init PROVE IInv /\ KeyInv
  <1>1. TypeOK /\ AnswerReady
    BY StateAssumption DEF Init, TypeOK, AnswerReady, Idle
  <1>2. Promised = {}
    BY DEF Init, Promised, Idle
  <1>3. KeyInv
    BY DEF Init, KeyInv, AnswersFit, TakenOnce, Taken, Idle
  <1>4. QED
    BY <1>1, <1>2, <1>3 DEF IInv

\* ... nor takes a state twice.
LEMMA ServiceStep ==
    ASSUME IInv, KeyInv, [Next]_vars PROVE IInv' /\ KeyInv'
  BY ServeStep, ReplayStep, WorldStep, KeyStep DEF Next

\* What the server promised stays consistent and stored.
THEOREM Invariance == Spec => [](IInv /\ KeyInv)
  <1>1. Init => IInv /\ KeyInv
    BY InitService
  <1>2. IInv /\ KeyInv /\ [Next]_vars => IInv' /\ KeyInv'
    BY ServiceStep
  <1>3. QED
    BY <1>1, <1>2, PTL DEF Spec

\* Types of the store's rows and of the requests in service.
THEOREM TypeCorrect == Spec => []TypeOK
  BY Invariance, PTL DEF IInv

\* No two different states of one nonce leave the server with its signature.
THEOREM NoNonceSignedTwice == Spec => []NoEquivocation
  <1>1. IInv => NoEquivocation
    BY DEF IInv, NoEquivocation, Released, Promised, TypeOK, Answer
  <1>2. QED
    BY <1>1, Invariance, PTL

\* A state the server acknowledged is stored until a newer one replaces it.
THEOREM AcknowledgedStaysStored == Spec => []AcknowledgedKept
  <1>1. IInv => AcknowledgedKept
    BY DEF IInv, AcknowledgedKept, Released, Promised, Kept, TypeOK, Answer
  <1>2. QED
    BY <1>1, Invariance, PTL

\* The recorded answer of a key is replaced by no other: a racing request's answer is
\* dropped, and only the end of its retention takes a record away.
THEOREM RecordsStay == Spec => AnswersStay
  <1>1. IInv /\ [Next]_vars
            => [\A k \in Slots : answers[k] # None => answers'[k] \in {answers[k], None}]_vars
    <2> SUFFICES ASSUME IInv, [Next]_vars, NEW k \in Slots, answers[k] # None
                 PROVE  answers'[k] \in {answers[k], None}
      OBVIOUS
    <2>1. CASE \E r \in Requests : Respond(r)
      <3>1. PICK r \in Requests : Respond(r)
        BY <2>1
      <3> DEFINE j == Slot(requests[r].state, requests[r].key)
      <3>2. /\ answers \in [Slots -> Answer \cup {None}]
            /\ answers' = [answers EXCEPT ![j] = Record(answers[j], requests[r].answer)]
        BY <3>1 DEF Respond, IInv, TypeOK
      <3>3. CASE j = k
        BY <3>2, <3>3 DEF Record
      <3>4. CASE j # k
        BY <3>2, <3>4
      <3>5. QED
        BY <3>3, <3>4
    <2>2. CASE \E j \in Slots : Prune(j)
      BY <2>2 DEF Prune, IInv, TypeOK
    <2>3. CASE UNCHANGED answers
      BY <2>3
    <2>4. \/ \E r \in Requests : Respond(r)
          \/ \E j \in Slots : Prune(j)
          \/ UNCHANGED answers
      BY DEF Next, Serve, Accept, Check, Verify, Sign, Store, Replay, Observe, NewWindow,
             Restart, vars
    <2>5. QED
      BY <2>1, <2>2, <2>3, <2>4
  <1>2. Spec => [][\A k \in Slots : answers[k] # None => answers'[k] \in {answers[k], None}]_vars
    BY <1>1, Invariance, PTL DEF Spec
  <1>3. QED
    BY <1>2 DEF AnswersStay


--------------------------------------------------------------------------------
(* The gateway in front of the service *)

\* A call is over, or it carries a proof, and what its phase says of the node is true:
\* the node works on the very request it waits for, and what is proxied is paid.
Resting == [phase : {"idle"} \cup Answers]
Working == [phase : {"paying", "waiting", "polling", "revealing", "proxying"},
            route : Routes, proof : Proofs, request : Requests \cup {None}]

Awaits(g) ==
    LET q == requests[calls[g].request]
    IN /\ calls[g].request \in Requests
       /\ q # Idle /\ q.key = HashOf(g) /\ q.state = calls[g].proof.state

InOrder(g) ==
    /\ calls[g].phase \in {"paying", "waiting"} => Direct(HashOf(g))
    /\ calls[g].phase \in {"polling", "revealing"} => ~Direct(HashOf(g))
    /\ calls[g].phase = "waiting" => Awaits(g)
    /\ calls[g].phase = "revealing" => forwarding[calls[g].proof.payment] = "completed"
    /\ calls[g].phase = "proxying" => Paid(HashOf(g))

Fits(g) == calls[g] \in Resting \/ (calls[g] \in Working /\ InOrder(g))

CallsFit == DOMAIN calls = Calls /\ \A g \in Calls : Fits(g)

GatewayInv ==
    /\ CallsFit
    /\ served \subseteq Hashes
    /\ forwarding \in [Payments -> {"absent", "completed", "failed"}]
    /\ ServedWasPaid

GInv == IInv /\ KeyInv /\ GatewayInv

\* A working call has a key of its own, and a direct proof names a transfer.
LEMMA ProofsNameStates ==
    ASSUME NEW g \in Calls, calls[g] \in Working
    PROVE  /\ HashOf(g) \in Hashes /\ HashOf(g) \in Keys
           /\ HashOf(g)[2] = calls[g].proof
           /\ Direct(HashOf(g)) => calls[g].proof.state \in States
           /\ ~Direct(HashOf(g)) => calls[g].proof.payment \in Payments
  <1>1. calls[g].route \in Routes /\ calls[g].proof \in Proofs
    BY DEF Working
  <1>2. HashOf(g) = <<calls[g].route, calls[g].proof>>
    BY DEF HashOf, ProofHash
  <1>3. calls[g].proof \in DirectProofs \/ calls[g].proof \in IndirectProofs
    BY <1>1, GatewayAssumption
  <1>4. QED
    BY <1>1, <1>2, <1>3, GatewayAssumption DEF Hashes, Direct, DirectProofs, IndirectProofs

\* Whatever the gateway does, its node takes a step of the service or none.
LEMMA GatewayRunsNode ==
    ASSUME GInv, [GatewayNext]_allVars
    PROVE  [Next]_vars
  <1>1. ASSUME NEW g \in Calls, NodeReplays(g) \/ \E r \in Requests : NodeTakes(g, r)
        PROVE  Next
    <2>1. calls[g] \in Working /\ Direct(HashOf(g))
      BY <1>1 DEF NodeReplays, NodeTakes, Paying, GInv, GatewayInv, CallsFit, Fits, InOrder, Resting,
                  Answers
    <2>2. HashOf(g) \in Keys /\ calls[g].proof.state \in States
      BY <2>1, ProofsNameStates
    <2>3. QED
      BY <1>1, <2>2 DEF NodeReplays, NodeTakes, Next, Serve
  <1>2. ASSUME NEW r \in Requests, NodeWorks(r) PROVE Next
    BY <1>2 DEF NodeWorks, Next, Serve
  <1>3. ASSUME NodeRestart \/ NodeAlone PROVE Next
    BY <1>3 DEF NodeRestart, NodeAlone, Next
  <1>4. ASSUME NEW g \in Calls,
               \/ NodeRefuses(g) \/ GiveUp(g) \/ PaymentFound(g) \/ RevealSecret(g)
               \/ Proxied(g) \/ UpstreamFails(g) \/ Delivered(g)
        PROVE  UNCHANGED vars
    BY <1>4 DEF NodeRefuses, GiveUp, PaymentFound, RevealSecret, Proxied, UpstreamFails,
                Delivered
  <1>5. ASSUME \/ \E g \in Calls, route \in Routes, x \in Proofs \cup {None} :
                     Arrive(g, route, x)
               \/ \E h \in Hashes : Expire(h)
               \/ \E p \in Payments : Forward(p)
               \/ GatewayRestart
               \/ UNCHANGED allVars
        PROVE  UNCHANGED vars
    BY <1>5 DEF Arrive, Expire, Forward, GatewayRestart, allVars
  <1>6. QED
    BY <1>1, <1>2, <1>3, <1>4, <1>5 DEF GatewayNext, Handle

\* What was paid stays paid: answers are not taken back, nor secrets, nor payments.
Stays ==
    /\ released \subseteq released' /\ revealed \subseteq revealed'
    /\ \A p \in Payments : forwarding[p] = "completed" => forwarding'[p] = "completed"

\* A paid proof stays paid while answers and completed payments stay.
LEMMA PaidStays ==
    ASSUME Stays, NEW h \in Hashes, Paid(h)
    PROVE  Paid(h)'
  <1>1. CASE Direct(h)
    BY <1>1 DEF Paid, Direct, Stays
  <1>2. CASE ~Direct(h)
    <2>1. h[2] \in IndirectProofs
      BY <1>2, GatewayAssumption DEF Direct, Hashes, DirectProofs
    <2>2. QED
      BY <1>2, <2>1 DEF Paid, Direct, Stays, IndirectProofs
  <1>3. QED
    BY <1>1, <1>2

\* No step of gateway or node takes an answer, a secret or a payment back.
LEMMA NothingTakenBack ==
    ASSUME GInv, [GatewayNext]_allVars
    PROVE  /\ Stays
           /\ forwarding' \in [Payments -> {"absent", "completed", "failed"}]
  <1>1. released \subseteq released'
    <2>1. [Next]_vars
      BY GatewayRunsNode
    <2>2. QED
      BY <2>1 DEF Next, Serve, Accept, Check, Verify, Sign, Store, Respond, Replay, Observe,
                  Prune, NewWindow, Restart, vars
  <1>2. revealed \subseteq revealed'
        /\ (UNCHANGED forwarding \/ \E p \in Payments : Forward(p))
    <2>1. CASE GatewayRestart \/ NodeRestart \/ NodeAlone \/ UNCHANGED allVars
      BY <2>1 DEF GatewayRestart, NodeRestart, NodeAlone, Elsewhere, gatewayVars, allVars
    <2>2. CASE \E g \in Calls : Handle(g) \/ Delivered(g)
      BY <2>2 DEF Handle, Delivered, NodeReplays, NodeTakes, NodeRefuses, GiveUp,
                  PaymentFound, RevealSecret, Proxied, UpstreamFails, Elsewhere
    <2>3. CASE \/ \E g \in Calls, route \in Routes, x \in Proofs \cup {None} :
                     Arrive(g, route, x)
               \/ \E r \in Requests : NodeWorks(r)
               \/ \E h \in Hashes : Expire(h)
               \/ \E p \in Payments : Forward(p)
      BY <2>3 DEF Arrive, NodeWorks, Expire, Forward, Elsewhere
    <2>4. QED
      BY <2>1, <2>2, <2>3 DEF GatewayNext
  <1>3. forwarding' \in [Payments -> {"absent", "completed", "failed"}]
        /\ \A p \in Payments : forwarding[p] = "completed" => forwarding'[p] = "completed"
    BY <1>2 DEF Forward, GInv, GatewayInv
  <1>4. QED
    BY <1>1, <1>2, <1>3 DEF Stays

\* How a call's record changes.
LEMMA CallMoves ==
    ASSUME NEW c \in Working, NEW phase,
           phase \in {"paying", "waiting", "polling", "revealing", "proxying"}
    PROVE  /\ [c EXCEPT !.phase = phase] \in Working
           /\ [c EXCEPT !.phase = phase].phase = phase
           /\ [c EXCEPT !.phase = phase].route = c.route
           /\ [c EXCEPT !.phase = phase].proof = c.proof
  BY DEF Working

\* ... when it starts or stops waiting for a request.
LEMMA CallWaits ==
    ASSUME NEW c \in Working, NEW phase \in {"waiting", "proxying"},
           NEW r \in Requests \cup {None}
    PROVE  /\ Waits(c, phase, r) \in Working
           /\ Waits(c, phase, r).phase = phase /\ Waits(c, phase, r).request = r
           /\ Waits(c, phase, r).route = c.route /\ Waits(c, phase, r).proof = c.proof
  BY DEF Working, Waits

\* A call that a step leaves alone still fits if the request it waits for goes on.
LEMMA Undisturbed ==
    ASSUME GInv, Stays, NEW g \in Calls, calls'[g] = calls[g],
           calls[g].phase = "waiting" => Awaits(g)'
    PROVE  Fits(g)'
  <1>1. HashOf(g)' = HashOf(g)
    BY DEF HashOf
  <1>2. CASE calls[g] \in Resting
    BY <1>2 DEF Fits
  <1>3. CASE calls[g] \in Working /\ InOrder(g)
    <2>1. HashOf(g) \in Hashes /\ HashOf(g)[2] = calls[g].proof
          /\ (~Direct(HashOf(g)) => calls[g].proof.payment \in Payments)
      BY <1>3, ProofsNameStates
    <2>2. Direct(HashOf(g))' <=> Direct(HashOf(g))
      BY <1>1 DEF Direct
    <2>3. calls[g].phase = "proxying" => Paid(HashOf(g))'
      <3>1. SUFFICES ASSUME calls[g].phase = "proxying" PROVE Paid(HashOf(g))'
        OBVIOUS
      <3>2. PICK h \in Hashes : h = HashOf(g)
        BY <2>1
      <3>3. Paid(h)'
        BY <1>3, <3>1, <3>2, PaidStays DEF InOrder
      <3>4. QED
        BY <1>1, <3>2, <3>3 DEF Paid, Direct
    <2>4. calls[g].phase = "revealing" => forwarding'[calls[g].proof.payment] = "completed"
      BY <1>3, <2>1 DEF InOrder, Stays
    <2>5. InOrder(g)'
      BY <1>3, <2>2, <2>3, <2>4 DEF InOrder
    <2>6. QED
      BY <1>3, <2>5 DEF Fits
  <1>4. QED
    BY <1>2, <1>3 DEF GInv, GatewayInv, CallsFit, Fits

\* A call that waits for a request goes on waiting while the request is in service.
LEMMA StillAwaits ==
    ASSUME GInv, NEW g \in Calls, calls'[g] = calls[g], calls[g].phase = "waiting",
           LET r == calls[g].request
           IN  requests[r] # Idle => /\ requests'[r] # Idle
                                     /\ requests'[r].key = requests[r].key
                                     /\ requests'[r].state = requests[r].state
    PROVE  Awaits(g)'
  <1>1. Awaits(g)
    BY DEF GInv, GatewayInv, CallsFit, Fits, InOrder, Resting, Answers
  <1>2. HashOf(g)' = HashOf(g)
    BY DEF HashOf
  <1>3. QED
    BY <1>1, <1>2 DEF Awaits, Idle

\* Only one call moves, and no request ends that another call waits for.
LEMMA OneCallMoves ==
    ASSUME GInv, Stays, NEW g \in Calls, NEW c, calls' = [calls EXCEPT ![g] = c], Fits(g)',
           \A r \in Requests : requests[r] # Idle => requests'[r] = requests[r]
    PROVE  CallsFit'
  <1>1. DOMAIN calls' = Calls
    BY DEF GInv, GatewayInv, CallsFit
  <1>2. ASSUME NEW i \in Calls, i # g PROVE Fits(i)'
    <2>1. calls'[i] = calls[i]
      BY <1>2 DEF GInv, GatewayInv, CallsFit
    <2>2. ASSUME calls[i].phase = "waiting" PROVE Awaits(i)'
      <3>1. calls[i].request \in Requests
        BY <2>2 DEF GInv, GatewayInv, CallsFit, Fits, InOrder, Resting, Answers, Awaits
      <3>2. QED
        BY <2>1, <2>2, <3>1, StillAwaits
    <2>3. QED
      BY <2>1, <2>2, Undisturbed
  <1>3. QED
    BY <1>1, <1>2 DEF CallsFit

\* A call that ends, or comes to rest, fits.
LEMMA RestingFits ==
    ASSUME NEW g \in Calls, calls'[g] \in Resting
    PROVE  Fits(g)'
  BY DEF Fits

\* An answered request waits for nothing, and one at work is not answered.
LEMMA AnswersRest ==
    /\ NoCall \in Resting
    /\ \A status \in Answers : Answered(status) \in Resting
    /\ \A g : calls[g] \in Working => calls[g] \notin Resting /\ calls[g].phase # "idle"
  BY DEF Resting, NoCall, Answered, Answers, Working

\* What was served stays paid.
LEMMA ServedStaysPaid ==
    ASSUME GInv, Stays, served' = served
    PROVE  served' \subseteq Hashes /\ ServedWasPaid'
  <1>1. served \subseteq Hashes
    BY DEF GInv, GatewayInv
  <1>2. ASSUME NEW h \in served' PROVE Paid(h)'
    BY <1>1, <1>2, PaidStays DEF GInv, GatewayInv, ServedWasPaid
  <1>3. QED
    BY <1>1, <1>2 DEF ServedWasPaid

\* A request arrives.
LEMMA ArriveStep ==
    ASSUME GInv, Stays, NEW g \in Calls, NEW route \in Routes, NEW x \in Proofs \cup {None},
           Arrive(g, route, x)
    PROVE  CallsFit'
  <1> DEFINE c == [phase |-> IF x.mode = "direct" THEN "paying" ELSE "polling",
                   route |-> route, proof |-> x, request |-> None]
  <1>1. requests' = requests
    BY DEF Arrive, vars
  <1>2. CASE Answer402(g)
    <2>1. Answered("402") \in Resting
      BY AnswersRest DEF Answers
    <2>2. calls' = [calls EXCEPT ![g] = Answered("402")] /\ calls'[g] = Answered("402")
      BY <1>2 DEF Answer402, GInv, GatewayInv, CallsFit
    <2>3. Fits(g)'
      BY <2>1, <2>2, RestingFits
    <2>4. QED
      BY <1>1, <2>2, <2>3, OneCallMoves
  <1>3. CASE x # None /\ calls' = [calls EXCEPT ![g] = c]
    <2>1. x \in Proofs /\ c \in Working /\ c.proof = x /\ c.route = route
          /\ c.phase = IF x.mode = "direct" THEN "paying" ELSE "polling"
      BY <1>3 DEF Working
    <2>2. calls'[g] = c
      BY <1>3 DEF GInv, GatewayInv, CallsFit
    <2> HIDE DEF c
    <2>3. HashOf(g)' = <<route, x>>
      BY <2>1, <2>2 DEF HashOf, ProofHash
    <2>4. Fits(g)'
      BY <2>1, <2>2, <2>3 DEF Fits, InOrder, Direct
    <2>5. QED
      BY <1>1, <1>3, <2>4, OneCallMoves
  <1>4. QED
    BY <1>2, <1>3 DEF Arrive

\* A call is answered, or its answer is delivered.
LEMMA CallRests ==
    ASSUME GInv, Stays, NEW g \in Calls, NEW c \in Resting,
           calls' = [calls EXCEPT ![g] = c], UNCHANGED requests
    PROVE  CallsFit'
  <1>1. calls'[g] = c
    BY DEF GInv, GatewayInv, CallsFit
  <1>2. QED
    BY <1>1, RestingFits, OneCallMoves

\* A call whose request is paid for goes on to the upstream.
LEMMA CallProxies ==
    ASSUME GInv, Stays, NEW g \in Calls, calls[g] \in Working, Phase(g, "proxying"),
           UNCHANGED requests, Paid(HashOf(g))'
    PROVE  CallsFit'
  <1> DEFINE c == [calls[g] EXCEPT !.phase = "proxying"]
  <1>1. calls' = [calls EXCEPT ![g] = c]
    BY DEF Phase
  <1>2. c \in Working /\ c.phase = "proxying"
    BY CallMoves
  <1>3. calls'[g] = c
    BY <1>1 DEF GInv, GatewayInv, CallsFit
  <1> HIDE DEF c
  <1>4. Fits(g)'
    BY <1>2, <1>3 DEF Fits, InOrder
  <1>5. QED
    BY <1>1, <1>4, OneCallMoves

\* Taking a step, a call keeps the hash it is known by.
LEMMA SameHash ==
    ASSUME NEW g, calls'[g].route = calls[g].route, calls'[g].proof = calls[g].proof
    PROVE  HashOf(g)' = HashOf(g)
  BY DEF HashOf, ProofHash

\* The node's recorded answer pays if it accepted: it says the payload it was asked.
LEMMA NodeReplaysStep ==
    ASSUME GInv, Stays, NEW g \in Calls, NodeReplays(g)
    PROVE  CallsFit'
  <1> DEFINE s == calls[g].proof.state
             k == Slot(s, HashOf(g))
  <1>1. calls[g] \in Working /\ Direct(HashOf(g))
    BY DEF NodeReplays, Paying, GInv, GatewayInv, CallsFit, Fits, InOrder, Resting, Answers
  <1>2. HashOf(g) \in Keys /\ s \in States /\ HashOf(g)[2] = calls[g].proof
    BY <1>1, ProofsNameStates
  <1>3. k \in Slots
    BY <1>2 DEF Slot, Slots, Endpoint, Endpoints
  <1>4. requests' = requests /\ answers[k] # None /\ answers[k].payload = s
        /\ [key |-> HashOf(g), answer |-> answers[k]] \in released'
    BY DEF NodeReplays, Replay
  <1>5. CASE Accepts(answers[k]) /\ Phase(g, "proxying")
    <2>1. answers[k].status = 200 /\ answers[k].state = s
      BY <1>3, <1>4, <1>5 DEF Accepts, GInv, KeyInv, AnswersFit
    <2>2. HashOf(g)' = HashOf(g)
      <3>1. calls'[g] = [calls[g] EXCEPT !.phase = "proxying"]
        BY <1>5 DEF Phase, GInv, GatewayInv, CallsFit
      <3>2. calls'[g].route = calls[g].route /\ calls'[g].proof = calls[g].proof
        BY <1>1, <3>1, CallMoves
      <3>3. QED
        BY <3>2, SameHash
    <2>3. Paid(HashOf(g))'
      BY <1>1, <1>2, <1>4, <2>1, <2>2 DEF Paid, Direct
    <2>4. QED
      BY <1>1, <1>4, <1>5, <2>3, CallProxies
  <1>6. CASE Answer402(g)
    BY <1>4, <1>6, AnswersRest, CallRests DEF Answer402, Answers
  <1>7. QED
    BY <1>5, <1>6 DEF NodeReplays

\* The node takes the request of a call, which waits for it.
LEMMA NodeTakesStep ==
    ASSUME GInv, Stays, NEW g \in Calls, NEW r \in Requests, NodeTakes(g, r)
    PROVE  CallsFit'
  <1> DEFINE c == Waits(calls[g], "waiting", r)
             q == [phase |-> "accepted", key |-> HashOf(g), state |-> calls[g].proof.state,
                   answer |-> None]
  <1>1. calls[g] \in Working /\ Direct(HashOf(g))
    BY DEF NodeTakes, Paying, GInv, GatewayInv, CallsFit, Fits, InOrder, Resting, Answers
  <1>2. c \in Working /\ c.phase = "waiting" /\ c.request = r
        /\ c.route = calls[g].route /\ c.proof = calls[g].proof
    BY <1>1, CallWaits
  <1>3. calls' = [calls EXCEPT ![g] = c] /\ calls'[g] = c
    BY DEF NodeTakes, GInv, GatewayInv, CallsFit
  <1>4. requests' = [requests EXCEPT ![r] = q] /\ requests[r] = Idle
    BY DEF NodeTakes, Accept
  <1>5. \A i \in Requests : requests[i] # Idle => requests'[i] = requests[i]
    BY <1>4
  <1>6. requests'[r] = q
    BY <1>4 DEF GInv, IInv, TypeOK
  <1>7. q.phase = "accepted" /\ q.key = HashOf(g) /\ q.state = calls[g].proof.state
    OBVIOUS
  <1> HIDE DEF c, q
  <1>8. HashOf(g)' = HashOf(g)
    BY <1>2, <1>3, SameHash
  <1>9. Awaits(g)'
    BY <1>2, <1>3, <1>6, <1>7, <1>8 DEF Awaits, Idle
  <1>10. Direct(HashOf(g))'
    BY <1>1, <1>8 DEF Direct
  <1>11. Fits(g)'
    BY <1>2, <1>3, <1>9, <1>10 DEF Fits, InOrder
  <1>12. QED
    BY <1>3, <1>5, <1>11, OneCallMoves

\* The forwarded payment has arrived, or it failed.
LEMMA PaymentFoundStep ==
    ASSUME GInv, Stays, NEW g \in Calls, PaymentFound(g)
    PROVE  CallsFit'
  <1>1. calls[g] \in Working /\ ~Direct(HashOf(g)) /\ requests' = requests
    BY DEF PaymentFound, GInv, GatewayInv, CallsFit, Fits, InOrder, Resting, Answers, vars
  <1>2. CASE Answer502(g)
    BY <1>1, <1>2, AnswersRest, CallRests DEF Answer502, Answers
  <1>3. CASE Lookup(calls[g].proof) = "completed" /\ Phase(g, "revealing")
    <2> DEFINE c == [calls[g] EXCEPT !.phase = "revealing"]
    <2>1. calls' = [calls EXCEPT ![g] = c] /\ calls'[g] = c
      BY <1>3 DEF Phase, GInv, GatewayInv, CallsFit
    <2>2. c \in Working /\ c.phase = "revealing"
          /\ c.route = calls[g].route /\ c.proof = calls[g].proof
      BY <1>1, CallMoves
    <2> HIDE DEF c
    <2>3. HashOf(g)' = HashOf(g)
      BY <2>1, <2>2, SameHash
    <2>4. ~Direct(HashOf(g))'
      BY <1>1, <2>3 DEF Direct
    <2>5. forwarding'[calls'[g].proof.payment] = "completed"
      <3>1. calls[g].proof.payment \in Payments
        BY <1>1, ProofsNameStates
      <3>2. QED
        BY <1>3, <2>1, <2>2, <3>1 DEF Stays, Lookup
    <2>6. Fits(g)'
      BY <2>1, <2>2, <2>4, <2>5 DEF Fits, InOrder
    <2>7. QED
      BY <1>1, <2>1, <2>6, OneCallMoves
  <1>4. QED
    BY <1>2, <1>3 DEF PaymentFound

\* The node takes the secret of a payment that arrived.
LEMMA RevealStep ==
    ASSUME GInv, Stays, NEW g \in Calls, RevealSecret(g)
    PROVE  CallsFit'
  <1>1. calls[g] \in Working /\ ~Direct(HashOf(g)) /\ requests' = requests
        /\ forwarding' = forwarding /\ forwarding[calls[g].proof.payment] = "completed"
    BY DEF RevealSecret, GInv, GatewayInv, CallsFit, Fits, InOrder, Resting, Answers, vars
  <1>2. CASE Answer402(g)
    BY <1>1, <1>2, AnswersRest, CallRests DEF Answer402, Answers
  <1>3. CASE calls[g].proof.payment \in revealed' /\ Phase(g, "proxying")
    <2>1. calls'[g] = [calls[g] EXCEPT !.phase = "proxying"]
      BY <1>3 DEF Phase, GInv, GatewayInv, CallsFit
    <2>2. calls'[g].route = calls[g].route /\ calls'[g].proof = calls[g].proof
      BY <1>1, <2>1, CallMoves
    <2>3. HashOf(g)' = HashOf(g)
      BY <2>2, SameHash
    <2>4. HashOf(g)[2] = calls[g].proof
      BY <1>1, ProofsNameStates
    <2>5. Paid(HashOf(g))'
      BY <1>1, <1>3, <2>3, <2>4 DEF Paid, Direct
    <2>6. QED
      BY <1>1, <1>3, <2>5, CallProxies
  <1>4. QED
    BY <1>2, <1>3 DEF RevealSecret

\* A call is refused, times out, fails, is served or is delivered: it comes to rest.
LEMMA EndingStep ==
    ASSUME GInv, Stays, NEW g \in Calls,
           \/ NodeRefuses(g) \/ GiveUp(g) \/ Proxied(g) \/ UpstreamFails(g) \/ Delivered(g)
    PROVE  CallsFit'
  <1>1. requests' = requests
    BY DEF NodeRefuses, GiveUp, Proxied, UpstreamFails, Delivered, vars
  <1>2. \E c \in Resting : calls' = [calls EXCEPT ![g] = c]
    BY AnswersRest DEF NodeRefuses, GiveUp, Proxied, UpstreamFails, Delivered, Answer402,
                       Answer502, Answers
  <1>3. QED
    BY <1>1, <1>2, CallRests

\* A step on request r leaves the others, keeps what it was asked until it ends, and ends
\* a stored one with its answer sent.
LEMMA RequestProceeds ==
    ASSUME GInv, NEW r \in Requests, Check(r) \/ Verify(r) \/ Sign(r) \/ Store(r) \/ Respond(r)
    PROVE  /\ \A i \in Requests : i # r => requests'[i] = requests[i]
           /\ requests'[r] # Idle => /\ requests'[r].key = requests[r].key
                                     /\ requests'[r].state = requests[r].state
           /\ requests[r].phase = "stored" =>
                [key |-> requests[r].key, answer |-> requests[r].answer] \in released'
  <1>1. requests[r] \in Request /\ DOMAIN requests = Requests
    BY DEF Check, Verify, Sign, Store, Respond, GInv, IInv, TypeOK, Idle
  <1>2. \E q : /\ requests' = [requests EXCEPT ![r] = q]
               /\ q = Idle \/ (q.key = requests[r].key /\ q.state = requests[r].state)
    <2>1. CASE Check(r) \/ Verify(r) \/ Sign(r)
      <3>1. \/ \E phase \in Phases :
                  requests' = [requests EXCEPT ![r] = [requests[r] EXCEPT !.phase = phase]]
            \/ requests' = [requests EXCEPT ![r] = Idle]
        BY <2>1 DEF Check, Verify, Sign, MoveTo, End, Phases
      <3>2. \A phase \in Phases : /\ [requests[r] EXCEPT !.phase = phase].key = requests[r].key
                                  /\ [requests[r] EXCEPT !.phase = phase].state = requests[r].state
        BY <1>1 DEF Request
      <3>3. QED
        BY <3>1, <3>2
    <2>2. CASE Store(r)
      <3> DEFINE t == requests[r].state
                 answer == IF Upserts(t)
                           THEN [payload |-> t, status |-> 200, state |-> t]
                           ELSE [payload |-> t, status |-> 409, state |-> stored]
                 q == [requests[r] EXCEPT !.phase = "stored", !.answer = answer]
      <3>1. requests' = [requests EXCEPT ![r] = q]
        BY <1>1, <2>2 DEF Store, Request
      <3>2. q.key = requests[r].key /\ q.state = requests[r].state
        <4> HIDE DEF answer
        <4> QED
          BY <1>1 DEF Request
      <3>3. QED
        BY <3>1, <3>2
    <2>3. CASE Respond(r)
      BY <2>3 DEF Respond, End
    <2>4. QED
      BY <2>1, <2>2, <2>3
  <1>3. (\A i \in Requests : i # r => requests'[i] = requests[i])
        /\ (requests'[r] # Idle => /\ requests'[r].key = requests[r].key
                                   /\ requests'[r].state = requests[r].state)
    BY <1>1, <1>2
  <1>4. requests[r].phase = "stored" => Respond(r)
    BY DEF Check, Verify, Sign, Store
  <1>5. QED
    BY <1>3, <1>4 DEF Respond

\* When the request ends, the call that waits for it goes on if its state was taken.
LEMMA NodeWorksStep ==
    ASSUME GInv, Stays, NEW r \in Requests, NodeWorks(r)
    PROVE  CallsFit'
  <1>1. DOMAIN calls' = Calls
    BY DEF NodeWorks
  <1>2. \A g \in Calls : calls'[g] =
            IF calls[g].phase = "waiting" /\ calls[g].request = r /\ requests'[r] = Idle
            THEN IF requests[r].phase = "stored" /\ Accepts(requests[r].answer)
                 THEN Waits(calls[g], "proxying", None)
                 ELSE Answered("402")
            ELSE calls[g]
    BY Zenon DEF NodeWorks
  <1>3. Check(r) \/ Verify(r) \/ Sign(r) \/ Store(r) \/ Respond(r)
    BY DEF NodeWorks
  <1>4. ASSUME NEW g \in Calls, calls[g].phase = "waiting", calls[g].request = r,
               requests[r].phase = "stored", Accepts(requests[r].answer),
               calls'[g] = Waits(calls[g], "proxying", None)
        PROVE  Fits(g)'
    <2>1. calls[g] \in Working /\ Direct(HashOf(g)) /\ Awaits(g)
      BY <1>4 DEF GInv, GatewayInv, CallsFit, Fits, InOrder, Resting, Answers
    <2>2. /\ calls'[g] \in Working /\ calls'[g].phase = "proxying"
          /\ calls'[g].route = calls[g].route /\ calls'[g].proof = calls[g].proof
      BY <1>4, <2>1, CallWaits
    <2>3. HashOf(g)' = HashOf(g)
      BY <2>2, SameHash
    <2>4. HashOf(g)[2] = calls[g].proof
      BY <2>1, ProofsNameStates
    <2>5. [key |-> HashOf(g), answer |-> requests[r].answer] \in released'
      BY <1>3, <1>4, <2>1, RequestProceeds DEF Awaits
    <2>6. requests[r].answer.status = 200 /\ requests[r].answer.state = calls[g].proof.state
      BY <1>4, <2>1 DEF Accepts, Awaits, GInv, KeyInv, AnswersFit
    <2>7. Paid(HashOf(g))'
      BY <2>1, <2>3, <2>4, <2>5, <2>6 DEF Paid, Direct
    <2>8. QED
      BY <2>2, <2>7 DEF Fits, InOrder
  <1>5. ASSUME NEW g \in Calls, calls'[g] = Answered("402") PROVE Fits(g)'
    BY <1>5, AnswersRest, RestingFits DEF Answers
  <1>6. ASSUME NEW g \in Calls, calls'[g] = calls[g],
               calls[g].phase = "waiting" => calls[g].request # r \/ requests'[r] # Idle
        PROVE  Fits(g)'
    <2>1. ASSUME calls[g].phase = "waiting" PROVE Awaits(g)'
      <3>1. calls[g].request \in Requests
        BY <2>1 DEF GInv, GatewayInv, CallsFit, Fits, InOrder, Resting, Answers, Awaits
      <3>2. calls[g].request # r => requests'[calls[g].request] = requests[calls[g].request]
        BY <1>3, <3>1, RequestProceeds
      <3>3. requests'[r] # Idle => /\ requests'[r].key = requests[r].key
                                   /\ requests'[r].state = requests[r].state
        BY <1>3, RequestProceeds
      <3>4. QED
        BY <1>6, <2>1, <3>1, <3>2, <3>3, StillAwaits
    <2>2. QED
      BY <1>6, <2>1, Undisturbed
  <1>7. QED
    BY <1>1, <1>2, <1>4, <1>5, <1>6 DEF CallsFit

\* Gateway or node restarts: calls in service are over, or the node goes on with them.
LEMMA RestartStep ==
    ASSUME GInv, Stays, GatewayRestart \/ NodeRestart
    PROVE  CallsFit'
  <1>1. DOMAIN calls' = Calls
    BY DEF GatewayRestart, NodeRestart
  <1>2. \A g \in Calls : calls'[g] = Answered("502") \/ calls'[g] = calls[g]
    BY DEF GatewayRestart, NodeRestart
  <1>3. \A g \in Calls : calls'[g].phase # "waiting"
    BY DEF GatewayRestart, NodeRestart, Answered, Answers
  <1>4. ASSUME NEW g \in Calls PROVE Fits(g)'
    <2>1. CASE calls'[g] = Answered("502")
      BY <2>1, AnswersRest, RestingFits DEF Answers
    <2>2. CASE calls'[g] = calls[g]
      BY <1>3, <2>2, Undisturbed
    <2>3. QED
      BY <1>2, <2>1, <2>2
  <1>5. QED
    BY <1>1, <1>4 DEF CallsFit

\* What else happens leaves every call and every request that a call waits for.
LEMMA AsideStep ==
    ASSUME GInv, Stays,
           \/ \E h \in Hashes : Expire(h)
           \/ \E p \in Payments : Forward(p)
           \/ NodeAlone
           \/ UNCHANGED allVars
    PROVE  CallsFit'
  <1>1. calls' = calls /\ requests' = requests
    BY DEF Expire, Forward, NodeAlone, Observe, Prune, NewWindow, gatewayVars, allVars, vars
  <1>2. ASSUME NEW g \in Calls PROVE Fits(g)'
    BY <1>1, StillAwaits, Undisturbed
  <1>3. QED
    BY <1>1, <1>2 DEF CallsFit, GInv, GatewayInv

\* What is proxied is paid, so what is served next is.
LEMMA ServingStep ==
    ASSUME GInv, Stays, [GatewayNext]_allVars
    PROVE  served' \subseteq Hashes /\ ServedWasPaid'
  <1>1. CASE \E g \in Calls : Proxied(g)
    <2>1. PICK g \in Calls : Proxied(g)
      BY <1>1
    <2>2. calls[g] \in Working /\ Paid(HashOf(g))
      BY <2>1 DEF Proxied, GInv, GatewayInv, CallsFit, Fits, InOrder, Resting, Answers
    <2>3. HashOf(g) \in Hashes /\ HashOf(g) = <<calls[g].route, calls[g].proof>>
      BY <2>2, ProofsNameStates DEF HashOf, ProofHash
    <2>4. served' = served \cup {HashOf(g)}
      BY <2>1, <2>3 DEF Proxied
    <2>5. \A h \in served' : h \in Hashes /\ Paid(h)
      BY <2>2, <2>3, <2>4 DEF GInv, GatewayInv, ServedWasPaid
    <2>6. QED
      BY <2>5, PaidStays DEF ServedWasPaid
  <1>2. CASE served' = served
    BY <1>2, ServedStaysPaid
  <1>3. served' = served \/ \E g \in Calls : Proxied(g)
    <2>1. CASE \E g \in Calls : Handle(g) \/ Delivered(g)
      BY <2>1 DEF Handle, Delivered, NodeReplays, NodeTakes, NodeRefuses, GiveUp,
                  PaymentFound, RevealSecret, UpstreamFails, Elsewhere
    <2>2. CASE \/ \E g \in Calls, route \in Routes, x \in Proofs \cup {None} :
                     Arrive(g, route, x)
               \/ \E r \in Requests : NodeWorks(r)
               \/ \E h \in Hashes : Expire(h)
               \/ \E p \in Payments : Forward(p)
               \/ GatewayRestart \/ NodeRestart \/ NodeAlone
               \/ UNCHANGED allVars
      BY <2>2 DEF Arrive, NodeWorks, Expire, Forward, Elsewhere, GatewayRestart,
                  NodeRestart, NodeAlone, gatewayVars, allVars
    <2>3. QED
      BY <2>1, <2>2 DEF GatewayNext
  <1>4. QED
    BY <1>1, <1>2, <1>3

\* Every step of the gateway keeps its calls in order.
LEMMA GatewayStep ==
    ASSUME GInv, [GatewayNext]_allVars
    PROVE  GInv'
  <1>1. IInv' /\ KeyInv'
    BY GatewayRunsNode, ServiceStep DEF GInv
  <1>2. Stays /\ forwarding' \in [Payments -> {"absent", "completed", "failed"}]
    BY NothingTakenBack
  <1>3. CallsFit'
    BY <1>2, ArriveStep, NodeReplaysStep, NodeTakesStep, PaymentFoundStep, RevealStep,
       EndingStep, NodeWorksStep, RestartStep, AsideStep DEF GatewayNext, Handle
  <1>4. QED
    BY <1>1, <1>2, <1>3, ServingStep DEF GInv, GatewayInv

\* The gateway's invariant, with the service's: what every call waits for is in service,
\* and what is proxied or served is paid.
THEOREM GatewayInvariance == GatewaySpec => []GInv
  <1>1. GatewayInit => GInv
    <2> SUFFICES ASSUME GatewayInit PROVE GInv
      OBVIOUS
    <2>1. IInv /\ KeyInv
      BY InitService DEF GatewayInit
    <2>2. \A g \in Calls : Fits(g)
      BY AnswersRest DEF GatewayInit, Fits
    <2>3. QED
      BY <2>1, <2>2 DEF GatewayInit, GInv, GatewayInv, CallsFit, ServedWasPaid
  <1>2. GInv /\ [GatewayNext]_allVars => GInv'
    BY GatewayStep
  <1>3. QED
    BY <1>1, <1>2, PTL DEF GatewaySpec

\* The gateway uses the service as any peer does: every behaviour of the two is one of the
\* service alone, and what is proved of the service holds behind the gateway.
THEOREM GatewayRunsService == GatewaySpec => Spec
  <1>1. GatewayInit => Init
    BY DEF GatewayInit
  <1>2. GInv /\ [GatewayNext]_allVars => [Next]_vars
    BY GatewayRunsNode
  <1>3. QED
    BY <1>1, <1>2, GatewayInvariance, PTL DEF GatewaySpec, Spec

\* No request is served unpaid, for any number of requests at once, whatever times out
\* and whoever restarts.
THEOREM NothingServedUnpaid == GatewaySpec => []ServedWasPaid
  BY GatewayInvariance, PTL DEF GInv, GatewayInv

\* A transfer pays for one route with one named amount: its state was taken under one key,
\* and the key is made of both.
THEOREM TransferPaysOnce == GatewaySpec => []OneRoutePerTransfer
  <1>1. GInv => OneRoutePerTransfer
    <2> SUFFICES ASSUME GInv, NEW h \in served, NEW k \in served,
                        Direct(h), Direct(k), h[2].state = k[2].state
                 PROVE  h = k
      BY DEF OneRoutePerTransfer
    <2>1. h \in Hashes /\ k \in Hashes /\ h \in Keys /\ k \in Keys
      BY GatewayAssumption DEF GInv, GatewayInv
    <2>2. h[2] \in DirectProofs
      BY <2>1, GatewayAssumption DEF Hashes, Direct, IndirectProofs
    <2>3. h[2].state \in States
      BY <2>2 DEF DirectProofs
    <2>4. Paid(h) /\ Paid(k)
      BY DEF GInv, GatewayInv, ServedWasPaid
    <2>5. Taken(h, h[2].state) /\ Taken(k, h[2].state)
      BY <2>4 DEF Paid, Taken
    <2>6. QED
      BY <2>1, <2>3, <2>5 DEF GInv, KeyInv, TakenOnce
  <1>2. QED
    BY <1>1, GatewayInvariance, PTL

================================================================================
