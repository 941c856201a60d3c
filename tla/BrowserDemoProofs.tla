--------------------------- MODULE BrowserDemoProofs ---------------------------
(***************************************************************************)
(* Theorems about BrowserDemo: payments of the pipe's present life can be   *)
(* taken to the chain, and a payment moves the price.                       *)
(*                                                                         *)
(* The node's observed pipe, the notices in the feed and the contract's     *)
(* pipe are views of one pipe in the order of time.  The invariant says     *)
(* what holds between an earlier and a later view, between the stored state *)
(* and every view of its life, and between the states that the pages are    *)
(* about to sign and the newest of these.                                   *)
(***************************************************************************)
EXTENDS BrowserDemo, StackflowContractProofs

--------------------------------------------------------------------------------
(* The pipe of the demo *)

Transfer == [nonce : Nat, my : Nat \ {0}, their : Nat, action : {"transfer"}]

\* The two sides of a pipe.
My(p) == IF Counterparty = ThePipe.principal1 THEN p.balance1 ELSE p.balance2
Their(p) == IF Counterparty = ThePipe.principal1 THEN p.balance2 ELSE p.balance1
MyPending(p) == IF Counterparty = ThePipe.principal1 THEN p.pending1 ELSE p.pending2
TheirPending(p) == IF Counterparty = ThePipe.principal1 THEN p.pending2 ELSE p.pending1

\* Only the payer funds it, once in a life; what the server owns comes from a payment
\* that was taken to the chain.
WellFunded(p) ==
    /\ MyPending(p) = NoPending
    /\ Their(p) = 0 \/ TheirPending(p) = NoPending

Terminal(e) == e.type \in Node!TerminalEvents

\* The pipe as the node takes it over.
Taken(e) == IF Terminal(e) THEN EmptyPipe(e.pipe.nonce) ELSE e.pipe

\* The pipe o that the node observes, the pipes of the notices f on their way to it, and
\* the pipe p on the chain, in the order of time.
View(f, o, p, k) == IF k = 0 THEN o ELSE IF k > Len(f) THEN p ELSE Taken(f[k])

Tells(f, o, k) ==
    \/ k = 0 /\ o # None
    \/ k \in 1..Len(f) /\ f[k].type # "burn"
    \/ k = Len(f) + 1

SameLife(f, i, j) == \A m \in 1..Len(f) : i < m /\ m <= j => ~Terminal(f[m])

\* In a life of the pipe the server has nothing before a forced closure with a signed state,
\* which has a higher nonce; and the deposit stays until then.
Within(a, b) ==
    /\ My(b) = 0 => /\ My(a) = 0 /\ a.nonce = b.nonce
                    /\ Claims(a) # 0 => Claims(b) = Claims(a)
    /\ a.nonce = b.nonce => My(a) = My(b)

Ordered(f, o, p) ==
    \A i, j \in 0..(Len(f) + 1) :
        i <= j /\ Tells(f, o, i) /\ Tells(f, o, j) =>
            /\ View(f, o, p, i).nonce <= View(f, o, p, j).nonce
            /\ SameLife(f, i, j) => Within(View(f, o, p, i), View(f, o, p, j))

\* The stored state s is the one with which the pipe p was closed, or is newer.
Covers(s, p) ==
    My(p) # 0 =>
        /\ s # None /\ p.nonce <= s.nonce
        /\ p.nonce = s.nonce => My(p) = s.my

Sound(f, o, p, s) ==
    \A k \in 0..(Len(f) + 1) : Tells(f, o, k) =>
        /\ View(f, o, p, k) \in Pipe
        /\ WellFunded(View(f, o, p, k))
        /\ Covers(s, View(f, o, p, k))

\* The stored state s of the present life can be taken to the chain, unless that was done.
Enforceable(f, o, p, s) ==
    \A k \in 0..(Len(f) + 1) :
        Tells(f, o, k) /\ SameLife(f, 0, k) /\ My(View(f, o, p, k)) = 0 =>
            /\ s.nonce > View(f, o, p, k).nonce
            /\ s.my + s.their = Claims(View(f, o, p, k))

\* c counts the lives from the one that the node knows to the one on the chain.
Counts(c, f, seen, now) ==
    /\ c[0] = seen /\ c[Len(f)] = now
    /\ \A i, j \in 0..Len(f) : i <= j => c[i] <= c[j]
    /\ \A k \in 1..Len(f) : Terminal(f[k]) => c[k] = c[k - 1] + 1
    /\ \A k \in 1..Len(f) : ~Terminal(f[k]) => c[k] = c[k - 1]

LivesFit(f, seen, now) == \E c \in [0..Len(f) -> 0..now] : Counts(c, f, seen, now)

PipeInv ==
    /\ Ordered(feed, observed, OnChain)
    /\ Sound(feed, observed, OnChain, stored)
    /\ OnChain.closer = NoPrincipal => My(OnChain) = 0
    /\ OnChain.closer # NoPrincipal => OnChain.pending1 = NoPending /\ OnChain.pending2 = NoPending
    /\ ThePipe \notin mapped =>
          /\ observed = None /\ OnChain = EmptyPipe(0)
          /\ \A k \in 1..Len(feed) : feed[k].type = "burn"

StoredInv ==
    /\ stored # None => observed # None
    /\ newer = "signature-state" => stored # None /\ stored.nonce > observed.nonce
    /\ paidIn <= seenLives
    /\ stored # None /\ paidIn = seenLives => Enforceable(feed, observed, OnChain, stored)
    /\ LivesFit(feed, seenLives, lives)

\* The higher nonce of the row s and the observed pipe o, and the life that it tells of.
Newer(o, s) == s # None /\ s.nonce > o.nonce
NewestNonce(o, s) == IF Newer(o, s) THEN s.nonce ELSE o.nonce
NewestMy(o, s) == IF Newer(o, s) THEN s.my ELSE My(o)
NewestLife(o, s, paid, seen) == IF Newer(o, s) THEN paid ELSE seen

\* The state i that a page signs follows on the newest one, or it comes too late.
Follows(i, o, s) ==
    /\ i.nonce <= NewestNonce(o, s) + 1
    /\ i.nonce = NewestNonce(o, s) + 1 => i.my = NewestMy(o, s) + Price

\* It may be of an earlier life.
TabFits(tab, o, s, paid, seen) ==
    tab.phase = "signing" =>
        /\ o # None
        /\ tab.life <= seen
        /\ tab.life = seen /\ paid # seen => ~Newer(o, s)
        /\ tab.life = NewestLife(o, s, paid, seen) => Follows(tab.intent, o, s)

TabsInv == \A t \in Tabs : TabFits(tabs[t], observed, stored, paidIn, seenLives)

DemoEvents == {"fund-pipe", "force-cancel", "force-close", "dispute-closure", "finalize"}

Notices == [type : {"burn"}, height : Nat]
           \cup [type : DemoEvents, key : PipeKeys, pipe : Pipe, sender : Principals]

TabStates ==
    {Closed, Dialog, [phase |-> "payable"]}
        \cup [phase : {"opening"}, nonce : Nat]
        \cup [phase : {"signing"}, intent : Transfer, life : Nat]

DemoTypes ==
    /\ pipes \in [PipeKeys -> Pipe] /\ height \in Nat
    /\ feed \in Seq(Notices)
    /\ observed \in Pipe \cup {None} /\ stored \in Transfer \cup {None}
    /\ newer \in {"onchain", "signature-state"}
    /\ disputes \subseteq Transfer
    /\ tabs \in [Tabs -> TabStates]
    /\ lives \in Nat /\ seenLives \in Nat /\ paidIn \in Nat

DemoInv == DemoTypes /\ PipeInv /\ StoredInv /\ TabsInv

--------------------------------------------------------------------------------
(* Pipes and notices *)

\* The pipe and its parties.
LEMMA TheSides ==
    /\ ThePipe \in PipeKeys /\ \A k \in PipeKeys : k = ThePipe
    /\ Payer \in Principals /\ Counterparty \in Principals
    /\ Payer # NoPrincipal /\ Counterparty # NoPrincipal
    /\ \/ /\ Counterparty = ThePipe.principal1 /\ Payer = ThePipe.principal2
          /\ Payer # ThePipe.principal1
       \/ /\ Payer = ThePipe.principal1 /\ Counterparty = ThePipe.principal2
          /\ Counterparty # ThePipe.principal1
  <1>1. ThePipe \in PipeKeys /\ \A k \in PipeKeys : k = ThePipe
    BY DemoAssumption
  <1>2. ThePipe.principal1 \in Principals /\ ThePipe.principal2 \in Principals
    BY <1>1, KeyAssumption
  <1>3. /\ Payer \in {ThePipe.principal1, ThePipe.principal2}
        /\ Counterparty \in {ThePipe.principal1, ThePipe.principal2}
        /\ ThePipe.principal1 \in {Payer, Counterparty}
        /\ ThePipe.principal2 \in {Payer, Counterparty} /\ Payer # Counterparty
    BY DemoAssumption
  <1>4. QED
    BY <1>1, <1>2, <1>3, PrincipalAssumption

\* The constants.
LEMMA DemoConstants ==
    /\ Price \in Nat /\ Price # 0 /\ OpenAmount \in Nat
    /\ MAX_HEIGHT \in Nat /\ WAITING_PERIOD \in Nat /\ CONFIRMATION_DEPTH \in Nat
    /\ None \notin Pipe /\ None \notin Transfer
    /\ None \notin [nonce : Nat, my : Nat, their : Nat]
    /\ NoPending \in Pending
  <1>1. Transfer \subseteq [nonce : Nat, my : Nat, their : Nat, action : {"transfer"}]
    BY DEF Transfer
  <1>2. QED
    BY <1>1, DemoAssumption, HeightAssumption DEF NoPending, Pending

\* What a pipe holds.
LEMMA PipeParts ==
    ASSUME NEW p \in Pipe
    PROVE  /\ p.nonce \in Nat /\ My(p) \in Nat /\ Their(p) \in Nat
           /\ p.balance1 \in Nat /\ p.balance2 \in Nat
           /\ MyPending(p) \in Pending /\ TheirPending(p) \in Pending
           /\ p.pending1.amount \in Nat /\ p.pending2.amount \in Nat
           /\ p.pending1.burnHeight \in Nat /\ p.pending2.burnHeight \in Nat
           /\ Claims(p) \in Nat /\ My(p) + Their(p) = p.balance1 + p.balance2
           /\ Claims(p) = My(p) + Their(p) + MyPending(p).amount + TheirPending(p).amount
  <1>1. /\ p.balance1 \in Nat /\ p.balance2 \in Nat /\ p.nonce \in Nat
        /\ p.pending1 \in Pending /\ p.pending2 \in Pending
    BY DEF Pipe
  <1>2. /\ p.pending1.amount \in Nat /\ p.pending2.amount \in Nat
        /\ p.pending1.burnHeight \in Nat /\ p.pending2.burnHeight \in Nat
    BY <1>1 DEF Pending
  <1>3. QED
    BY <1>1, <1>2 DEF My, Their, MyPending, TheirPending, Claims

\* Pipes without pending deposits.
LEMMA ClosedFacts ==
    ASSUME NEW b1 \in Nat, NEW b2 \in Nat, NEW n \in Nat
    PROVE  /\ ClosedPipe(b1, b2, n) \in Pipe /\ WellFunded(ClosedPipe(b1, b2, n))
           /\ ClosedPipe(b1, b2, n).nonce = n
           /\ ClosedPipe(b1, b2, n).balance1 = b1 /\ ClosedPipe(b1, b2, n).balance2 = b2
           /\ ClosedPipe(b1, b2, n).closer = NoPrincipal
           /\ EmptyPipe(n) \in Pipe /\ WellFunded(EmptyPipe(n))
           /\ EmptyPipe(n).nonce = n /\ My(EmptyPipe(n)) = 0 /\ Claims(EmptyPipe(n)) = 0
           /\ EmptyPipe(n).closer = NoPrincipal
  <1>1. \A c1, c2 \in Nat : ClosedPipe(c1, c2, n) \in Pipe
    BY DemoConstants DEF ClosedPipe, Pipe
  <1>2. QED
    BY <1>1 DEF ClosedPipe, EmptyPipe, WellFunded, MyPending, TheirPending, Their, My,
                Claims, NoPending

\* Two pipes that are alike for the server.
Same(a, b) == a.nonce = b.nonce /\ My(a) = My(b) /\ Claims(a) = Claims(b)

\* Each side's deposit stays or joins the balance.
LEMMA AlikeIfSettled ==
    ASSUME NEW p \in Pipe, NEW q \in Pipe, WellFunded(p), q.nonce = p.nonce,
           \/ q.balance1 = p.balance1 /\ q.pending1 = p.pending1
           \/ q.balance1 = p.balance1 + p.pending1.amount /\ q.pending1 = NoPending,
           \/ q.balance2 = p.balance2 /\ q.pending2 = p.pending2
           \/ q.balance2 = p.balance2 + p.pending2.amount /\ q.pending2 = NoPending
    PROVE  WellFunded(q) /\ Same(q, p)
  <1>1. NoPending.amount = 0
    BY DEF NoPending
  <1>2. CASE Counterparty = ThePipe.principal1
    <2>1. p.pending1 = NoPending
      BY <1>2 DEF WellFunded, MyPending
    <2>2. q.balance1 = p.balance1 /\ q.pending1 = NoPending
      BY <1>1, <2>1, PipeParts
    <2>3. Claims(q) = Claims(p)
      BY <1>1, <2>1, <2>2, PipeParts DEF Claims
    <2>4. QED
      BY <1>2, <2>1, <2>2, <2>3
         DEF WellFunded, Same, My, Their, MyPending, TheirPending
  <1>3. CASE Counterparty # ThePipe.principal1
    <2>1. p.pending2 = NoPending
      BY <1>3 DEF WellFunded, MyPending
    <2>2. q.balance2 = p.balance2 /\ q.pending2 = NoPending
      BY <1>1, <2>1, PipeParts
    <2>3. Claims(q) = Claims(p)
      BY <1>1, <2>1, <2>2, PipeParts DEF Claims
    <2>4. QED
      BY <1>3, <2>1, <2>2, <2>3
         DEF WellFunded, Same, My, Their, MyPending, TheirPending
  <1>4. QED
    BY <1>2, <1>3

\* Deposits that join the balances, on the chain and in the node's row.
LEMMA SettledAlike ==
    ASSUME NEW p \in Pipe, WellFunded(p)
    PROVE  /\ SettlePending(p) \in Pipe /\ WellFunded(SettlePending(p))
           /\ Same(SettlePending(p), p) /\ SettlePending(p).closer = p.closer
           /\ \A h : /\ Node!Settled(p, h) \in Pipe /\ WellFunded(Node!Settled(p, h))
                     /\ Same(Node!Settled(p, h), p)
  <1>1. /\ p.balance1 \in Nat /\ p.balance2 \in Nat /\ p.nonce \in Nat
        /\ p.pending1 \in Pending /\ p.pending2 \in Pending
        /\ p.pending1.amount \in Nat /\ p.pending2.amount \in Nat
    BY DEF Pipe, Pending
  <1>2. /\ SettledBalance(p.balance1, p.pending1) \in Nat
        /\ SettledBalance(p.balance2, p.pending2) \in Nat
        /\ SettledPending(p.pending1) \in Pending
        /\ SettledPending(p.pending2) \in Pending
    BY <1>1, DemoConstants DEF SettledBalance, SettledPending
  <1>3. /\ SettlePending(p) \in Pipe
        /\ SettlePending(p).balance1 = SettledBalance(p.balance1, p.pending1)
        /\ SettlePending(p).balance2 = SettledBalance(p.balance2, p.pending2)
        /\ SettlePending(p).pending1 = SettledPending(p.pending1)
        /\ SettlePending(p).pending2 = SettledPending(p.pending2)
        /\ SettlePending(p).nonce = p.nonce /\ SettlePending(p).closer = p.closer
    <2> DEFINE q == SettlePending(p)
               b1 == SettledBalance(p.balance1, p.pending1)
               b2 == SettledBalance(p.balance2, p.pending2)
               q1 == SettledPending(p.pending1)
               q2 == SettledPending(p.pending2)
    <2>1. q = [p EXCEPT !.balance1 = b1, !.balance2 = b2, !.pending1 = q1, !.pending2 = q2]
      BY DEF SettlePending
    <2>2. b1 \in Nat /\ b2 \in Nat /\ q1 \in Pending /\ q2 \in Pending
      BY <1>2
    <2> HIDE DEF q, b1, b2, q1, q2
    <2>3. /\ q \in Pipe /\ q.nonce = p.nonce /\ q.closer = p.closer
          /\ q.balance1 = b1 /\ q.balance2 = b2
          /\ q.pending1 = q1 /\ q.pending2 = q2
      BY <2>1, <2>2 DEF Pipe
    <2>4. QED
      BY <2>3 DEF q, b1, b2, q1, q2
  <1>4. WellFunded(SettlePending(p)) /\ Same(SettlePending(p), p)
    <2> DEFINE q == SettlePending(p)
    <2>1. /\ \/ q.balance1 = p.balance1 /\ q.pending1 = p.pending1
             \/ q.balance1 = p.balance1 + p.pending1.amount /\ q.pending1 = NoPending
          /\ \/ q.balance2 = p.balance2 /\ q.pending2 = p.pending2
             \/ q.balance2 = p.balance2 + p.pending2.amount /\ q.pending2 = NoPending
      BY <1>3 DEF SettledBalance, SettledPending
    <2>2. q \in Pipe /\ q.nonce = p.nonce
      BY <1>3
    <2> HIDE DEF q
    <2>3. WellFunded(q) /\ Same(q, p)
      BY <2>1, <2>2, AlikeIfSettled
    <2>4. QED
      BY <2>3 DEF q
  <1>5. ASSUME NEW h
        PROVE  /\ Node!Settled(p, h) \in Pipe /\ WellFunded(Node!Settled(p, h))
               /\ Same(Node!Settled(p, h), p)
    <2> DEFINE due1 == p.pending1 # NoPending /\ h >= p.pending1.burnHeight
               due2 == p.pending2 # NoPending /\ h >= p.pending2.burnHeight
               b1 == IF due1 THEN p.balance1 + p.pending1.amount ELSE p.balance1
               b2 == IF due2 THEN p.balance2 + p.pending2.amount ELSE p.balance2
               q1 == IF due1 THEN NoPending ELSE p.pending1
               q2 == IF due2 THEN NoPending ELSE p.pending2
    <2>1. Node!Settled(p, h) = [p EXCEPT !.balance1 = b1, !.balance2 = b2,
                                         !.pending1 = q1, !.pending2 = q2]
      BY DEF Node!Settled, Node!NoPending, NoPending, Pipe
    <2>2. b1 \in Nat /\ b2 \in Nat /\ q1 \in Pending /\ q2 \in Pending
      BY <1>1, DemoConstants
    <2>3. /\ \/ b1 = p.balance1 /\ q1 = p.pending1
             \/ b1 = p.balance1 + p.pending1.amount /\ q1 = NoPending
          /\ \/ b2 = p.balance2 /\ q2 = p.pending2
             \/ b2 = p.balance2 + p.pending2.amount /\ q2 = NoPending
      OBVIOUS
    <2> DEFINE q == Node!Settled(p, h)
    <2> HIDE DEF b1, b2, q1, q2, q
    <2>4. /\ q \in Pipe
          /\ q.balance1 = b1 /\ q.balance2 = b2
          /\ q.pending1 = q1 /\ q.pending2 = q2
          /\ q.nonce = p.nonce
      <3>1. q = [p EXCEPT !.balance1 = b1, !.balance2 = b2,
                          !.pending1 = q1, !.pending2 = q2]
        BY <2>1 DEF q
      <3>2. QED
        BY <2>2, <3>1 DEF Pipe
    <2>5. /\ q \in Pipe /\ q.nonce = p.nonce
          /\ \/ q.balance1 = p.balance1 /\ q.pending1 = p.pending1
             \/ q.balance1 = p.balance1 + p.pending1.amount /\ q.pending1 = NoPending
          /\ \/ q.balance2 = p.balance2 /\ q.pending2 = p.pending2
             \/ q.balance2 = p.balance2 + p.pending2.amount /\ q.pending2 = NoPending
      BY <2>3, <2>4
    <2>6. WellFunded(q) /\ Same(q, p)
      BY <2>5, AlikeIfSettled
    <2>7. QED
      BY <2>5, <2>6 DEF q
  <1>6. QED
    BY <1>3, <1>4, <1>5

--------------------------------------------------------------------------------
(* What the views have in common, while the feed moves *)

\* A feed g whose views are views of f, by the map h of their indices.
Renames(h, f, o, p, g, q, r) ==
    /\ \A k \in 0..(Len(g) + 1) : h[k] \in 0..(Len(f) + 1)
    /\ \A i, j \in 0..(Len(g) + 1) : i <= j => h[i] <= h[j]
    /\ \A k \in 0..(Len(g) + 1) : Tells(g, q, k) =>
          /\ Tells(f, o, h[k])
          /\ Same(View(g, q, r, k), View(f, o, p, h[k]))
          /\ View(g, q, r, k) \in Pipe /\ WellFunded(View(g, q, r, k))
    /\ \A i, j \in 0..(Len(g) + 1) : SameLife(g, i, j) => SameLife(f, h[i], h[j])

\* What the order says of two views that are alike.
LEMMA WithinAlike ==
    ASSUME NEW a, NEW b, NEW c, NEW d, Same(c, a), Same(d, b), Within(a, b)
    PROVE  Within(c, d)
  BY DEF Same, Within

\* They are in order, and sound.
LEMMA RenamedOrdered ==
    ASSUME NEW f \in Seq(Notices), NEW g \in Seq(Notices), NEW o, NEW p, NEW q, NEW r,
           NEW s, NEW h, Renames(h, f, o, p, g, q, r),
           Ordered(f, o, p), Sound(f, o, p, s)
    PROVE  Ordered(g, q, r) /\ Sound(g, q, r, s)
  <1>1. Ordered(g, q, r)
    <2> SUFFICES ASSUME NEW i \in 0..(Len(g) + 1), NEW j \in 0..(Len(g) + 1), i <= j,
                        Tells(g, q, i), Tells(g, q, j)
                 PROVE  /\ View(g, q, r, i).nonce <= View(g, q, r, j).nonce
                        /\ SameLife(g, i, j) => Within(View(g, q, r, i), View(g, q, r, j))
      BY DEF Ordered
    <2>1. /\ h[i] \in 0..(Len(f) + 1) /\ h[j] \in 0..(Len(f) + 1) /\ h[i] <= h[j]
          /\ Tells(f, o, h[i]) /\ Tells(f, o, h[j])
          /\ Same(View(g, q, r, i), View(f, o, p, h[i]))
          /\ Same(View(g, q, r, j), View(f, o, p, h[j]))
          /\ SameLife(g, i, j) => SameLife(f, h[i], h[j])
      BY DEF Renames
    <2>2. /\ View(f, o, p, h[i]).nonce <= View(f, o, p, h[j]).nonce
          /\ SameLife(f, h[i], h[j]) => Within(View(f, o, p, h[i]), View(f, o, p, h[j]))
      BY <2>1 DEF Ordered
    <2>3. View(g, q, r, i).nonce <= View(g, q, r, j).nonce
      BY <2>1, <2>2 DEF Same
    <2>4. QED
      BY <2>1, <2>2, <2>3, WithinAlike
  <1>2. Sound(g, q, r, s)
    <2> SUFFICES ASSUME NEW k \in 0..(Len(g) + 1), Tells(g, q, k)
                 PROVE  /\ View(g, q, r, k) \in Pipe /\ WellFunded(View(g, q, r, k))
                        /\ Covers(s, View(g, q, r, k))
      BY DEF Sound
    <2>1. /\ h[k] \in 0..(Len(f) + 1) /\ Tells(f, o, h[k])
          /\ Same(View(g, q, r, k), View(f, o, p, h[k]))
          /\ View(g, q, r, k) \in Pipe /\ WellFunded(View(g, q, r, k))
      BY DEF Renames
    <2>2. Covers(s, View(f, o, p, h[k]))
      BY <2>1 DEF Sound
    <2>3. QED
      BY <2>1, <2>2 DEF Same, Covers
  <1>3. QED
    BY <1>1, <1>2

\* A stored state stays enforceable, in the same life.
LEMMA RenamedEnforceable ==
    ASSUME NEW f \in Seq(Notices), NEW g \in Seq(Notices), NEW o, NEW p, NEW q, NEW r,
           NEW s, NEW h, Renames(h, f, o, p, g, q, r), SameLife(f, 0, h[0]),
           Enforceable(f, o, p, s)
    PROVE  Enforceable(g, q, r, s)
  <1> SUFFICES ASSUME NEW k \in 0..(Len(g) + 1), Tells(g, q, k), SameLife(g, 0, k),
                      My(View(g, q, r, k)) = 0
               PROVE  /\ s.nonce > View(g, q, r, k).nonce
                      /\ s.my + s.their = Claims(View(g, q, r, k))
    BY DEF Enforceable
  <1>1. Len(g) \in Nat /\ 0 \in 0..(Len(g) + 1) /\ 0 <= k
    OBVIOUS
  <1>2. /\ h[0] \in 0..(Len(f) + 1) /\ h[k] \in 0..(Len(f) + 1) /\ h[0] <= h[k]
        /\ Tells(f, o, h[k]) /\ Same(View(g, q, r, k), View(f, o, p, h[k]))
        /\ SameLife(f, h[0], h[k])
    BY <1>1 DEF Renames
  <1>3. SameLife(f, 0, h[k])
    <2> SUFFICES ASSUME NEW m \in 1..Len(f), 0 < m, m <= h[k] PROVE ~Terminal(f[m])
      BY DEF SameLife
    <2>1. CASE m <= h[0]
      BY <2>1 DEF SameLife
    <2>2. CASE h[0] < m
      BY <1>2, <2>2 DEF SameLife
    <2>3. QED
      BY <1>2, <2>1, <2>2
  <1>4. QED
    BY <1>2, <1>3 DEF Enforceable, Same

\* The first notice is posted: the rest moves up.
LEMMA PostedRenames ==
    ASSUME NEW f \in Seq(Notices), f # <<>>, NEW o, NEW p, NEW q, NEW s,
           Sound(f, o, p, s), q \in Pipe \cup {None}, q # None => WellFunded(q),
           f[1].type = "burn" => (q # None => o # None /\ Same(q, o)),
           f[1].type # "burn" => Same(q, Taken(f[1]))
    PROVE  LET h == [k \in 0..(Len(Tail(f)) + 1) |->
                        IF k = 0 /\ f[1].type = "burn" THEN 0 ELSE k + 1]
           IN Renames(h, f, o, p, Tail(f), q, p)
  <1> DEFINE g == Tail(f)
             h == [k \in 0..(Len(g) + 1) |-> IF k = 0 /\ f[1].type = "burn" THEN 0 ELSE k + 1]
  <1>1. Len(f) \in Nat /\ Len(g) = Len(f) - 1 /\ Len(f) >= 1
    OBVIOUS
  <1>2. \A k \in 1..Len(g) : g[k] = f[k + 1]
    OBVIOUS
  <1>3. \A k \in 0..(Len(g) + 1) : /\ h[k] \in 0..(Len(f) + 1)
                                   /\ k # 0 => h[k] = k + 1
                                   /\ h[0] \in {0, 1} /\ (h[0] = 0 <=> f[1].type = "burn")
    BY <1>1
  <1> HIDE DEF g, h
  <1>4. ASSUME NEW k \in 0..(Len(g) + 1), Tells(g, q, k)
        PROVE  /\ Tells(f, o, h[k])
               /\ Same(View(g, q, p, k), View(f, o, p, h[k]))
               /\ View(g, q, p, k) \in Pipe /\ WellFunded(View(g, q, p, k))
    <2>1. CASE k = 0
      <3>1. q # None /\ View(g, q, p, k) = q
        BY <1>1, <2>1, <1>4 DEF Tells, View
      <3>2. Tells(f, o, h[k]) /\ Same(q, View(f, o, p, h[k]))
        BY <1>1, <1>3, <2>1, <3>1 DEF Tells, View
      <3>3. QED
        BY <3>1, <3>2
    <2>2. CASE k # 0
      <3>1. h[k] = k + 1 /\ k \in Nat
        BY <1>1, <1>3, <2>2
      <3>2. Tells(f, o, h[k])
        BY <1>1, <1>2, <1>4, <2>2, <3>1 DEF Tells
      <3>3. View(g, q, p, k) = View(f, o, p, h[k])
        BY <1>1, <1>2, <2>2, <3>1 DEF View
      <3>4. QED
        BY <1>1, <3>1, <3>2, <3>3 DEF Sound, Same
    <2>3. QED
      BY <2>1, <2>2
  <1>5. ASSUME NEW i \in 0..(Len(g) + 1), NEW j \in 0..(Len(g) + 1), SameLife(g, i, j)
        PROVE  SameLife(f, h[i], h[j])
    <2> SUFFICES ASSUME NEW m \in 1..Len(f), h[i] < m, m <= h[j] PROVE ~Terminal(f[m])
      BY DEF SameLife
    <2>1. CASE m = 1
      BY <1>3, <2>1 DEF Terminal, Node!TerminalEvents
    <2>2. CASE m > 1
      <3>1. m - 1 \in 1..Len(g) /\ i < m - 1 /\ m - 1 <= j
        BY <1>1, <1>3, <2>2
      <3>2. g[m - 1] = f[m]
        BY <1>2, <3>1
      <3>3. QED
        BY <3>1, <3>2, <1>5 DEF SameLife
    <2>3. QED
      BY <2>1, <2>2
  <1>6. \A i, j \in 0..(Len(g) + 1) : i <= j => h[i] <= h[j]
    BY <1>1, <1>3
  <1>7. Renames(h, f, o, p, g, q, p)
    BY <1>3, <1>4, <1>5, <1>6 DEF Renames
  <1>8. QED
    BY <1>7 DEF g, h

--------------------------------------------------------------------------------
(* The chain moves on *)

\* Views that are alike are of the same time.
LEMMA WithinSame ==
    ASSUME NEW a \in Pipe, NEW b \in Pipe, Same(a, b)
    PROVE  Within(a, b)
  BY DEF Same, Within

\* The order is transitive.
LEMMA WithinTransitive ==
    ASSUME NEW a \in Pipe, NEW b \in Pipe, NEW c \in Pipe, a.nonce <= b.nonce, b.nonce <= c.nonce,
           Within(a, b), Within(b, c)
    PROVE  Within(a, c)
  <1>1. a.nonce \in Nat /\ b.nonce \in Nat /\ c.nonce \in Nat
    BY DEF Pipe
  <1>2. a.nonce = c.nonce => a.nonce = b.nonce /\ b.nonce = c.nonce
    BY <1>1
  <1>3. QED
    BY <1>2 DEF Within

\* The pipe p becomes q, of which the notice e tells; s is the stored state.
Extends(e, p, q, s) ==
    /\ e \in Notices /\ e.type # "burn"
    /\ Taken(e) \in Pipe /\ WellFunded(Taken(e)) /\ Same(Taken(e), q)
    /\ q \in Pipe /\ WellFunded(q) /\ Covers(s, q)

Continues(e, p, q) == p.nonce <= q.nonce /\ (Terminal(e) \/ Within(p, q))

\* The notice e extends the feed f to g, while the pipe p becomes q.
Appended(g, f, e, o, p, q) ==
    /\ g \in Seq(Notices) /\ Len(g) = Len(f) + 1 /\ Len(f) \in Nat
    /\ \A k \in 0..(Len(g) + 1) :
          /\ k <= Len(f) => /\ View(g, o, q, k) = View(f, o, p, k)
                            /\ Tells(g, o, k) <=> Tells(f, o, k)
          /\ k = Len(f) + 1 => View(g, o, q, k) = Taken(e)
          /\ k > Len(f) + 1 => View(g, o, q, k) = q
    /\ Tells(f, o, Len(f) + 1) /\ View(f, o, p, Len(f) + 1) = p
    /\ \A i, j \in 0..(Len(g) + 1) : SameLife(g, i, j) =>
          /\ SameLife(f, i, j)
          /\ i <= Len(f) /\ j > Len(f) => ~Terminal(e) /\ SameLife(f, i, Len(f) + 1)

\* The views before and after a notice.
LEMMA AppendedViews ==
    ASSUME NEW f \in Seq(Notices), NEW e \in Notices, NEW o, NEW p, NEW q, e.type # "burn"
    PROVE  Appended(Append(f, e), f, e, o, p, q)
  <1> DEFINE g == Append(f, e)
  <1>1. /\ g \in Seq(Notices) /\ Len(g) = Len(f) + 1 /\ Len(f) \in Nat
        /\ g[Len(f) + 1] = e /\ \A m \in 1..Len(f) : g[m] = f[m]
    OBVIOUS
  <1> HIDE DEF g
  <1>2. ASSUME NEW k \in 0..(Len(g) + 1)
        PROVE  /\ k <= Len(f) => /\ View(g, o, q, k) = View(f, o, p, k)
                                 /\ Tells(g, o, k) <=> Tells(f, o, k)
               /\ k = Len(f) + 1 => View(g, o, q, k) = Taken(e)
               /\ k > Len(f) + 1 => View(g, o, q, k) = q
    <2>1. CASE k <= Len(f)
      <3>1. View(g, o, q, k) = View(f, o, p, k)
        BY <1>1, <2>1 DEF View
      <3>2. Tells(g, o, k) <=> Tells(f, o, k)
        BY <1>1, <2>1 DEF Tells
      <3>3. QED
        BY <2>1, <3>1, <3>2
    <2>2. CASE ~(k <= Len(f))
      BY <1>1, <2>2 DEF View
    <2>3. QED
      BY <2>1, <2>2
  <1>3. Tells(f, o, Len(f) + 1) /\ View(f, o, p, Len(f) + 1) = p
    BY <1>1 DEF Tells, View
  <1>4. ASSUME NEW i \in 0..(Len(g) + 1), NEW j \in 0..(Len(g) + 1), SameLife(g, i, j)
        PROVE  /\ SameLife(f, i, j)
               /\ i <= Len(f) /\ j > Len(f) => ~Terminal(e) /\ SameLife(f, i, Len(f) + 1)
    BY <1>1, <1>4 DEF SameLife
  <1>5. QED
    BY <1>1, <1>2, <1>3, <1>4 DEF Appended, g

\* The order and the soundness of the views are kept.
LEMMA AppendOrdered ==
    ASSUME NEW f \in Seq(Notices), NEW e, NEW o, NEW p \in Pipe, NEW q, NEW s,
           Ordered(f, o, p), Sound(f, o, p, s), Extends(e, p, q, s),
           \/ \A k \in 0..Len(f) : ~Tells(f, o, k)
           \/ Continues(e, p, q)
    PROVE  Ordered(Append(f, e), o, q) /\ Sound(Append(f, e), o, q, s)
  <1> DEFINE g == Append(f, e)
  <1>1. e \in Notices /\ e.type # "burn" /\ q \in Pipe
    BY DEF Extends
  <1>2. Appended(g, f, e, o, p, q)
    BY <1>1, AppendedViews
  <1> DEFINE V(k) == View(g, o, q, k)
  <1> HIDE DEF g
  <1>3. Len(f) \in Nat /\ Len(g) = Len(f) + 1 /\ g \in Seq(Notices)
    BY <1>2 DEF Appended
  <1>4. \A k \in 0..(Len(g) + 1) :
           /\ k <= Len(f) => V(k) = View(f, o, p, k) /\ (Tells(g, o, k) <=> Tells(f, o, k))
           /\ k > Len(f) => V(k) = Taken(e) \/ V(k) = q
    BY <1>2, <1>3 DEF Appended
  <1>5. Tells(f, o, Len(f) + 1) /\ View(f, o, p, Len(f) + 1) = p
    BY <1>2 DEF Appended
  <1>6. \A i, j \in 0..(Len(g) + 1) : SameLife(g, i, j) =>
           /\ SameLife(f, i, j)
           /\ i <= Len(f) /\ j > Len(f) => ~Terminal(e) /\ SameLife(f, i, Len(f) + 1)
    BY <1>2 DEF Appended
  <1> HIDE DEF V
  <1>7. \A k \in 0..(Len(g) + 1) : k > Len(f) => V(k) \in Pipe /\ Same(V(k), q) /\ WellFunded(V(k))
    <2> SUFFICES ASSUME NEW k \in 0..(Len(g) + 1), k > Len(f)
                 PROVE  V(k) \in Pipe /\ Same(V(k), q) /\ WellFunded(V(k))
      OBVIOUS
    <2>1. V(k) = Taken(e) \/ V(k) = q
      BY <1>4
    <2>2. QED
      BY <2>1 DEF Extends, Same
  <1>8. \A k \in 0..(Len(g) + 1) : k <= Len(f) /\ Tells(g, o, k) =>
           /\ k \in 0..(Len(f) + 1) /\ Tells(f, o, k) /\ V(k) = View(f, o, p, k) /\ V(k) \in Pipe
    BY <1>3, <1>4 DEF Sound
  <1>9. Sound(g, o, q, s)
    <2> SUFFICES ASSUME NEW k \in 0..(Len(g) + 1), Tells(g, o, k)
                 PROVE  V(k) \in Pipe /\ WellFunded(V(k)) /\ Covers(s, V(k))
      BY DEF Sound, V
    <2>1. CASE k <= Len(f)
      BY <1>8, <2>1 DEF Sound
    <2>2. CASE ~(k <= Len(f))
      <3>1. V(k) \in Pipe /\ Same(V(k), q) /\ WellFunded(V(k))
        BY <1>3, <1>7, <2>2
      <3>2. QED
        BY <3>1 DEF Extends, Same, Covers
    <2>3. QED
      BY <2>1, <2>2
  <1>10. Ordered(g, o, q)
    <2> SUFFICES ASSUME NEW i \in 0..(Len(g) + 1), NEW j \in 0..(Len(g) + 1), i <= j,
                        Tells(g, o, i), Tells(g, o, j)
                 PROVE  /\ V(i).nonce <= V(j).nonce
                        /\ SameLife(g, i, j) => Within(V(i), V(j))
      BY DEF Ordered, V
    <2>1. CASE j <= Len(f)
      <3>1. /\ i \in 0..(Len(f) + 1) /\ j \in 0..(Len(f) + 1) /\ Tells(f, o, i) /\ Tells(f, o, j)
            /\ V(i) = View(f, o, p, i) /\ V(j) = View(f, o, p, j)
        BY <1>3, <1>8, <2>1
      <3>2. SameLife(g, i, j) => SameLife(f, i, j)
        BY <1>6
      <3>3. QED
        BY <3>1, <3>2 DEF Ordered
    <2>2. CASE i <= Len(f) /\ j > Len(f)
      <3>1. i \in 0..Len(f) /\ Tells(f, o, i) /\ V(i) = View(f, o, p, i) /\ V(i) \in Pipe
        BY <1>3, <1>8, <2>2
      <3>2. Continues(e, p, q)
        BY <3>1
      <3>3. V(i).nonce <= p.nonce /\ (SameLife(f, i, Len(f) + 1) => Within(V(i), p))
        <4>1. i \in 0..(Len(f) + 1) /\ Len(f) + 1 \in 0..(Len(f) + 1) /\ i <= Len(f) + 1
          BY <1>3, <3>1
        <4>2. QED
          BY <1>5, <3>1, <4>1 DEF Ordered
      <3>4. V(j) \in Pipe /\ Same(V(j), q)
        BY <1>7, <2>2
      <3>5. V(i).nonce \in Nat /\ p.nonce \in Nat /\ q.nonce \in Nat /\ V(j).nonce = q.nonce
        BY <1>1, <3>1, <3>4 DEF Pipe, Same
      <3>6. V(i).nonce <= V(j).nonce
        BY <3>2, <3>3, <3>5 DEF Continues
      <3>7. ASSUME SameLife(g, i, j) PROVE Within(V(i), V(j))
        <4>1. ~Terminal(e) /\ SameLife(f, i, Len(f) + 1)
          BY <1>6, <2>2, <3>7
        <4>2. Within(V(i), p) /\ Within(p, q) /\ p.nonce <= q.nonce
          BY <3>2, <3>3, <4>1 DEF Continues
        <4>3. Within(V(i), q)
          BY <1>1, <3>1, <3>3, <4>2, WithinTransitive
        <4>4. QED
          BY <3>4, <4>3 DEF Within, Same
      <3>8. QED
        BY <3>6, <3>7
    <2>3. CASE i > Len(f)
      <3>1. V(i) \in Pipe /\ V(j) \in Pipe /\ Same(V(i), q) /\ Same(V(j), q)
        BY <1>3, <1>7, <2>3
      <3>2. Same(V(i), V(j)) /\ V(i).nonce \in Nat
        BY <3>1 DEF Same, Pipe
      <3>3. QED
        BY <3>1, <3>2, WithinSame DEF Same
    <2>4. QED
      BY <1>3, <2>1, <2>2, <2>3
  <1>11. QED
    BY <1>9, <1>10 DEF g, V

\* What could be taken to the chain still can, or it was, or the life has ended.
LEMMA AppendEnforceable ==
    ASSUME NEW f \in Seq(Notices), NEW e, NEW o, NEW p \in Pipe, NEW q, NEW s \in Transfer,
           Enforceable(f, o, p, s), Extends(e, p, q, s), Continues(e, p, q)
    PROVE  Enforceable(Append(f, e), o, q, s)
  <1> DEFINE g == Append(f, e)
  <1>1. e \in Notices /\ e.type # "burn" /\ q \in Pipe
    BY DEF Extends
  <1>2. Appended(g, f, e, o, p, q)
    BY <1>1, AppendedViews
  <1> HIDE DEF g
  <1>3. Len(f) \in Nat /\ Len(g) = Len(f) + 1 /\ g \in Seq(Notices)
    BY <1>2 DEF Appended
  <1> SUFFICES ASSUME NEW k \in 0..(Len(g) + 1), Tells(g, o, k), SameLife(g, 0, k),
                      My(View(g, o, q, k)) = 0
               PROVE  /\ s.nonce > View(g, o, q, k).nonce
                      /\ s.my + s.their = Claims(View(g, o, q, k))
    BY DEF Enforceable, g
  <1>4. 0 \in 0..(Len(g) + 1) /\ 0 <= Len(f)
    BY <1>3
  <1>5. CASE k <= Len(f)
    <2>1. /\ k \in 0..(Len(f) + 1) /\ Tells(f, o, k) /\ SameLife(f, 0, k)
          /\ View(g, o, q, k) = View(f, o, p, k)
      BY <1>2, <1>3, <1>4, <1>5 DEF Appended
    <2>2. QED
      BY <2>1 DEF Enforceable
  <1>6. CASE k > Len(f)
    <2>1. ~Terminal(e) /\ SameLife(f, 0, Len(f) + 1)
      BY <1>2, <1>3, <1>4, <1>6 DEF Appended
    <2>2. View(g, o, q, k) = Taken(e) \/ View(g, o, q, k) = q
      BY <1>2, <1>3, <1>6 DEF Appended
    <2>3. Same(View(g, o, q, k), q)
      BY <2>2 DEF Extends, Same
    <2>4. Within(p, q) /\ My(q) = 0
      BY <2>1, <2>3 DEF Continues, Same
    <2>5. s.nonce > p.nonce /\ s.my + s.their = Claims(p)
      <3>1. Len(f) + 1 \in 0..(Len(f) + 1) /\ Tells(f, o, Len(f) + 1)
            /\ View(f, o, p, Len(f) + 1) = p
        BY <1>2, <1>3 DEF Appended
      <3>2. My(p) = 0
        BY <2>4 DEF Within
      <3>3. QED
        BY <2>1, <3>1, <3>2 DEF Enforceable
    <2>6. Claims(p) # 0
      BY <2>5 DEF Transfer
    <2>7. QED
      BY <2>3, <2>4, <2>5, <2>6 DEF Within, Same
  <1>7. QED
    BY <1>3, <1>5, <1>6

\* A block leaves the views as they are.
LEMMA BurnRenames ==
    ASSUME NEW f \in Seq(Notices), NEW e \in Notices, e.type = "burn", NEW o, NEW p, NEW s,
           Sound(f, o, p, s)
    PROVE  \E h : Renames(h, f, o, p, Append(f, e), o, p) /\ h[0] = 0
  <1> DEFINE g == Append(f, e)
             h == [k \in 0..(Len(g) + 1) |-> IF k <= Len(f) THEN k ELSE Len(f) + 1]
  <1>1. /\ Len(g) = Len(f) + 1 /\ Len(f) \in Nat
        /\ g[Len(f) + 1] = e /\ \A m \in 1..Len(f) : g[m] = f[m]
    OBVIOUS
  <1>2. /\ \A k \in 0..(Len(g) + 1) : h[k] = IF k <= Len(f) THEN k ELSE Len(f) + 1
        /\ h[0] = 0
    BY <1>1
  <1> HIDE DEF g, h
  <1>3. ASSUME NEW k \in 0..(Len(g) + 1)
        PROVE  h[k] \in 0..(Len(f) + 1)
    BY <1>1, <1>2
  <1>4. \A i, j \in 0..(Len(g) + 1) : i <= j => h[i] <= h[j]
    BY <1>1, <1>2
  <1>5. ASSUME NEW k \in 0..(Len(g) + 1), Tells(g, o, k)
        PROVE  Tells(f, o, h[k]) /\ View(g, o, p, k) = View(f, o, p, h[k])
    <2>1. CASE k <= Len(f)
      <3>1. h[k] = k
        BY <1>2, <2>1
      <3>2. Tells(f, o, k)
        BY <1>1, <1>5, <2>1 DEF Tells
      <3>3. View(g, o, p, k) = View(f, o, p, k)
        BY <1>1, <2>1 DEF View
      <3>4. QED
        BY <3>1, <3>2, <3>3
    <2>2. CASE ~(k <= Len(f))
      <3>1. h[k] = Len(f) + 1 /\ k # Len(f) + 1
        BY <1>1, <1>2, <1>5, <2>2 DEF Tells
      <3>2. Tells(f, o, Len(f) + 1) /\ View(f, o, p, Len(f) + 1) = p
        BY <1>1 DEF Tells, View
      <3>3. View(g, o, p, k) = p
        BY <1>1, <2>2, <3>1 DEF View
      <3>4. QED
        BY <3>1, <3>2, <3>3
    <2>3. QED
      BY <2>1, <2>2
  <1>6. ASSUME NEW k \in 0..(Len(g) + 1), Tells(g, o, k)
        PROVE  /\ Same(View(g, o, p, k), View(f, o, p, h[k]))
               /\ View(g, o, p, k) \in Pipe /\ WellFunded(View(g, o, p, k))
    BY <1>3, <1>5, <1>6 DEF Sound, Same
  <1>7. ASSUME NEW i \in 0..(Len(g) + 1), NEW j \in 0..(Len(g) + 1), SameLife(g, i, j)
        PROVE  SameLife(f, h[i], h[j])
    BY <1>1, <1>2, <1>7 DEF SameLife
  <1>8. Renames(h, f, o, p, g, o, p)
    BY <1>3, <1>4, <1>5, <1>6, <1>7 DEF Renames
  <1>9. QED
    BY <1>2, <1>8 DEF g

\* The lives are counted on.
LEMMA LivesAppended ==
    ASSUME NEW f \in Seq(Notices), NEW e \in Notices, NEW seen \in Nat, NEW now \in Nat,
           LivesFit(f, seen, now)
    PROVE  LivesFit(Append(f, e), seen, IF Terminal(e) THEN now + 1 ELSE now)
  <1> DEFINE g == Append(f, e)
             after == IF Terminal(e) THEN now + 1 ELSE now
  <1>1. PICK c \in [0..Len(f) -> 0..now] : Counts(c, f, seen, now)
    BY DEF LivesFit
  <1> DEFINE d == [k \in 0..Len(g) |-> IF k <= Len(f) THEN c[k] ELSE after]
  <1>2. /\ Len(g) = Len(f) + 1 /\ Len(f) \in Nat
        /\ g[Len(f) + 1] = e /\ \A m \in 1..Len(f) : g[m] = f[m]
    OBVIOUS
  <1>3. after \in Nat /\ now <= after
    OBVIOUS
  <1>4. \A k \in 0..Len(g) : d[k] = IF k <= Len(f) THEN c[k] ELSE after
    OBVIOUS
  <1>5. d \in [0..Len(g) -> 0..after]
    BY <1>2, <1>3
  <1>6. c[0] = seen /\ c[Len(f)] = now /\ \A k \in 0..Len(f) : c[k] \in 0..now
    BY <1>1 DEF Counts
  <1> HIDE DEF g, d
  <1>7. d[0] = seen /\ d[Len(g)] = after
    BY <1>2, <1>4, <1>6
  <1>8. ASSUME NEW i \in 0..Len(g), NEW j \in 0..Len(g), i <= j PROVE d[i] <= d[j]
    <2>1. CASE j <= Len(f)
      BY <1>1, <1>2, <1>4, <1>8, <2>1 DEF Counts
    <2>2. CASE ~(j <= Len(f))
      <3>1. d[j] = after
        BY <1>4, <2>2
      <3>2. d[i] <= after /\ after <= after
        BY <1>2, <1>3, <1>4, <1>6
      <3>3. QED
        BY <3>1, <3>2
    <2>3. QED
      BY <2>1, <2>2
  <1>9. ASSUME NEW k \in 1..Len(g)
        PROVE  d[k] = IF Terminal(g[k]) THEN d[k - 1] + 1 ELSE d[k - 1]
    <2>1. CASE k <= Len(f)
      <3>1. k \in 1..Len(f) /\ k - 1 \in 0..Len(f) /\ k \in 0..Len(g) /\ k - 1 \in 0..Len(g)
        BY <1>2, <2>1
      <3>2. d[k] = c[k] /\ d[k - 1] = c[k - 1] /\ g[k] = f[k]
        BY <1>2, <1>4, <3>1
      <3>3. QED
        BY <1>1, <3>1, <3>2 DEF Counts
    <2>2. CASE ~(k <= Len(f))
      <3>1. k = Len(f) + 1 /\ d[k] = after /\ d[k - 1] = now /\ g[k] = e
        BY <1>2, <1>4, <1>6, <2>2
      <3>2. QED
        BY <3>1
    <2>3. QED
      BY <2>1, <2>2
  <1>10. Counts(d, g, seen, after)
    BY <1>7, <1>8, <1>9 DEF Counts
  <1>11. QED
    BY <1>5, <1>10 DEF LivesFit, g

\* The node learns of a life.
LEMMA LivesPosted ==
    ASSUME NEW f \in Seq(Notices), f # <<>>, NEW seen \in Nat, NEW now \in Nat,
           LivesFit(f, seen, now)
    PROVE  LivesFit(Tail(f), IF Terminal(f[1]) THEN seen + 1 ELSE seen, now)
  <1> DEFINE g == Tail(f)
             after == IF Terminal(f[1]) THEN seen + 1 ELSE seen
  <1>1. PICK c \in [0..Len(f) -> 0..now] : Counts(c, f, seen, now)
    BY DEF LivesFit
  <1> DEFINE d == [k \in 0..Len(g) |-> c[k + 1]]
  <1>2. Len(f) \in Nat /\ Len(g) = Len(f) - 1 /\ Len(f) >= 1 /\ \A m \in 1..Len(g) : g[m] = f[m + 1]
    OBVIOUS
  <1>3. \A k \in 0..Len(g) : d[k] = c[k + 1] /\ k + 1 \in 0..Len(f)
    BY <1>2
  <1>4. d \in [0..Len(g) -> 0..now]
    BY <1>2, <1>3
  <1> HIDE DEF g, d
  <1>5. d[0] = after /\ d[Len(g)] = now
    BY <1>1, <1>2, <1>3 DEF Counts
  <1>6. ASSUME NEW i \in 0..Len(g), NEW j \in 0..Len(g), i <= j PROVE d[i] <= d[j]
    <2>1. i + 1 <= j + 1
      BY <1>2, <1>6
    <2>2. QED
      BY <1>1, <1>3, <2>1 DEF Counts
  <1>7. ASSUME NEW k \in 1..Len(g)
        PROVE  d[k] = IF Terminal(g[k]) THEN d[k - 1] + 1 ELSE d[k - 1]
    <2>1. /\ k + 1 \in 1..Len(f) /\ (k + 1) - 1 = k /\ (k - 1) + 1 = k
          /\ k \in 0..Len(g) /\ k - 1 \in 0..Len(g)
      BY <1>2
    <2>2. d[k] = c[k + 1] /\ d[k - 1] = c[k] /\ g[k] = f[k + 1]
      BY <1>2, <1>3, <2>1
    <2>3. QED
      BY <1>1, <2>1, <2>2 DEF Counts
  <1>8. Counts(d, g, after, now)
    BY <1>5, <1>6, <1>7 DEF Counts
  <1>9. QED
    BY <1>4, <1>8 DEF LivesFit, g

--------------------------------------------------------------------------------
(* Transactions *)

\* The transaction that has the notice e takes the pipe on.
Moves(e) ==
    /\ Notice = <<e>> /\ height' = height /\ (Emptied <=> Terminal(e))
    /\ pipes' \in [PipeKeys -> Pipe] /\ ThePipe \in mapped'
    /\ Extends(e, OnChain, OnChain', stored)
    /\ ThePipe \in mapped => Continues(e, OnChain, OnChain')
    /\ OnChain'.closer = NoPrincipal => My(OnChain') = 0
    /\ OnChain'.closer # NoPrincipal =>
          OnChain'.pending1 = NoPending /\ OnChain'.pending2 = NoPending

\* The notice of an event that prints the pipe p.
NoticeOf(type, p, sender) == [type |-> type, key |-> ThePipe, pipe |-> p, sender |-> sender]

\* An event becomes a notice.
LEMMA EmitNotice ==
    ASSUME NEW type \in DemoEvents, NEW p \in Pipe, NEW sender \in Principals,
           Emit(type, ThePipe, p, sender), height' = height,
           NEW e, e = NoticeOf(type, p, sender)
    PROVE  /\ Notice = <<e>> /\ e \in Notices /\ e.type # "burn" /\ e.pipe = p
           /\ Emptied <=> Terminal(e)
           /\ Terminal(e) <=> type \in {"dispute-closure", "finalize"}
  <1>1. ThePipe \in PipeKeys
    BY TheSides
  <1>2. e \in Notices /\ e.type = type /\ e.pipe = p /\ e.key = ThePipe /\ e.sender = sender
    BY <1>1 DEF Notices, NoticeOf
  <1>3. event' = e
    BY DEF Emit, NoticeOf
  <1>4. event'.type = type /\ event' # NoEvent
    BY <1>2, <1>3 DEF NoEvent, DemoEvents
  <1>5. <<[type |-> event'.type, key |-> event'.key, pipe |-> event'.pipe,
           sender |-> event'.sender]>> = <<e>>
    BY <1>2, <1>3 DEF NoticeOf
  <1>6. Notice = <<e>>
    BY <1>4, <1>5 DEF Notice
  <1>7. Emptied <=> Terminal(e)
    BY <1>2, <1>3 DEF Emptied, Terminal, Node!TerminalEvents
  <1>8. Terminal(e) <=> type \in {"dispute-closure", "finalize"}
    BY <1>2 DEF Terminal, Node!TerminalEvents, DemoEvents
  <1>9. QED
    BY <1>2, <1>4, <1>6, <1>7, <1>8 DEF DemoEvents

\* The pipe is stored.
LEMMA StoredPipe ==
    ASSUME pipes \in [PipeKeys -> Pipe], NEW q \in Pipe, StorePipe(ThePipe, q)
    PROVE  pipes' \in [PipeKeys -> Pipe] /\ OnChain' = q
  BY TheSides DEF StorePipe, OnChain

\* What is known of the pipe before a transaction.
LEMMA ChainBefore ==
    ASSUME DemoTypes, PipeInv
    PROVE  /\ pipes \in [PipeKeys -> Pipe] /\ height \in Nat /\ OnChain = pipes[ThePipe]
           /\ OnChain \in Pipe /\ WellFunded(OnChain) /\ Covers(stored, OnChain)
           /\ SettlePending(OnChain) \in Pipe /\ WellFunded(SettlePending(OnChain))
           /\ Same(SettlePending(OnChain), OnChain)
           /\ SettlePending(OnChain).closer = OnChain.closer
           /\ OnChain.closer = NoPrincipal => My(OnChain) = 0
  <1>1. pipes \in [PipeKeys -> Pipe] /\ height \in Nat /\ feed \in Seq(Notices)
    BY DEF DemoTypes
  <1>2. OnChain \in Pipe
    BY <1>1, TheSides DEF OnChain
  <1>3. WellFunded(OnChain) /\ Covers(stored, OnChain)
    <2>1. /\ Len(feed) + 1 \in 0..(Len(feed) + 1) /\ Tells(feed, observed, Len(feed) + 1)
          /\ View(feed, observed, OnChain, Len(feed) + 1) = OnChain
      BY <1>1 DEF Tells, View
    <2>2. QED
      BY <2>1 DEF PipeInv, Sound
  <1>4. OnChain.closer = NoPrincipal => My(OnChain) = 0
    BY DEF PipeInv
  <1>5. QED
    BY <1>1, <1>2, <1>3, <1>4, SettledAlike DEF OnChain

\* Views that are alike agree on what a stored state covers.
LEMMA CoversSame ==
    ASSUME NEW a, NEW b, NEW s, Same(a, b), Covers(s, b)
    PROVE  Covers(s, a)
  BY DEF Same, Covers

\* fund-pipe: the payer owns nothing of an open pipe before.
LEMMA OpenMoves ==
    ASSUME DemoTypes, PipeInv, NEW nonce \in Nat,
           FundPipe(ThePipe, Payer, OpenAmount, nonce)
    PROVE  \E e : Moves(e)
  <1> DEFINE p == IF ThePipe \in mapped THEN OnChain ELSE EmptyPipe(nonce)
             r == SettlePending(p)
             q == AddPending(r, ThePipe, Payer, OpenAmount)
             e == NoticeOf("fund-pipe", q, Payer)
  <1>1. /\ p \in Pipe /\ WellFunded(p) /\ (p.closer = NoPrincipal => My(p) = 0)
    BY ChainBefore, ClosedFacts
  <1>2. ThePipe \in mapped => p = OnChain
    OBVIOUS
  <1>3. /\ PendingOf(r, ThePipe, Payer) = NoPending /\ r.closer = NoPrincipal
        /\ ~IsFunded(Payer, ThePipe, q) /\ StorePipe(ThePipe, q) /\ ThePipe \in mapped'
        /\ Emit("fund-pipe", ThePipe, q, Payer) /\ height' = height
    BY DEF FundPipe, OnChain
  <1> HIDE DEF p
  <1>4. r \in Pipe /\ WellFunded(r) /\ Same(r, p) /\ r.closer = p.closer
    BY <1>1, SettledAlike
  <1> HIDE DEF r
  <1>5. height + CONFIRMATION_DEPTH \in Nat
    BY ChainBefore, DemoConstants
  <1>6. /\ q \in Pipe /\ q.closer = r.closer /\ q.nonce = r.nonce
        /\ q.balance1 = r.balance1 /\ q.balance2 = r.balance2
        /\ Payer = ThePipe.principal1 => q.pending2 = r.pending2
        /\ Payer # ThePipe.principal1 => q.pending1 = r.pending1
    <2>1. CASE Payer = ThePipe.principal1
      BY <1>4, <1>5, <2>1, DemoConstants DEF AddPending, Pipe, Pending
    <2>2. CASE Payer # ThePipe.principal1
      BY <1>4, <1>5, <2>2, DemoConstants DEF AddPending, Pipe, Pending
    <2>3. QED
      BY <2>1, <2>2
  <1> HIDE DEF q
  <1>7. My(q) = My(r) /\ Their(q) = Their(r) /\ MyPending(q) = MyPending(r)
    BY <1>6, TheSides DEF My, Their, MyPending
  <1>8. My(r) = 0 /\ MyPending(r) = NoPending
    BY <1>1, <1>3, <1>4 DEF Same, WellFunded
  <1>9. Their(r) = 0 /\ TheirPending(r) = NoPending
    <2>1. q.balance1 \in Nat /\ q.balance2 \in Nat
      BY <1>6, PipeParts
    <2>2. Their(q) = 0
      BY <1>3, <2>1, TheSides DEF Their, IsFunded
    <2>3. TheirPending(r) = NoPending
      BY <1>3, TheSides DEF TheirPending, PendingOf
    <2>4. QED
      BY <1>7, <2>2, <2>3
  <1>10. Claims(r) = 0
    BY <1>4, <1>8, <1>9, PipeParts DEF NoPending
  <1>11. WellFunded(q) /\ My(q) = 0 /\ q.nonce = p.nonce /\ Claims(p) = 0 /\ My(p) = 0
    BY <1>4, <1>6, <1>7, <1>8, <1>9, <1>10 DEF WellFunded, Same
  <1>12. Within(p, q) /\ p.nonce <= q.nonce
    BY <1>1, <1>11, PipeParts DEF Within
  <1>13. /\ Notice = <<e>> /\ e \in Notices /\ e.type # "burn" /\ e.pipe = q
         /\ (Emptied <=> Terminal(e)) /\ ~Terminal(e)
    BY <1>3, <1>6, EmitNotice, TheSides DEF DemoEvents
  <1>14. Taken(e) = q
    BY <1>13 DEF Taken
  <1> HIDE DEF e
  <1>15. pipes' \in [PipeKeys -> Pipe] /\ OnChain' = q
    BY <1>3, <1>6, StoredPipe, ChainBefore
  <1>16. Extends(e, OnChain, q, stored)
    BY <1>6, <1>11, <1>13, <1>14 DEF Extends, Same, Covers
  <1>17. ThePipe \in mapped => Continues(e, OnChain, q)
    BY <1>2, <1>12 DEF Continues
  <1>18. q.closer = NoPrincipal
    BY <1>3, <1>6
  <1>19. Moves(e)
    BY <1>3, <1>11, <1>13, <1>15, <1>16, <1>17, <1>18 DEF Moves
  <1>20. QED
    BY <1>19

\* force-cancel: the settled pipe stays as it is.
LEMMA CancelMoves ==
    ASSUME DemoTypes, PipeInv, ForceCancel(ThePipe, Payer)
    PROVE  \E e : Moves(e)
  <1> DEFINE p == OnChain
             r == SettlePending(p)
             q == [r EXCEPT !.expiresAt = height + WAITING_PERIOD, !.closer = Payer]
             e == NoticeOf("force-cancel", r, Payer)
  <1>1. /\ p \in Pipe /\ WellFunded(p) /\ Covers(stored, p) /\ height \in Nat
        /\ r \in Pipe /\ WellFunded(r) /\ Same(r, p)
    BY ChainBefore
  <1>2. /\ r.pending1 = NoPending /\ r.pending2 = NoPending /\ height' = height
        /\ StorePipe(ThePipe, q) /\ ThePipe \in mapped'
        /\ Emit("force-cancel", ThePipe, r, Payer)
    BY DEF ForceCancel, OnChain, HasPending
  <1> HIDE DEF p, r
  <1>3. /\ q \in Pipe /\ q.balance1 = r.balance1 /\ q.balance2 = r.balance2
        /\ q.pending1 = r.pending1 /\ q.pending2 = r.pending2
        /\ q.nonce = r.nonce /\ q.closer = Payer
    <2>1. height + WAITING_PERIOD \in Nat /\ Payer \in Principals
      BY <1>1, DemoConstants, TheSides
    <2>2. QED
      BY <2>1, <1>1 DEF Pipe
  <1> HIDE DEF q
  <1>4. Same(r, q) /\ WellFunded(q) /\ Same(q, p) /\ Same(p, q)
    BY <1>1, <1>3 DEF Same, My, Their, MyPending, TheirPending, WellFunded, Claims
  <1>5. Within(p, q) /\ p.nonce <= q.nonce /\ Covers(stored, q)
    <2>1. p.nonce \in Nat /\ q.nonce = p.nonce
      BY <1>1, <1>4 DEF Pipe, Same
    <2>2. QED
      BY <1>1, <1>3, <1>4, <2>1, WithinSame, CoversSame
  <1>6. /\ Notice = <<e>> /\ e \in Notices /\ e.type # "burn" /\ e.pipe = r
        /\ (Emptied <=> Terminal(e)) /\ ~Terminal(e)
    BY <1>1, <1>2, EmitNotice, TheSides DEF DemoEvents
  <1>7. Taken(e) = r
    BY <1>6 DEF Taken
  <1> HIDE DEF e
  <1>8. pipes' \in [PipeKeys -> Pipe] /\ OnChain' = q
    BY <1>2, <1>3, StoredPipe, ChainBefore
  <1>9. Extends(e, p, q, stored)
    BY <1>1, <1>3, <1>4, <1>5, <1>6, <1>7 DEF Extends
  <1>10. Continues(e, p, q)
    BY <1>5 DEF Continues
  <1>11. q.closer # NoPrincipal /\ q.pending1 = NoPending /\ q.pending2 = NoPending
    BY <1>2, <1>3, TheSides
  <1>12. Moves(e)
    BY <1>2, <1>6, <1>8, <1>9, <1>10, <1>11 DEF Moves, p
  <1>13. QED
    BY <1>12

\* What a signed state makes of the pipe.
LEMMA SignedSides ==
    ASSUME NEW my \in Nat, NEW their \in Nat, NEW n \in Nat,
           NEW b, b = MapBalances(Counterparty, ThePipe, my, their)
    PROVE  /\ b.b1 \in Nat /\ b.b2 \in Nat
           /\ My(ClosedPipe(b.b1, b.b2, n)) = my /\ Their(ClosedPipe(b.b1, b.b2, n)) = their
  <1>1. CASE Counterparty = ThePipe.principal1
    BY <1>1 DEF MapBalances, My, Their, ClosedPipe
  <1>2. CASE Counterparty # ThePipe.principal1
    BY <1>2 DEF MapBalances, My, Their, ClosedPipe
  <1>3. QED
    BY <1>1, <1>2

\* force-close with the stored state.
LEMMA CloseMoves ==
    ASSUME DemoTypes, PipeInv, stored # None,
           ForceClose(ThePipe, Counterparty, stored.my, stored.their, stored.nonce, NoHeight,
                      Counterparty, Payer)
    PROVE  \E e : Moves(e)
  <1> DEFINE p == OnChain
             b == MapBalances(Counterparty, ThePipe, stored.my, stored.their)
             r == ClosedPipe(b.b1, b.b2, stored.nonce)
             q == [r EXCEPT !.expiresAt = height + WAITING_PERIOD, !.closer = Counterparty]
             e == NoticeOf("force-close", q, Counterparty)
  <1>1. p \in Pipe /\ height \in Nat /\ p.nonce \in Nat
    BY ChainBefore DEF Pipe
  <1>2. stored \in Transfer /\ stored.nonce \in Nat /\ stored.my \in Nat /\ stored.my # 0
        /\ stored.their \in Nat
    BY DEF DemoTypes, Transfer
  <1>3. /\ stored.nonce > p.nonce /\ StorePipe(ThePipe, q) /\ ThePipe \in mapped'
        /\ Emit("force-close", ThePipe, q, Counterparty) /\ height' = height
    BY DEF ForceClose, OnChain, NonceCheck
  <1> HIDE DEF p, b
  <1>4. r \in Pipe /\ WellFunded(r) /\ My(r) = stored.my /\ r.nonce = stored.nonce
        /\ r.pending1 = NoPending /\ r.pending2 = NoPending
    <2>1. b.b1 \in Nat /\ b.b2 \in Nat /\ My(r) = stored.my
      BY <1>2, SignedSides DEF b
    <2>2. QED
      BY <1>2, <2>1, ClosedFacts DEF ClosedPipe
  <1> HIDE DEF r
  <1>5. /\ q \in Pipe /\ q.balance1 = r.balance1 /\ q.balance2 = r.balance2
        /\ q.pending1 = r.pending1 /\ q.pending2 = r.pending2
        /\ q.nonce = r.nonce /\ q.closer = Counterparty
    <2>1. height + WAITING_PERIOD \in Nat /\ Counterparty \in Principals
      BY <1>1, DemoConstants, TheSides
    <2>2. QED
      BY <2>1, <1>4 DEF Pipe
  <1> HIDE DEF q
  <1>6. WellFunded(q) /\ My(q) = stored.my /\ q.nonce = stored.nonce
    BY <1>4, <1>5 DEF My, Their, MyPending, TheirPending, WellFunded
  <1>7. Within(p, q) /\ p.nonce <= q.nonce /\ Covers(stored, q)
    BY <1>1, <1>2, <1>3, <1>6 DEF Within, Covers
  <1>8. /\ Notice = <<e>> /\ e \in Notices /\ e.type # "burn" /\ e.pipe = q
        /\ (Emptied <=> Terminal(e)) /\ ~Terminal(e)
    BY <1>3, <1>5, EmitNotice, TheSides DEF DemoEvents
  <1>9. Taken(e) = q
    BY <1>8 DEF Taken
  <1> HIDE DEF e
  <1>10. pipes' \in [PipeKeys -> Pipe] /\ OnChain' = q
    BY <1>3, <1>5, StoredPipe, ChainBefore
  <1>11. Extends(e, p, q, stored)
    BY <1>5, <1>6, <1>7, <1>8, <1>9 DEF Extends, Same
  <1>12. Continues(e, p, q)
    BY <1>7 DEF Continues
  <1>13. q.closer # NoPrincipal /\ q.pending1 = NoPending /\ q.pending2 = NoPending
    BY <1>4, <1>5, TheSides
  <1>14. Moves(e)
    BY <1>3, <1>8, <1>10, <1>11, <1>12, <1>13 DEF Moves, p
  <1>15. QED
    BY <1>14

\* A pipe that is emptied.
LEMMA EmptiedMoves ==
    ASSUME DemoTypes, PipeInv, NEW n \in Nat, OnChain.nonce <= n, NEW p \in Pipe, p.nonce = n,
           NEW type \in {"dispute-closure", "finalize"}, NEW sender \in Principals,
           ResetPipe(ThePipe, n), ThePipe \in mapped', height' = height,
           Emit(type, ThePipe, p, sender)
    PROVE  \E e : Moves(e)
  <1> DEFINE q == EmptyPipe(n)
             e == NoticeOf(type, p, sender)
  <1>1. q \in Pipe /\ WellFunded(q) /\ q.nonce = n /\ My(q) = 0 /\ q.closer = NoPrincipal
    BY ClosedFacts
  <1>2. StorePipe(ThePipe, q)
    BY DEF ResetPipe
  <1>3. /\ Notice = <<e>> /\ e \in Notices /\ e.type # "burn" /\ e.pipe = p
        /\ (Emptied <=> Terminal(e)) /\ Terminal(e)
    BY EmitNotice DEF DemoEvents
  <1>4. Taken(e) = q
    BY <1>3 DEF Taken
  <1> HIDE DEF e, q
  <1>5. pipes' \in [PipeKeys -> Pipe] /\ OnChain' = q
    BY <1>1, <1>2, StoredPipe, ChainBefore
  <1>6. Extends(e, OnChain, q, stored)
    BY <1>1, <1>3, <1>4 DEF Extends, Same, Covers
  <1>7. Continues(e, OnChain, q)
    BY <1>1, <1>3 DEF Continues
  <1>8. Moves(e)
    BY <1>1, <1>3, <1>5, <1>6, <1>7 DEF Moves
  <1>9. QED
    BY <1>8

\* dispute-closure by the node, with a state that was stored.
LEMMA DisputeMoves ==
    ASSUME DemoTypes, PipeInv, NEW s \in disputes,
           DisputeClosure(ThePipe, Counterparty, s.my, s.their, s.nonce, NoHeight,
                          Counterparty, Payer)
    PROVE  \E e : Moves(e)
  <1> DEFINE b == MapBalances(Counterparty, ThePipe, s.my, s.their)
             r == ClosedPipe(b.b1, b.b2, s.nonce)
  <1>1. s.nonce \in Nat /\ s.my \in Nat /\ s.their \in Nat
    BY DEF DemoTypes, Transfer
  <1>2. /\ s.nonce > OnChain.nonce /\ ThePipe \in mapped /\ mapped' = mapped /\ height' = height
        /\ ResetPipe(ThePipe, s.nonce) /\ Emit("dispute-closure", ThePipe, r, Counterparty)
    BY DEF DisputeClosure, OnChain, NonceCheck
  <1>3. b.b1 \in Nat /\ b.b2 \in Nat
    BY <1>1, SignedSides
  <1> HIDE DEF b
  <1>4. r \in Pipe /\ r.nonce = s.nonce
    BY <1>1, <1>3, ClosedFacts
  <1> HIDE DEF r
  <1>5. OnChain.nonce \in Nat
    BY ChainBefore DEF Pipe
  <1>6. OnChain.nonce <= s.nonce
    BY <1>1, <1>2, <1>5
  <1>7. QED
    BY <1>1, <1>2, <1>4, <1>6, EmptiedMoves, TheSides

\* finalize, by either party.
LEMMA FinalizeMoves ==
    ASSUME DemoTypes, PipeInv, NEW sender \in {Payer, Counterparty}, Finalize(ThePipe, sender)
    PROVE  \E e : Moves(e)
  <1>1. /\ ThePipe \in mapped /\ mapped' = mapped /\ height' = height
        /\ ResetPipe(ThePipe, OnChain.nonce) /\ Emit("finalize", ThePipe, OnChain, sender)
    BY DEF Finalize, FinalizeWhen, OnChain
  <1>2. OnChain \in Pipe /\ OnChain.nonce \in Nat /\ OnChain.nonce <= OnChain.nonce
    BY ChainBefore DEF Pipe
  <1>3. sender \in Principals
    BY TheSides
  <1>4. QED
    BY <1>1, <1>2, <1>3, EmptiedMoves

--------------------------------------------------------------------------------
(* Steps of the chain *)

\* What the chain changes is as it should be.
ChainTypes ==
    pipes \in [PipeKeys -> Pipe] /\ height \in Nat /\ feed \in Seq(Notices) /\ lives \in Nat

\* A transaction with an event keeps the invariant.
LEMMA MovesKeep ==
    ASSUME DemoTypes, PipeInv, StoredInv, NEW e, Moves(e), Mined
    PROVE  ChainTypes' /\ PipeInv' /\ StoredInv'
  <1>1. /\ feed \in Seq(Notices) /\ lives \in Nat /\ seenLives \in Nat /\ height \in Nat
        /\ OnChain \in Pipe /\ stored \in Transfer \cup {None}
    BY ChainBefore DEF DemoTypes
  <1>2. e \in Notices
    BY DEF Moves, Extends
  <1>3. /\ feed' = Append(feed, e)
        /\ lives' = IF Terminal(e) THEN lives + 1 ELSE lives
    BY <1>1, <1>2 DEF Mined, Moves
  <1>4. /\ observed' = observed /\ stored' = stored /\ newer' = newer
        /\ paidIn' = paidIn /\ seenLives' = seenLives
    BY DEF Mined, nodeVars
  <1>5. ChainTypes'
    BY <1>1, <1>2, <1>3 DEF ChainTypes, Moves
  <1>6. PipeInv'
    <2>1. Ordered(feed, observed, OnChain) /\ Sound(feed, observed, OnChain, stored)
      BY DEF PipeInv
    <2>2. Extends(e, OnChain, OnChain', stored)
      BY DEF Moves
    <2>3. \/ \A k \in 0..Len(feed) : ~Tells(feed, observed, k)
          \/ Continues(e, OnChain, OnChain')
      <3>1. CASE ThePipe \in mapped
        BY <3>1 DEF Moves
      <3>2. CASE ThePipe \notin mapped
        BY <1>1, <3>2 DEF PipeInv, Tells
      <3>3. QED
        BY <3>1, <3>2
    <2>4. /\ Ordered(feed', observed', OnChain')
          /\ Sound(feed', observed', OnChain', stored')
      BY <1>1, <1>3, <1>4, <2>1, <2>2, <2>3, AppendOrdered
    <2>5. /\ OnChain'.closer = NoPrincipal => My(OnChain') = 0
          /\ OnChain'.closer # NoPrincipal =>
                OnChain'.pending1 = NoPending /\ OnChain'.pending2 = NoPending
          /\ ThePipe \in mapped'
      BY DEF Moves
    <2>6. QED
      BY <2>4, <2>5 DEF PipeInv
  <1>7. StoredInv'
    <2>1. LivesFit(feed', seenLives', lives')
      BY <1>1, <1>2, <1>3, <1>4, LivesAppended DEF StoredInv
    <2>2. ASSUME stored' # None, paidIn' = seenLives'
          PROVE  Enforceable(feed', observed', OnChain', stored')
      <3>1. stored # None /\ stored \in Transfer /\ paidIn = seenLives
        BY <1>1, <1>4, <2>2
      <3>2. Enforceable(feed, observed, OnChain, stored) /\ observed # None
        BY <3>1 DEF StoredInv
      <3>3. ThePipe \in mapped
        BY <3>2 DEF PipeInv
      <3>4. Extends(e, OnChain, OnChain', stored) /\ Continues(e, OnChain, OnChain')
        BY <3>3 DEF Moves
      <3>5. Enforceable(Append(feed, e), observed, OnChain', stored)
        BY <1>1, <3>1, <3>2, <3>4, AppendEnforceable
      <3>6. QED
        BY <1>3, <1>4, <3>5
    <2>3. QED
      BY <1>4, <2>1, <2>2 DEF StoredInv
  <1>8. QED
    BY <1>5, <1>6, <1>7

\* A block keeps the invariant.
LEMMA BurnKeeps ==
    ASSUME DemoTypes, PipeInv, StoredInv, BurnBlock, Mined
    PROVE  ChainTypes' /\ PipeInv' /\ StoredInv'
  <1> DEFINE e == [type |-> "burn", height |-> height']
  <1>1. /\ feed \in Seq(Notices) /\ lives \in Nat /\ seenLives \in Nat /\ height \in Nat
        /\ stored \in Transfer \cup {None} /\ pipes \in [PipeKeys -> Pipe]
    BY DEF DemoTypes
  <1>2. /\ height' \in Nat /\ height' # height /\ event' = NoEvent
        /\ pipes' = pipes /\ OnChain' = OnChain /\ mapped' = mapped
    BY <1>1 DEF BurnBlock, OnChain
  <1>3. e \in Notices /\ e.type = "burn" /\ ~Terminal(e)
    BY <1>2 DEF Notices, Terminal, Node!TerminalEvents
  <1>4. Notice = <<e>> /\ ~Emptied
    BY <1>2 DEF Notice, Emptied, NoEvent
  <1> HIDE DEF e
  <1>5. feed' = Append(feed, e) /\ lives' = lives
    BY <1>1, <1>3, <1>4 DEF Mined
  <1>6. /\ observed' = observed /\ stored' = stored /\ newer' = newer
        /\ paidIn' = paidIn /\ seenLives' = seenLives
    BY DEF Mined, nodeVars
  <1>7. ChainTypes'
    BY <1>1, <1>2, <1>3, <1>5 DEF ChainTypes
  <1>8. PICK h : Renames(h, feed, observed, OnChain, feed', observed, OnChain) /\ h[0] = 0
    BY <1>1, <1>3, <1>5, BurnRenames DEF PipeInv
  <1>9. feed' \in Seq(Notices)
    BY <1>1, <1>3, <1>5
  <1>10. PipeInv'
    <2>1. /\ Ordered(feed', observed', OnChain')
          /\ Sound(feed', observed', OnChain', stored')
      BY <1>1, <1>2, <1>6, <1>8, <1>9, RenamedOrdered DEF PipeInv
    <2>2. ThePipe \notin mapped' => \A k \in 1..Len(feed') : feed'[k].type = "burn"
      <3> SUFFICES ASSUME ThePipe \notin mapped, NEW k \in 1..Len(feed')
                   PROVE  feed'[k].type = "burn"
        BY <1>2
      <3>1. feed'[k] = e \/ (k \in 1..Len(feed) /\ feed'[k] = feed[k])
        BY <1>1, <1>3, <1>5
      <3>2. QED
        BY <1>3, <3>1 DEF PipeInv
    <2>3. QED
      BY <1>2, <1>6, <2>1, <2>2 DEF PipeInv
  <1>11. StoredInv'
    <2>1. LivesFit(feed', seenLives', lives')
      BY <1>1, <1>3, <1>5, <1>6, LivesAppended DEF StoredInv
    <2>2. ASSUME stored' # None, paidIn' = seenLives'
          PROVE  Enforceable(feed', observed', OnChain', stored')
      <3>1. Enforceable(feed, observed, OnChain, stored)
        BY <1>6, <2>2 DEF StoredInv
      <3>2. SameLife(feed, 0, h[0])
        BY <1>1, <1>8 DEF SameLife
      <3>3. Enforceable(feed', observed, OnChain, stored)
        BY <1>1, <1>8, <1>9, <3>1, <3>2, RenamedEnforceable
      <3>4. QED
        BY <1>2, <1>6, <3>3
    <2>3. QED
      BY <1>6, <2>1, <2>2 DEF StoredInv
  <1>12. QED
    BY <1>7, <1>10, <1>11

\* init-contract concerns no pipe.
LEMMA InitContractKeeps ==
    ASSUME DemoTypes, PipeInv, StoredInv, NEW sender, NEW token, InitContract(sender, token), Mined
    PROVE  ChainTypes' /\ PipeInv' /\ StoredInv'
  <1>1. feed \in Seq(Notices)
    BY DEF DemoTypes
  <1>2. /\ height' = height /\ event' = NoEvent /\ mapped' = mapped
        /\ pipes' = pipes /\ OnChain' = OnChain
    BY DEF InitContract, OnChain
  <1>3. Notice = <<>> /\ ~Emptied
    BY <1>2 DEF Notice, Emptied, NoEvent
  <1>4. feed' = feed /\ lives' = lives
    BY <1>1, <1>3 DEF Mined
  <1>5. /\ observed' = observed /\ stored' = stored /\ newer' = newer
        /\ paidIn' = paidIn /\ seenLives' = seenLives
    BY DEF Mined, nodeVars
  <1>6. QED
    BY <1>2, <1>4, <1>5 DEF DemoTypes, ChainTypes, PipeInv, StoredInv

\* A page that signs nothing, and one that nothing has happened to.
LEMMA TabsKeep ==
    ASSUME DemoTypes, TabsInv, ChainTypes', UNCHANGED nodeVars,
           \/ UNCHANGED tabs
           \/ \E t \in Tabs : Goto(t, Dialog)
    PROVE  DemoTypes' /\ TabsInv'
  <1>1. /\ observed' = observed /\ stored' = stored /\ newer' = newer
        /\ paidIn' = paidIn /\ seenLives' = seenLives /\ disputes' = disputes
    BY DEF nodeVars
  <1>2. tabs \in [Tabs -> TabStates]
    BY DEF DemoTypes
  <1>3. Dialog \in TabStates /\ Dialog.phase # "signing"
    BY DEF TabStates, Dialog
  <1>4. tabs' \in [Tabs -> TabStates] /\ \A t \in Tabs : tabs'[t] = tabs[t] \/ tabs'[t] = Dialog
    BY <1>2, <1>3 DEF Goto
  <1>5. DemoTypes'
    BY <1>1, <1>4 DEF DemoTypes, ChainTypes
  <1>6. TabsInv'
    BY <1>1, <1>3, <1>4 DEF TabsInv, TabFits
  <1>7. QED
    BY <1>5, <1>6

\* What the chain does keeps the invariant.
LEMMA ChainKeeps ==
    ASSUME DemoInv, Chain \/ Burn \/ \E t \in Tabs : MineOpen(t)
    PROVE  DemoInv'
  <1>1. DemoTypes /\ PipeInv /\ StoredInv /\ TabsInv
    BY DEF DemoInv
  <1>2. CASE Chain
    <2>1. Transaction /\ Mined /\ UNCHANGED tabs
      BY <1>2 DEF Chain
    <2>2. CASE \E p \in Principals, token \in Tokens : InitContract(p, token)
      BY <1>1, <2>1, <2>2, InitContractKeeps, TabsKeep DEF DemoInv, Mined
    <2>3. CASE \E e : Moves(e)
      BY <1>1, <2>1, <2>3, MovesKeep, TabsKeep DEF DemoInv, Mined
    <2>4. ForceCancel(ThePipe, Payer) => \E e : Moves(e)
      BY <1>1, CancelMoves
    <2>5. /\ stored # None
          /\ ForceClose(ThePipe, Counterparty, stored.my, stored.their, stored.nonce, NoHeight,
                        Counterparty, Payer)
          => \E e : Moves(e)
      BY <1>1, CloseMoves
    <2>6. (\E s \in disputes : DisputeClosure(ThePipe, Counterparty, s.my, s.their, s.nonce,
                                              NoHeight, Counterparty, Payer))
          => \E e : Moves(e)
      BY <1>1, DisputeMoves
    <2>7. (\E p \in {Payer, Counterparty} : Finalize(ThePipe, p)) => \E e : Moves(e)
      BY <1>1, FinalizeMoves
    <2>8. QED
      BY <2>1, <2>2, <2>3, <2>4, <2>5, <2>6, <2>7 DEF Transaction
  <1>3. CASE Burn
    <2>1. BurnBlock /\ Mined /\ UNCHANGED tabs /\ UNCHANGED nodeVars
      BY <1>3 DEF Burn, Mined
    <2>2. QED
      BY <1>1, <2>1, BurnKeeps, TabsKeep DEF DemoInv
  <1>4. CASE \E t \in Tabs : MineOpen(t)
    <2>1. PICK t \in Tabs : MineOpen(t)
      BY <1>4
    <2>2. /\ tabs[t].phase = "opening" /\ FundPipe(ThePipe, Payer, OpenAmount, tabs[t].nonce)
          /\ Goto(t, Dialog) /\ Mined /\ UNCHANGED nodeVars
      BY <2>1 DEF MineOpen, Mined
    <2>3. tabs[t] \in TabStates
      BY <1>1 DEF DemoTypes
    <2>4. tabs[t].nonce \in Nat
      BY <2>2, <2>3 DEF TabStates, Closed, Dialog
    <2>5. PICK e : Moves(e)
      BY <1>1, <2>2, <2>4, OpenMoves
    <2>6. ChainTypes' /\ PipeInv' /\ StoredInv'
      BY <1>1, <2>2, <2>5, MovesKeep
    <2>7. QED
      BY <1>1, <2>2, <2>6, TabsKeep DEF DemoInv
  <1>5. QED
    BY <1>2, <1>3, <1>4

--------------------------------------------------------------------------------
(* Steps of the node *)

\* A notice is posted: the node's pipe is now q.
Learns(q) ==
    /\ feed # <<>> /\ feed' = Tail(feed) /\ observed' = q
    /\ q \in Pipe \cup {None} /\ (q # None => WellFunded(q)) /\ (observed # None => q # None)
    /\ feed[1].type = "burn" => (q # None => observed # None /\ Same(q, observed))
    /\ feed[1].type # "burn" => q # None /\ Same(q, Taken(feed[1]))
    /\ seenLives' = IF Terminal(feed[1]) THEN seenLives + 1 ELSE seenLives
    /\ newer' = "onchain" \/ (newer' = newer /\ observed' = observed)
    /\ UNCHANGED <<pipes, height, mapped, tabs, lives, stored, paidIn>>
    /\ disputes' \in SUBSET Transfer

\* The views of the rest of the feed.
LEMMA LearnsViews ==
    ASSUME DemoTypes, PipeInv, NEW q, Learns(q)
    PROVE  /\ feed' \in Seq(Notices)
           /\ Ordered(feed', q, OnChain) /\ Sound(feed', q, OnChain, stored)
           /\ stored \in Transfer /\ Enforceable(feed, observed, OnChain, stored)
              /\ ~Terminal(feed[1])
              => Enforceable(feed', q, OnChain, stored)
  <1>1. /\ feed \in Seq(Notices) /\ feed # <<>> /\ feed' = Tail(feed)
        /\ Ordered(feed, observed, OnChain) /\ Sound(feed, observed, OnChain, stored)
    BY DEF DemoTypes, Learns, PipeInv
  <1>2. feed' \in Seq(Notices) /\ Len(feed) \in Nat /\ Len(feed') = Len(feed) - 1 /\ Len(feed) >= 1
    BY <1>1
  <1> DEFINE h == [k \in 0..(Len(Tail(feed)) + 1) |->
                     IF k = 0 /\ feed[1].type = "burn" THEN 0 ELSE k + 1]
  <1>3. Renames(h, feed, observed, OnChain, Tail(feed), q, OnChain)
    BY <1>1, PostedRenames DEF Learns
  <1>4. h[0] \in {0, 1} /\ (h[0] = 0 <=> feed[1].type = "burn")
    BY <1>1, <1>2
  <1> HIDE DEF h
  <1>5. Ordered(feed', q, OnChain) /\ Sound(feed', q, OnChain, stored)
    BY <1>1, <1>2, <1>3, RenamedOrdered
  <1>6. ASSUME Enforceable(feed, observed, OnChain, stored), ~Terminal(feed[1])
        PROVE  Enforceable(feed', q, OnChain, stored)
    <2>1. SameLife(feed, 0, h[0])
      BY <1>2, <1>4, <1>6 DEF SameLife
    <2>2. QED
      BY <1>1, <1>2, <1>3, <1>6, <2>1, RenamedEnforceable
  <1>7. QED
    BY <1>2, <1>5, <1>6

\* The node's pipe and the one before it.
LEMMA LearnsInOrder ==
    ASSUME DemoTypes, PipeInv, NEW q, Learns(q), observed # None
    PROVE  /\ observed \in Pipe /\ q \in Pipe /\ observed.nonce \in Nat /\ q.nonce \in Nat
           /\ observed.nonce <= q.nonce
           /\ ~Terminal(feed[1]) => Within(observed, q)
           /\ Covers(stored, q)
  <1>1. /\ feed \in Seq(Notices) /\ feed # <<>> /\ observed \in Pipe
        /\ Ordered(feed, observed, OnChain) /\ Sound(feed, observed, OnChain, stored)
    BY DEF DemoTypes, Learns, PipeInv
  <1>2. q \in Pipe
    BY DEF Learns
  <1>3. /\ 0 \in 0..(Len(feed) + 1) /\ 1 \in 0..(Len(feed) + 1) /\ Len(feed) \in Nat
        /\ 1 \in 1..Len(feed)
    BY <1>1
  <1>4. Tells(feed, observed, 0) /\ View(feed, observed, OnChain, 0) = observed
    BY DEF Tells, View
  <1>5. CASE feed[1].type = "burn"
    <2>1. Same(q, observed) /\ Same(observed, q)
      BY <1>5 DEF Learns, Same
    <2>2. Covers(stored, observed)
      BY <1>1, <1>3, <1>4 DEF Sound
    <2>3. QED
      BY <1>1, <1>2, <2>1, <2>2, WithinSame, CoversSame DEF Pipe, Same
  <1>6. CASE feed[1].type # "burn"
    <2>1. Tells(feed, observed, 1) /\ View(feed, observed, OnChain, 1) = Taken(feed[1])
      BY <1>3, <1>6 DEF Tells, View
    <2>2. Same(q, Taken(feed[1]))
      BY <1>6 DEF Learns
    <2>3. observed.nonce <= Taken(feed[1]).nonce
      BY <1>1, <1>3, <1>4, <2>1 DEF Ordered
    <2>4. Covers(stored, Taken(feed[1]))
      BY <1>1, <1>3, <2>1 DEF Sound
    <2>5. ~Terminal(feed[1]) => Within(observed, Taken(feed[1]))
      <3>1. ~Terminal(feed[1]) => SameLife(feed, 0, 1)
        BY DEF SameLife
      <3>2. QED
        BY <1>1, <1>3, <1>4, <2>1, <3>1 DEF Ordered
    <2>6. QED
      BY <1>1, <1>2, <2>2, <2>3, <2>4, <2>5, CoversSame DEF Pipe, Same, Within
  <1>7. QED
    BY <1>5, <1>6

\* A page that signs still fits.
LEMMA LearnsFits ==
    ASSUME DemoTypes, PipeInv, StoredInv, NEW q, Learns(q), NEW t \in Tabs,
           TabFits(tabs[t], observed, stored, paidIn, seenLives)
    PROVE  TabFits(tabs[t], q, stored, paidIn, seenLives')
  <1> DEFINE tab == tabs[t]
             i == tab.intent
  <1> SUFFICES ASSUME tab.phase = "signing"
               PROVE  /\ q # None
                      /\ tab.life <= seenLives'
                      /\ tab.life = seenLives' /\ paidIn # seenLives' => ~Newer(q, stored)
                      /\ tab.life = NewestLife(q, stored, paidIn, seenLives')
                            => Follows(i, q, stored)
    BY DEF TabFits
  <1>1. /\ observed # None /\ tab.life <= seenLives
        /\ tab.life = seenLives /\ paidIn # seenLives => ~Newer(observed, stored)
        /\ tab.life = NewestLife(observed, stored, paidIn, seenLives)
              => Follows(i, observed, stored)
    BY DEF TabFits
  <1>2. tab \in TabStates /\ stored \in Transfer \cup {None}
    BY DEF DemoTypes
  <1>3. tab.life \in Nat /\ i \in Transfer
    BY <1>2 DEF TabStates, Closed, Dialog
  <1>4. i.nonce \in Nat /\ i.my \in Nat /\ seenLives \in Nat /\ paidIn \in Nat
    BY <1>3 DEF Transfer, DemoTypes
  <1>5. stored # None => stored.nonce \in Nat /\ stored.my \in Nat
    BY <1>2 DEF Transfer
  <1>6. /\ q # None /\ q \in Pipe /\ observed.nonce \in Nat /\ q.nonce \in Nat
        /\ observed.nonce <= q.nonce
        /\ ~Terminal(feed[1]) => Within(observed, q)
        /\ Covers(stored, q)
    BY <1>1, LearnsInOrder, DemoConstants
  <1> HIDE DEF tab, i
  <1>7. Newer(q, stored) => Newer(observed, stored)
    BY <1>5, <1>6 DEF Newer
  <1>8. CASE Terminal(feed[1])
    <2>1. seenLives' = seenLives + 1
      BY <1>8 DEF Learns
    <2>2. tab.life < seenLives'
      BY <1>1, <1>3, <1>4, <2>1
    <2>3. tab.life = NewestLife(q, stored, paidIn, seenLives') => Follows(i, q, stored)
      <3>1. CASE Newer(q, stored)
        BY <1>1, <1>7, <3>1 DEF NewestLife, Follows, NewestNonce, NewestMy
      <3>2. CASE ~Newer(q, stored)
        BY <1>3, <1>4, <2>1, <2>2, <3>2 DEF NewestLife
      <3>3. QED
        BY <3>1, <3>2
    <2>4. QED
      BY <1>3, <1>4, <1>6, <2>1, <2>2, <2>3
  <1>9. CASE ~Terminal(feed[1])
    <2>1. seenLives' = seenLives /\ Within(observed, q)
      BY <1>6, <1>9 DEF Learns
    <2>2. My(observed) \in Nat /\ My(q) \in Nat
      BY <1>1, <1>6, LearnsInOrder, PipeParts
    <2>3. tab.life = NewestLife(q, stored, paidIn, seenLives) => Follows(i, q, stored)
      <3>1. CASE Newer(q, stored)
        BY <1>1, <1>7, <3>1 DEF NewestLife, Follows, NewestNonce, NewestMy
      <3>2. CASE ~Newer(q, stored) /\ ~Newer(observed, stored)
        <4> SUFFICES ASSUME tab.life = seenLives
                     PROVE  i.nonce <= q.nonce + 1 /\ (i.nonce = q.nonce + 1 => i.my = My(q) + Price)
          BY <3>2 DEF NewestLife, Follows, NewestNonce, NewestMy
        <4>1. i.nonce <= observed.nonce + 1
              /\ (i.nonce = observed.nonce + 1 => i.my = My(observed) + Price)
          BY <1>1, <3>2 DEF NewestLife, Follows, NewestNonce, NewestMy
        <4>2. i.nonce <= q.nonce + 1
          BY <1>4, <1>6, <4>1
        <4>3. i.nonce = q.nonce + 1 => observed.nonce = q.nonce
          BY <1>4, <1>6, <4>1
        <4>4. observed.nonce = q.nonce => My(observed) = My(q)
          BY <2>1 DEF Within
        <4>5. QED
          BY <4>1, <4>2, <4>3, <4>4
      <3>3. CASE ~Newer(q, stored) /\ Newer(observed, stored)
        <4> SUFFICES ASSUME tab.life = seenLives
                     PROVE  i.nonce <= q.nonce + 1 /\ (i.nonce = q.nonce + 1 => i.my = My(q) + Price)
          BY <3>3 DEF NewestLife, Follows, NewestNonce, NewestMy
        <4>1. stored # None /\ stored.nonce > observed.nonce /\ stored.nonce <= q.nonce
          BY <1>5, <1>6, <3>3 DEF Newer
        <4>2. My(q) # 0
          BY <1>5, <1>6, <2>1, <4>1 DEF Within
        <4>3. q.nonce = stored.nonce /\ My(q) = stored.my
          BY <1>5, <1>6, <4>1, <4>2 DEF Covers
        <4>4. paidIn = seenLives
          BY <1>1, <3>3
        <4>5. i.nonce <= stored.nonce + 1 /\ (i.nonce = stored.nonce + 1 => i.my = stored.my + Price)
          BY <1>1, <3>3, <4>4 DEF NewestLife, Follows, NewestNonce, NewestMy
        <4>6. QED
          BY <4>3, <4>5
      <3>4. QED
        BY <3>1, <3>2, <3>3, <1>7
    <2>4. QED
      BY <1>1, <1>6, <1>7, <2>1, <2>3
  <1>10. QED
    BY <1>8, <1>9

\* The invariant is kept.
LEMMA LearnsKeeps ==
    ASSUME DemoInv, NEW q, Learns(q)
    PROVE  DemoInv'
  <1>1. DemoTypes /\ PipeInv /\ StoredInv /\ TabsInv
    BY DEF DemoInv
  <1>2. /\ observed' = q /\ OnChain' = OnChain /\ stored' = stored /\ paidIn' = paidIn
        /\ lives' = lives /\ tabs' = tabs /\ mapped' = mapped /\ feed' = Tail(feed) /\ feed # <<>>
    BY DEF Learns, OnChain
  <1>3. /\ feed \in Seq(Notices) /\ Len(feed) \in Nat /\ seenLives \in Nat /\ lives \in Nat
        /\ paidIn \in Nat /\ stored \in Transfer \cup {None}
        /\ newer \in {"onchain", "signature-state"}
    BY <1>1 DEF DemoTypes
  <1>4. seenLives' \in Nat /\ seenLives <= seenLives'
    BY <1>3 DEF Learns
  <1>5. DemoTypes'
    BY <1>1, <1>2, <1>3, <1>4, LearnsViews DEF DemoTypes, Learns
  <1>6. PipeInv'
    <2>1. ASSUME ThePipe \notin mapped
          PROVE  q = None /\ \A k \in 1..Len(Tail(feed)) : Tail(feed)[k].type = "burn"
      <3>1. observed = None /\ \A k \in 1..Len(feed) : feed[k].type = "burn"
        BY <1>1, <2>1 DEF PipeInv
      <3>2. 1 \in 1..Len(feed) /\ \A k \in 1..Len(Tail(feed)) :
               k + 1 \in 1..Len(feed) /\ Tail(feed)[k] = feed[k + 1]
        BY <1>2, <1>3
      <3>3. q = None
        BY <3>1, <3>2 DEF Learns
      <3>4. QED
        BY <3>1, <3>2, <3>3
    <2>2. /\ Ordered(feed', observed', OnChain')
          /\ Sound(feed', observed', OnChain', stored')
      BY <1>1, <1>2, LearnsViews
    <2>3. QED
      BY <1>1, <1>2, <2>1, <2>2 DEF PipeInv
  <1>7. StoredInv'
    <2>1. stored' # None => observed' # None
      BY <1>1, <1>2 DEF StoredInv, Learns
    <2>2. newer' = "signature-state" => stored' # None /\ stored'.nonce > observed'.nonce
      BY <1>1, <1>2 DEF StoredInv, Learns
    <2>3. paidIn' <= seenLives'
      BY <1>1, <1>2, <1>3, <1>4 DEF StoredInv
    <2>4. ASSUME stored' # None, paidIn' = seenLives'
          PROVE  Enforceable(feed', observed', OnChain', stored')
      <3>1. ~Terminal(feed[1]) /\ paidIn = seenLives
        BY <1>1, <1>2, <1>3, <2>4 DEF StoredInv, Learns
      <3>2. Enforceable(feed, observed, OnChain, stored)
        BY <1>1, <1>2, <2>4, <3>1 DEF StoredInv
      <3>3. QED
        BY <1>1, <1>2, <1>3, <2>4, <3>1, <3>2, LearnsViews
    <2>5. LivesFit(feed', seenLives', lives')
      BY <1>1, <1>2, <1>3, LivesPosted DEF StoredInv, Learns
    <2>6. QED
      BY <2>1, <2>2, <2>3, <2>4, <2>5 DEF StoredInv
  <1>8. TabsInv'
    BY <1>1, <1>2, LearnsFits DEF TabsInv
  <1>9. QED
    BY <1>5, <1>6, <1>7, <1>8 DEF DemoInv

\* Whatever is posted.
LEMMA PostLearns ==
    ASSUME DemoInv, Post
    PROVE  \E q : Learns(q)
  <1>1. DemoTypes /\ PipeInv
    BY DEF DemoInv
  <1>2. /\ feed \in Seq(Notices) /\ feed # <<>> /\ Len(feed) \in Nat /\ Len(feed) >= 1
        /\ Head(feed) = feed[1] /\ feed[1] \in Notices
        /\ feed' = Tail(feed)
        /\ UNCHANGED <<pipes, height, mapped, tabs, lives, stored, paidIn>>
    BY <1>1 DEF Post, PostBurnBlock, PostFunding, PostClosure, PostTerminal, Posted, DemoTypes, vars
  <1>3. /\ disputes \in SUBSET Transfer /\ stored \in Transfer \cup {None}
        /\ observed \in Pipe \cup {None} /\ seenLives \in Nat
    BY <1>1 DEF DemoTypes
  <1>4. observed # None => observed \in Pipe /\ WellFunded(observed)
    <2>1. 0 \in 0..(Len(feed) + 1) /\ View(feed, observed, OnChain, 0) = observed
          /\ (observed # None => Tells(feed, observed, 0))
      BY <1>2 DEF View, Tells
    <2>2. QED
      BY <1>1, <2>1 DEF PipeInv, Sound
  <1>5. feed[1].type # "burn" => Taken(feed[1]) \in Pipe /\ WellFunded(Taken(feed[1]))
    <2>1. 1 \in 0..(Len(feed) + 1) /\ View(feed, observed, OnChain, 1) = Taken(feed[1])
          /\ (feed[1].type # "burn" => Tells(feed, observed, 1))
      BY <1>2 DEF View, Tells
    <2>2. QED
      BY <1>1, <2>1 DEF PipeInv, Sound
  <1>6. CASE PostBurnBlock
    <2> DEFINE q == IF observed = None THEN None ELSE Node!Settled(observed, feed[1].height)
    <2>1. /\ feed[1].type = "burn" /\ observed' = q /\ seenLives' = seenLives
          /\ disputes' = disputes /\ newer' = IF observed' = observed THEN newer ELSE "onchain"
      BY <1>2, <1>6 DEF PostBurnBlock
    <2>2. /\ q \in Pipe \cup {None} /\ (q # None => WellFunded(q)) /\ (observed # None => q # None)
          /\ q # None => observed # None /\ Same(q, observed)
      BY <1>4, SettledAlike, DemoConstants
    <2> HIDE DEF q
    <2>3. ~Terminal(feed[1])
      BY <2>1 DEF Terminal, Node!TerminalEvents
    <2>4. Learns(q)
      BY <1>2, <1>3, <2>1, <2>2, <2>3 DEF Learns
    <2>5. QED
      BY <2>4
  <1>7. CASE PostFunding \/ PostClosure
    <2>1. /\ feed[1].type \in {"fund-pipe", "force-cancel", "force-close"}
          /\ observed' = feed[1].pipe /\ seenLives' = seenLives /\ newer' = "onchain"
      BY <1>2, <1>7 DEF PostFunding, PostClosure, Node!OpenClosureEvents
    <2>2. disputes' \in SUBSET Transfer
      BY <1>2, <1>3, <1>7 DEF PostFunding, PostClosure, Candidates
    <2>3. feed[1].type # "burn" /\ ~Terminal(feed[1])
      BY <2>1 DEF Terminal, Node!TerminalEvents
    <2>4. Taken(feed[1]) = feed[1].pipe
      BY <2>3 DEF Taken
    <2>5. Learns(feed[1].pipe)
      BY <1>2, <1>5, <2>1, <2>2, <2>3, <2>4, DemoConstants DEF Learns, Same
    <2>6. QED
      BY <2>5
  <1>8. CASE PostTerminal
    <2>1. /\ feed[1].type \in Node!TerminalEvents
          /\ observed' = EmptyPipe(feed[1].pipe.nonce) /\ seenLives' = seenLives + 1
          /\ newer' = "onchain" /\ disputes' = disputes
      BY <1>2, <1>8 DEF PostTerminal
    <2>2. feed[1].type # "burn" /\ Terminal(feed[1])
      BY <2>1 DEF Terminal, Node!TerminalEvents
    <2>3. Taken(feed[1]) = EmptyPipe(feed[1].pipe.nonce)
      BY <2>2 DEF Taken
    <2>4. Learns(EmptyPipe(feed[1].pipe.nonce))
      BY <1>2, <1>3, <1>5, <2>1, <2>2, <2>3, DemoConstants DEF Learns, Same
    <2>5. QED
      BY <2>4
  <1>9. QED
    BY <1>6, <1>7, <1>8 DEF Post

--------------------------------------------------------------------------------
(* Steps of the pages *)

\* Once a pipe is observed, the service and the status page agree on the state that counts.
LEMMA StatusCases ==
    ASSUME DemoTypes, StoredInv, observed # None
    PROVE  /\ Service!Baseline # None
           /\ Service!Baseline.nonce = NewestNonce(observed, stored)
           /\ Service!Baseline.my = NewestMy(observed, stored)
           /\ Service!Baseline = stored <=> Newer(observed, stored)
           /\ ~Newer(observed, stored) => Service!Baseline.their = Their(observed)
           /\ PipeStatus = IF Newer(observed, stored) THEN SignedStatus ELSE ObservedStatus
           /\ StatusLife = NewestLife(observed, stored, paidIn, seenLives)
  <1>1. observed \in Pipe /\ stored \in Transfer \cup {None} /\ newer \in {"onchain", "signature-state"}
    BY DEF DemoTypes
  <1>2. observed.nonce \in Nat /\ observed.balance1 \in Nat /\ observed.balance2 \in Nat
    BY <1>1, PipeParts
  <1>3. stored # None => stored.nonce \in Nat
    BY <1>1 DEF Transfer
  <1>4. /\ Observation.nonce = observed.nonce /\ Observation.my = My(observed)
        /\ Observation.their = Their(observed)
        /\ Observation \in [nonce : Nat, my : Nat, their : Nat]
    <2>1. CASE Counterparty = ThePipe.principal1
      BY <1>2, <2>1 DEF Observation, MapBalances, My, Their
    <2>2. CASE Counterparty # ThePipe.principal1
      BY <1>2, <2>2 DEF Observation, MapBalances, My, Their
    <2>3. QED
      BY <2>1, <2>2
  <1>5. Observation # None /\ Observation # stored
    <2>1. Observation # None
      BY <1>4, DemoConstants
    <2>2. DOMAIN Observation = {"nonce", "my", "their"}
      BY <1>4
    <2>3. stored # None => "action" \in DOMAIN stored
      BY <1>1 DEF Transfer
    <2>4. QED
      BY <2>1, <2>2, <2>3
  <1>6. newer = "signature-state" => stored # None /\ stored.nonce > observed.nonce
    BY DEF StoredInv
  <1>7. CASE Newer(observed, stored)
    <2>1. stored # None /\ stored.nonce > observed.nonce
      BY <1>7 DEF Newer
    <2>2. Service!Baseline = stored
      BY <1>2, <1>3, <1>4, <1>5, <2>1 DEF Service!Baseline
    <2>3. PipeStatus = SignedStatus
      BY <2>1 DEF PipeStatus, SignedReplaces
    <2>4. QED
      BY <1>7, <2>1, <2>2, <2>3 DEF NewestNonce, NewestMy, NewestLife, StatusLife
  <1>8. CASE ~Newer(observed, stored)
    <2>1. stored = None \/ (stored # None /\ ~(stored.nonce > observed.nonce)
                                         /\ stored.nonce <= observed.nonce)
      BY <1>2, <1>3, <1>8 DEF Newer
    <2>2. newer = "onchain"
      BY <1>1, <1>6, <2>1
    <2>3. Service!Baseline = Observation
      <3>1. CASE stored = None
        BY <1>5, <3>1 DEF Service!Baseline
      <3>2. CASE stored # None /\ Observation.nonce > stored.nonce
        BY <1>5, <3>2 DEF Service!Baseline
      <3>3. CASE stored # None /\ Observation.nonce = stored.nonce
        BY <1>3, <1>5, <2>2, <3>3 DEF Service!Baseline
      <3>4. QED
        BY <1>2, <1>3, <1>4, <2>1, <3>1, <3>2, <3>3
    <2>4. PipeStatus = ObservedStatus
      BY <2>1, <2>2 DEF PipeStatus, SignedReplaces
    <2>5. QED
      BY <1>4, <1>5, <1>8, <2>3, <2>4 DEF NewestNonce, NewestMy, NewestLife, StatusLife
  <1>9. QED
    BY <1>7, <1>8

\* Without an observed pipe there is no status.
LEMMA NoStatus ==
    ASSUME StoredInv, observed = None
    PROVE  PipeStatus = None
  <1>1. stored = None
    BY DEF StoredInv
  <1>2. QED
    BY <1>1 DEF PipeStatus

\* The intent follows on the status.
LEMMA IntentFollows ==
    ASSUME DemoTypes, StoredInv, CanPay, Side(PipeStatus, Payer) >= Price
    PROVE  /\ observed # None /\ Intent \in Transfer
           /\ Follows(Intent, observed, stored)
  <1>1. observed # None
    BY NoStatus DEF CanPay
  <1>2. observed \in Pipe /\ stored \in Transfer \cup {None}
    BY <1>1 DEF DemoTypes
  <1>3. observed.nonce \in Nat /\ observed.balance1 \in Nat /\ observed.balance2 \in Nat
    BY <1>2, PipeParts
  <1>4. stored # None => stored.nonce \in Nat /\ stored.my \in Nat /\ stored.their \in Nat
    BY <1>2 DEF Transfer
  <1>5. PipeStatus = IF Newer(observed, stored) THEN SignedStatus ELSE ObservedStatus
    BY <1>1, StatusCases
  <1>6. /\ PipeStatus.nonce = NewestNonce(observed, stored) /\ PipeStatus.nonce \in Nat
        /\ Side(PipeStatus, Counterparty) = NewestMy(observed, stored)
        /\ PipeStatus.balance1 \in Nat /\ PipeStatus.balance2 \in Nat
    <2>1. CASE Newer(observed, stored)
      <3>1. stored # None
        BY <2>1 DEF Newer
      <3>2. CASE Counterparty = ThePipe.principal1
        BY <1>4, <1>5, <2>1, <3>1, <3>2
           DEF SignedStatus, Status, MapBalances, NewestNonce, NewestMy, Side
      <3>3. CASE Counterparty # ThePipe.principal1
        BY <1>4, <1>5, <2>1, <3>1, <3>3
           DEF SignedStatus, Status, MapBalances, NewestNonce, NewestMy, Side
      <3>4. QED
        BY <3>2, <3>3
    <2>2. CASE ~Newer(observed, stored)
      BY <1>3, <1>5, <2>2 DEF ObservedStatus, Status, NewestNonce, NewestMy, Side, My
    <2>3. QED
      BY <2>1, <2>2
  <1>7. /\ Side(PipeStatus, Counterparty) \in Nat /\ Side(PipeStatus, Payer) \in Nat
        /\ PipeStatus.balance1 + PipeStatus.balance2
             = Side(PipeStatus, Counterparty) + Side(PipeStatus, Payer)
    BY <1>6, TheSides DEF Side
  <1>8. Price \in Nat /\ Price # 0
    BY DemoConstants
  <1>9. /\ PipeStatus.nonce + 1 \in Nat
        /\ Side(PipeStatus, Counterparty) + Price \in Nat \ {0}
        /\ PipeStatus.balance1 + PipeStatus.balance2
              - (Side(PipeStatus, Counterparty) + Price) \in Nat
    BY <1>6, <1>7, <1>8
  <1>10. Intent \in Transfer
    BY <1>9 DEF Intent, Transfer
  <1>11. Intent.nonce = PipeStatus.nonce + 1 /\ Intent.my = Side(PipeStatus, Counterparty) + Price
    BY DEF Intent
  <1>12. Follows(Intent, observed, stored)
    BY <1>6, <1>11 DEF Follows
  <1>13. QED
    BY <1>1, <1>10, <1>12

\* A page that goes on to a state that fits.
LEMMA PageKeeps ==
    ASSUME DemoInv, PageStep, NEW t \in Tabs, NEW next \in TabStates, Goto(t, next),
           TabFits(next, observed, stored, paidIn, seenLives)
    PROVE  DemoInv'
  <1>1. DemoTypes /\ PipeInv /\ StoredInv /\ TabsInv
    BY DEF DemoInv
  <1>2. /\ UNCHANGED <<pipes, height, mapped, feed, lives>> /\ OnChain' = OnChain
        /\ UNCHANGED <<observed, stored, newer, disputes, seenLives, paidIn>>
    BY DEF PageStep, vars, nodeVars, OnChain
  <1>3. tabs' \in [Tabs -> TabStates] /\ \A u \in Tabs : tabs'[u] = IF u = t THEN next ELSE tabs[u]
    BY <1>1 DEF DemoTypes, Goto
  <1>4. DemoTypes'
    BY <1>1, <1>2, <1>3 DEF DemoTypes
  <1>5. PipeInv' /\ StoredInv'
    BY <1>1, <1>2 DEF PipeInv, StoredInv
  <1>6. TabsInv'
    BY <1>1, <1>2, <1>3 DEF TabsInv
  <1>7. QED
    BY <1>4, <1>5, <1>6 DEF DemoInv

\* The steps of a page but the payment.
LEMMA PagesKeep ==
    ASSUME DemoInv, NEW t \in Tabs,
           \/ ClickLink(t) \/ SignAndPay(t) \/ CreateIntent(t) \/ WalletRefuses(t)
           \/ PayRefused(t) \/ OpenPipe(t) \/ OpenFails(t)
    PROVE  DemoInv'
  <1>1. DemoTypes /\ StoredInv
    BY DEF DemoInv
  <1>2. ASSUME NEW next \in TabStates, next.phase # "signing", PageStep, Goto(t, next)
        PROVE  DemoInv'
    BY <1>2, PageKeeps DEF TabFits
  <1>3. /\ Closed \in TabStates /\ Dialog \in TabStates /\ [phase |-> "payable"] \in TabStates
        /\ Closed.phase # "signing" /\ Dialog.phase # "signing"
        /\ [phase |-> "payable"].phase # "signing"
    BY DEF TabStates, Closed, Dialog
  <1>4. CASE ClickLink(t) \/ WalletRefuses(t) \/ OpenFails(t)
    BY <1>2, <1>3, <1>4 DEF ClickLink, WalletRefuses, OpenFails
  <1>5. CASE SignAndPay(t)
    BY <1>2, <1>3, <1>5 DEF SignAndPay
  <1>6. CASE PayRefused(t)
    BY <1>2, <1>3, <1>6 DEF PayRefused
  <1>7. CASE OpenPipe(t)
    <2> DEFINE n == IF PipeStatus = None THEN 0 ELSE PipeStatus.nonce
               next == [phase |-> "opening", nonce |-> n]
    <2>1. n \in Nat
      <3>1. CASE observed = None
        BY <1>1, <3>1, NoStatus
      <3>2. CASE observed # None
        <4>1. observed \in Pipe /\ stored \in Transfer \cup {None}
          BY <1>1, <3>2 DEF DemoTypes
        <4>2. PipeStatus = IF Newer(observed, stored) THEN SignedStatus ELSE ObservedStatus
          BY <1>1, <3>2, StatusCases
        <4>3. Newer(observed, stored) => stored.nonce \in Nat
          BY <4>1 DEF Newer, Transfer
        <4>4. observed.nonce \in Nat
          BY <4>1, PipeParts
        <4>5. QED
          BY <4>2, <4>3, <4>4 DEF SignedStatus, ObservedStatus, Status
      <3>3. QED
        BY <3>1, <3>2
    <2> HIDE DEF n
    <2>2. next \in TabStates /\ next.phase # "signing"
      BY <2>1 DEF TabStates
    <2>3. PageStep /\ Goto(t, next)
      BY <1>7 DEF OpenPipe, n
    <2> HIDE DEF next
    <2>4. QED
      BY <1>2, <2>2, <2>3
  <1>8. CASE CreateIntent(t)
    <2>1. PageStep
      BY <1>8 DEF CreateIntent
    <2>2. CASE CanPay /\ Side(PipeStatus, Payer) >= Price
      <3> DEFINE next == [phase |-> "signing", intent |-> Intent, life |-> StatusLife]
      <3>1. Goto(t, next)
        BY <1>8, <2>2 DEF CreateIntent
      <3>2. observed # None /\ Intent \in Transfer /\ Follows(Intent, observed, stored)
        BY <1>1, <2>2, IntentFollows
      <3>3. StatusLife = NewestLife(observed, stored, paidIn, seenLives)
        BY <1>1, <3>2, StatusCases
      <3>4. paidIn \in Nat /\ seenLives \in Nat /\ paidIn <= seenLives
        BY <1>1 DEF DemoTypes, StoredInv
      <3>5. StatusLife \in Nat /\ StatusLife <= seenLives
            /\ (StatusLife = seenLives /\ paidIn # seenLives => ~Newer(observed, stored))
        BY <3>3, <3>4 DEF NewestLife
      <3>6. next \in TabStates
        BY <3>2, <3>5 DEF TabStates
      <3>7. next.intent = Intent /\ next.life = StatusLife
        OBVIOUS
      <3> HIDE DEF next
      <3>8. TabFits(next, observed, stored, paidIn, seenLives)
        BY <3>2, <3>5, <3>7 DEF TabFits
      <3>9. QED
        BY <2>1, <3>1, <3>6, <3>8, PageKeeps
    <2>3. CASE ~(CanPay /\ Side(PipeStatus, Payer) >= Price)
      BY <1>2, <1>3, <1>8, <2>1, <2>3 DEF CreateIntent
    <2>4. QED
      BY <2>2, <2>3
  <1>9. QED
    BY <1>4, <1>5, <1>6, <1>7, <1>8

--------------------------------------------------------------------------------
(* The payment *)

\* What the service charges and confirms.
LEMMA PayFacts ==
    ASSUME DemoInv, NEW t \in Tabs, Pay(t)
    PROVE  LET s == tabs[t].intent
           IN /\ tabs[t].phase = "signing" /\ s \in Transfer /\ observed # None
              /\ observed \in Pipe /\ observed.nonce \in Nat /\ WellFunded(observed)
              /\ s.nonce \in Nat /\ s.my \in Nat /\ s.their \in Nat
              /\ s.nonce > NewestNonce(observed, stored) /\ s.nonce > observed.nonce
              /\ s.my > NewestMy(observed, stored)
              /\ Newer(observed, stored) => s.my + s.their = stored.my + stored.their
              /\ ~Newer(observed, stored) => s.my + s.their = My(observed) + Their(observed)
              /\ stored # None => s.nonce > stored.nonce
              /\ stored' = s /\ newer' = "signature-state"
              /\ paidIn' = NewestLife(observed, stored, paidIn, seenLives)
  <1> DEFINE s == tabs[t].intent
  <1>1. /\ DemoTypes /\ StoredInv /\ PipeInv
        /\ TabFits(tabs[t], observed, stored, paidIn, seenLives)
    BY DEF DemoInv, TabsInv
  <1>2. /\ tabs[t].phase = "signing" /\ Service!PolicyAllows(s) /\ Service!Upserts(s)
        /\ stored' = s /\ newer' = "signature-state"
        /\ paidIn' = IF Service!Baseline = stored THEN paidIn ELSE seenLives
    BY DEF Pay
  <1>3. tabs[t] \in TabStates /\ stored \in Transfer \cup {None}
    BY <1>1 DEF DemoTypes
  <1>4. s \in Transfer
    BY <1>2, <1>3 DEF TabStates, Closed, Dialog
  <1> HIDE DEF s
  <1>5. s.nonce \in Nat /\ s.my \in Nat /\ s.their \in Nat /\ s.action = "transfer"
    BY <1>4 DEF Transfer
  <1>6. observed # None
    BY <1>1, <1>2 DEF TabFits
  <1>7. observed \in Pipe /\ observed.nonce \in Nat
    BY <1>1, <1>6, PipeParts DEF DemoTypes
  <1>8. WellFunded(observed)
    <2>1. feed \in Seq(Notices)
      BY <1>1 DEF DemoTypes
    <2>2. /\ 0 \in 0..(Len(feed) + 1) /\ Tells(feed, observed, 0)
          /\ View(feed, observed, OnChain, 0) = observed
      BY <1>6, <2>1 DEF Tells, View
    <2>3. QED
      BY <1>1, <2>2 DEF PipeInv, Sound
  <1>9. /\ s.nonce > Service!Baseline.nonce /\ s.my > Service!Baseline.my
        /\ s.my + s.their = Service!Baseline.my + Service!Baseline.their
        /\ stored # None => s.nonce > stored.nonce
    BY <1>2, <1>5 DEF Service!PolicyAllows, Service!Upserts
  <1>10. /\ Service!Baseline.nonce = NewestNonce(observed, stored)
         /\ Service!Baseline.my = NewestMy(observed, stored)
         /\ Service!Baseline = stored <=> Newer(observed, stored)
         /\ ~Newer(observed, stored) => Service!Baseline.their = Their(observed)
    BY <1>1, <1>6, StatusCases
  <1>11. stored # None => stored.nonce \in Nat
    BY <1>3 DEF Transfer
  <1>12. s.nonce > observed.nonce
    BY <1>5, <1>7, <1>9, <1>10, <1>11 DEF NewestNonce, Newer
  <1>13. paidIn' = NewestLife(observed, stored, paidIn, seenLives)
    BY <1>2, <1>10 DEF NewestLife
  <1>14. Newer(observed, stored) => s.my + s.their = stored.my + stored.their
    BY <1>9, <1>10
  <1>15. ~Newer(observed, stored) => s.my + s.their = My(observed) + Their(observed)
    BY <1>9, <1>10 DEF NewestMy
  <1>16. QED
    BY <1>2, <1>4, <1>5, <1>6, <1>7, <1>8, <1>9, <1>10, <1>12, <1>13, <1>14, <1>15 DEF s

\* The new state can be taken to the chain.
LEMMA PayEnforceable ==
    ASSUME DemoInv, NEW t \in Tabs, Pay(t), paidIn' = seenLives
    PROVE  Enforceable(feed, observed, OnChain, stored')
  <1> DEFINE s == tabs[t].intent
  <1>1. /\ s \in Transfer /\ observed # None
        /\ observed \in Pipe /\ observed.nonce \in Nat /\ WellFunded(observed)
        /\ s.nonce \in Nat /\ s.my \in Nat /\ s.their \in Nat
        /\ s.nonce > observed.nonce /\ stored' = s
    BY PayFacts
  <1>2. /\ stored # None => s.nonce > stored.nonce
        /\ Newer(observed, stored) => s.my + s.their = stored.my + stored.their
        /\ ~Newer(observed, stored) => s.my + s.their = My(observed) + Their(observed)
        /\ s.my > NewestMy(observed, stored)
    BY PayFacts
  <1>3. paidIn' = NewestLife(observed, stored, paidIn, seenLives)
    BY PayFacts
  <1>4. DemoTypes /\ PipeInv /\ StoredInv
    BY DEF DemoInv
  <1>5. feed \in Seq(Notices) /\ Len(feed) \in Nat /\ stored \in Transfer \cup {None}
    BY <1>4 DEF DemoTypes
  <1> HIDE DEF s
  <1> SUFFICES ASSUME NEW k \in 0..(Len(feed) + 1), Tells(feed, observed, k),
                      SameLife(feed, 0, k), My(View(feed, observed, OnChain, k)) = 0
               PROVE  /\ s.nonce > View(feed, observed, OnChain, k).nonce
                      /\ s.my + s.their = Claims(View(feed, observed, OnChain, k))
    BY <1>1 DEF Enforceable
  <1> DEFINE v == View(feed, observed, OnChain, k)
  <1>6. CASE Newer(observed, stored)
    <2>1. stored # None /\ stored \in Transfer /\ stored.nonce \in Nat
      BY <1>5, <1>6 DEF Newer, Transfer
    <2>2. paidIn = seenLives
      BY <1>6, <1>3 DEF NewestLife
    <2>3. stored.nonce > v.nonce /\ stored.my + stored.their = Claims(v)
      BY <1>4, <2>1, <2>2 DEF StoredInv, Enforceable
    <2>4. v.nonce \in Nat
      BY <1>4, PipeParts DEF PipeInv, Sound
    <2>5. QED
      <3>1. /\ s.nonce > stored.nonce /\ stored.nonce > v.nonce
            /\ s.my + s.their = stored.my + stored.their
        BY <1>6, <1>2, <2>1, <2>3
      <3> HIDE DEF v
      <3>2. s.nonce > v.nonce
        BY <1>1, <2>1, <2>4, <3>1
      <3>3. QED
        BY <2>3, <3>1, <3>2 DEF v
  <1>7. CASE ~Newer(observed, stored)
    <2>1. /\ 0 \in 0..(Len(feed) + 1) /\ 0 <= k /\ Tells(feed, observed, 0)
          /\ View(feed, observed, OnChain, 0) = observed
      BY <1>1, <1>5 DEF Tells, View
    <2>2. Within(observed, v)
      BY <1>4, <2>1 DEF PipeInv, Ordered
    <2> HIDE DEF v
    <2>3. My(observed) = 0 /\ observed.nonce = v.nonce
          /\ (Claims(observed) # 0 => Claims(v) = Claims(observed))
      BY <2>2 DEF Within, v
    <2>4. /\ My(observed) \in Nat /\ Their(observed) \in Nat
          /\ Claims(observed) = My(observed) + Their(observed) + MyPending(observed).amount
                                  + TheirPending(observed).amount
      BY <1>1, PipeParts
    <2>5. s.my > 0 /\ Their(observed) # 0
      <3>1. NewestMy(observed, stored) = 0
        BY <1>7, <2>3 DEF NewestMy
      <3>2. s.my > 0
        BY <1>2, <3>1
      <3>3. s.my + s.their = My(observed) + Their(observed)
        BY <1>2, <1>7
      <3>4. s.my \in Nat /\ s.their \in Nat /\ Their(observed) \in Nat /\ My(observed) = 0
        BY <1>1, <2>3, <2>4
      <3>5. ASSUME NEW a \in Nat, NEW b \in Nat, NEW c \in Nat, a > 0, a + b = 0 + c
            PROVE  c # 0
        BY <3>5
      <3>6. QED
        BY <3>2, <3>3, <3>4, <3>5
    <2>6. MyPending(observed).amount = 0 /\ TheirPending(observed).amount = 0
      BY <1>1, <2>5 DEF WellFunded, NoPending
    <2>7. s.my + s.their = Claims(observed) /\ Claims(observed) # 0
      <3>1. s.my + s.their = My(observed) + Their(observed)
        BY <1>7, <1>2
      <3>2. QED
        BY <2>4, <2>5, <2>6, <3>1
    <2>8. QED
      BY <1>1, <2>3, <2>7 DEF v
  <1>8. QED
    BY <1>6, <1>7

\* The invariant is kept.
LEMMA PayKeeps ==
    ASSUME DemoInv, NEW t \in Tabs, Pay(t)
    PROVE  DemoInv'
  <1> DEFINE s == tabs[t].intent
  <1>1. /\ tabs[t].phase = "signing" /\ s \in Transfer /\ observed # None
        /\ observed \in Pipe /\ observed.nonce \in Nat
        /\ s.nonce \in Nat /\ s.my \in Nat /\ s.their \in Nat
        /\ s.nonce > NewestNonce(observed, stored) /\ s.nonce > observed.nonce
        /\ stored # None => s.nonce > stored.nonce
        /\ stored' = s /\ newer' = "signature-state"
        /\ paidIn' = NewestLife(observed, stored, paidIn, seenLives)
    BY PayFacts
  <1>2. DemoTypes /\ PipeInv /\ StoredInv /\ TabsInv
    BY DEF DemoInv
  <1>3. /\ feed \in Seq(Notices) /\ stored \in Transfer \cup {None}
        /\ paidIn \in Nat /\ seenLives \in Nat
    BY <1>2 DEF DemoTypes
  <1>4. /\ UNCHANGED <<pipes, height, mapped, feed, lives, observed, disputes, seenLives>>
        /\ OnChain' = OnChain /\ Goto(t, Closed)
    BY DEF Pay, vars, OnChain
  <1> HIDE DEF s
  <1>5. tabs' \in [Tabs -> TabStates] /\ \A u \in Tabs : tabs'[u] = IF u = t THEN Closed ELSE tabs[u]
    <2>1. Closed \in TabStates
      BY DEF TabStates
    <2>2. QED
      BY <1>2, <1>4, <2>1 DEF DemoTypes, Goto
  <1>6. paidIn' \in Nat /\ paidIn' <= seenLives
    BY <1>1, <1>2, <1>3 DEF NewestLife, StoredInv
  <1>7. DemoTypes'
    BY <1>1, <1>2, <1>4, <1>5, <1>6 DEF DemoTypes
  <1>8. PipeInv'
    <2>1. Sound(feed, observed, OnChain, s)
      <3> SUFFICES ASSUME NEW k \in 0..(Len(feed) + 1), Tells(feed, observed, k)
                   PROVE  /\ View(feed, observed, OnChain, k) \in Pipe
                          /\ WellFunded(View(feed, observed, OnChain, k))
                          /\ Covers(s, View(feed, observed, OnChain, k))
        BY DEF Sound
      <3> DEFINE v == View(feed, observed, OnChain, k)
      <3>1. v \in Pipe /\ WellFunded(v) /\ Covers(stored, v)
        BY <1>2 DEF PipeInv, Sound
      <3>2. v.nonce \in Nat
        BY <3>1, PipeParts
      <3>3. Covers(s, v)
        <4> SUFFICES ASSUME My(v) # 0 PROVE s # None /\ v.nonce < s.nonce
          BY <1>1, <3>2 DEF Covers
        <4>1. stored # None /\ v.nonce <= stored.nonce
          BY <3>1 DEF Covers
        <4>2. stored.nonce \in Nat
          BY <1>3, <4>1 DEF Transfer
        <4>3. QED
          BY <1>1, <3>2, <4>1, <4>2, DemoConstants
      <3>4. QED
        BY <3>1, <3>3
    <2>2. QED
      BY <1>1, <1>2, <1>4, <2>1 DEF PipeInv
  <1>9. StoredInv'
    <2>1. ASSUME paidIn' = seenLives PROVE Enforceable(feed, observed, OnChain, s)
      <3>1. Enforceable(feed, observed, OnChain, stored')
        BY <2>1, PayEnforceable
      <3>2. QED
        BY <1>1, <3>1
    <2>2. QED
      <3>1. LivesFit(feed, seenLives, lives)
        BY <1>2 DEF StoredInv
      <3>2. s # None
        BY <1>1, DemoConstants
      <3>3. QED
        BY <1>1, <1>4, <1>6, <2>1, <3>1, <3>2 DEF StoredInv
  <1>10. TabsInv'
    <2> SUFFICES ASSUME NEW u \in Tabs
                 PROVE  TabFits(tabs'[u], observed, s, paidIn', seenLives)
      BY <1>1, <1>4 DEF TabsInv
    <2>1. CASE u = t
      BY <1>5, <2>1 DEF TabFits, Closed
    <2>2. CASE u # t
      <3> DEFINE tab == tabs[u]
                 i == tab.intent
      <3>1. tabs'[u] = tab
        BY <1>5, <2>2
      <3> SUFFICES ASSUME tab.phase = "signing"
                   PROVE  TabFits(tab, observed, s, paidIn', seenLives)
        BY <3>1 DEF TabFits
      <3>2. TabFits(tab, observed, stored, paidIn, seenLives)
        BY <1>2 DEF TabsInv
      <3>3. /\ tab.life <= seenLives
            /\ tab.life = seenLives /\ paidIn # seenLives => ~Newer(observed, stored)
            /\ tab.life = paidIn' => Follows(i, observed, stored)
        BY <1>1, <3>2 DEF TabFits
      <3>4. tab \in TabStates
        BY <1>2 DEF DemoTypes
      <3>5. i \in Transfer
        BY <3>4 DEF TabStates, Closed, Dialog
      <3>6. i.nonce \in Nat
        BY <3>5 DEF Transfer
      <3> HIDE DEF tab, i
      <3>7. Newer(observed, s)
        BY <1>1, DemoConstants DEF Newer
      <3>8. tab.life = seenLives => paidIn' = seenLives
        BY <1>1, <3>3 DEF NewestLife
      <3>9. tab.life = paidIn' => Follows(i, observed, s)
        <4> SUFFICES ASSUME tab.life = paidIn'
                     PROVE  i.nonce <= s.nonce
          BY <1>1, <3>6, <3>7 DEF Follows, NewestNonce
        <4>1. i.nonce <= NewestNonce(observed, stored) + 1
          BY <3>3 DEF Follows
        <4>2. NewestNonce(observed, stored) \in Nat
          BY <1>1, <1>3 DEF NewestNonce, Newer, Transfer
        <4>3. QED
          BY <1>1, <3>6, <4>1, <4>2
      <3>10. QED
        BY <1>1, <3>3, <3>7, <3>8, <3>9 DEF TabFits, NewestLife, i
    <2>3. QED
      BY <2>1, <2>2
  <1>11. QED
    BY <1>7, <1>8, <1>9, <1>10 DEF DemoInv

--------------------------------------------------------------------------------
(* Theorems *)

\* At first nothing is known of the pipe.
LEMMA DemoStart ==
    ASSUME DemoInit
    PROVE  DemoInv
  <1>1. /\ pipes = [k \in PipeKeys |-> EmptyPipe(0)] /\ height = 0 /\ mapped = {}
        /\ feed = <<>> /\ observed = None /\ stored = None /\ newer = "onchain"
        /\ disputes = {} /\ lives = 0 /\ seenLives = 0 /\ paidIn = 0
        /\ tabs = [t \in Tabs |-> Closed]
    BY DEF DemoInit, Init
  <1>2. OnChain = EmptyPipe(0)
    BY <1>1, TheSides DEF OnChain
  <1>3. /\ EmptyPipe(0) \in Pipe /\ WellFunded(EmptyPipe(0)) /\ EmptyPipe(0).nonce = 0
        /\ My(EmptyPipe(0)) = 0 /\ EmptyPipe(0).closer = NoPrincipal
    BY ClosedFacts
  <1>4. Len(feed) = 0 /\ feed \in Seq(Notices)
    BY <1>1
  <1>5. Closed \in TabStates /\ Closed.phase # "signing"
    BY DEF TabStates, Closed
  <1>6. DemoTypes
    BY <1>1, <1>3, <1>4, <1>5 DEF DemoTypes
  <1>7. \A k \in 0..(Len(feed) + 1) : Tells(feed, observed, k) =>
           k = 1 /\ View(feed, observed, OnChain, k) = EmptyPipe(0)
    BY <1>1, <1>2, <1>4 DEF Tells, View
  <1>8. Ordered(feed, observed, OnChain)
    BY <1>3, <1>7, WithinSame DEF Ordered, Same
  <1>9. Sound(feed, observed, OnChain, stored)
    BY <1>3, <1>7 DEF Sound, Covers
  <1>10. PipeInv
    BY <1>1, <1>2, <1>3, <1>4, <1>8, <1>9 DEF PipeInv
  <1>11. LivesFit(feed, seenLives, lives)
    <2> DEFINE c == [k \in 0..Len(feed) |-> 0]
    <2>1. c \in [0..Len(feed) -> 0..lives] /\ \A k \in 0..Len(feed) : c[k] = 0
      BY <1>1
    <2> HIDE DEF c
    <2>2. Counts(c, feed, seenLives, lives)
      BY <1>1, <1>4, <2>1 DEF Counts
    <2>3. QED
      BY <2>1, <2>2 DEF LivesFit
  <1>12. StoredInv
    BY <1>1, <1>11 DEF StoredInv
  <1>13. TabsInv
    BY <1>1, <1>5 DEF TabsInv, TabFits
  <1>14. QED
    BY <1>6, <1>10, <1>12, <1>13 DEF DemoInv

\* A step.
LEMMA DemoStep ==
    ASSUME DemoInv, [DemoNext]_demoVars
    PROVE  DemoInv'
  <1>1. CASE \E t \in Tabs : Pay(t)
    BY <1>1, PayKeeps
  <1>2. CASE \E t \in Tabs : \/ ClickLink(t) \/ SignAndPay(t) \/ CreateIntent(t) \/ WalletRefuses(t)
                             \/ PayRefused(t) \/ OpenPipe(t) \/ OpenFails(t)
    BY <1>2, PagesKeep
  <1>3. CASE Chain \/ Burn \/ \E t \in Tabs : MineOpen(t)
    BY <1>3, ChainKeeps
  <1>4. CASE Post
    BY <1>4, PostLearns, LearnsKeeps
  <1>5. CASE UNCHANGED demoVars
    <2>1. /\ UNCHANGED <<pipes, height, mapped, feed, lives, tabs>> /\ OnChain' = OnChain
          /\ UNCHANGED <<observed, stored, newer, disputes, seenLives, paidIn>>
      BY <1>5 DEF demoVars, vars, nodeVars, OnChain
    <2>2. QED
      BY <2>1 DEF DemoInv, DemoTypes, PipeInv, StoredInv, TabsInv
  <1>6. QED
    BY <1>1, <1>2, <1>3, <1>4, <1>5 DEF DemoNext

\* What the node knows of the pipe is an earlier view of it, in the order of time; the stored
\* state and the states that the pages sign follow on the newest view of their life.
THEOREM DemoInvariance == DemoSpec => []DemoInv
  <1>1. DemoInit => DemoInv
    BY DemoStart
  <1>2. DemoInv /\ [DemoNext]_demoVars => DemoInv'
    BY DemoStep
  <1>3. QED
    BY <1>1, <1>2, PTL DEF DemoSpec

\* Payments of the pipe's present life can be taken to the chain.
THEOREM EnforceablePayments == DemoSpec => []PaymentsEnforceable
  <1>1. ASSUME DemoInv PROVE PaymentsEnforceable
    <2> SUFFICES ASSUME stored # None, paidIn = lives, OnChain.closer = NoPrincipal
                 PROVE  stored.nonce > OnChain.nonce /\ stored.my + stored.their = Claims(OnChain)
      BY DEF PaymentsEnforceable
    <2>1. DemoTypes /\ PipeInv /\ StoredInv
      BY <1>1 DEF DemoInv
    <2>2. /\ feed \in Seq(Notices) /\ Len(feed) \in Nat
          /\ lives \in Nat /\ seenLives \in Nat /\ paidIn \in Nat
      BY <2>1 DEF DemoTypes
    <2>3. PICK c \in [0..Len(feed) -> 0..lives] : Counts(c, feed, seenLives, lives)
      BY <2>1 DEF StoredInv, LivesFit
    <2>4. c[0] = seenLives /\ \A k \in 0..Len(feed) : c[k] \in 0..lives /\ c[0] <= c[k]
      BY <2>2, <2>3 DEF Counts
    <2>5. seenLives = lives /\ paidIn = seenLives
      <3>1. paidIn <= seenLives /\ seenLives <= lives
        BY <2>1, <2>2, <2>4 DEF StoredInv
      <3>2. QED
        BY <2>2, <3>1
    <2>6. ASSUME NEW m \in 1..Len(feed) PROVE ~Terminal(feed[m])
      <3>1. c[m] = lives /\ c[m - 1] = lives
        BY <2>2, <2>4, <2>5
      <3>2. Terminal(feed[m]) => lives = lives + 1
        BY <2>3, <3>1 DEF Counts
      <3>3. QED
        BY <2>2, <3>2
    <2>7. SameLife(feed, 0, Len(feed) + 1)
      BY <2>6 DEF SameLife
    <2>8. /\ Len(feed) + 1 \in 0..(Len(feed) + 1) /\ Tells(feed, observed, Len(feed) + 1)
          /\ View(feed, observed, OnChain, Len(feed) + 1) = OnChain
      BY <2>2 DEF Tells, View
    <2>9. Enforceable(feed, observed, OnChain, stored) /\ My(OnChain) = 0
      BY <2>1, <2>5 DEF StoredInv, PipeInv
    <2>10. QED
      BY <2>7, <2>8, <2>9 DEF Enforceable
  <1>2. QED
    BY <1>1, DemoInvariance, PTL

\* A payment on a status of the pipe's life moves the price.
THEOREM PriceIsMoved == DemoSpec => PriceMoved
  <1>1. ASSUME DemoInv, [DemoNext]_demoVars, NEW t \in Tabs,
               stored' # stored, tabs'[t] # tabs[t], tabs[t].life = StatusLife
        PROVE  /\ stored'.my = Service!Baseline.my + Price
               /\ stored'.their = Service!Baseline.their - Price
    <2>1. PICK u \in Tabs : Pay(u)
      BY <1>1 DEF DemoNext, ClickLink, SignAndPay, CreateIntent, WalletRefuses, PayRefused,
                  OpenPipe, OpenFails, MineOpen, PageStep, Chain, Burn, Mined, Post,
                  PostBurnBlock, PostFunding, PostClosure, PostTerminal, Posted,
                  demoVars, nodeVars
    <2>2. u = t
      BY <1>1, <2>1 DEF Pay, Goto, DemoInv, DemoTypes
    <2>3. Pay(t)
      BY <2>1, <2>2
    <2> DEFINE s == tabs[t].intent
    <2>4. /\ tabs[t].phase = "signing" /\ s \in Transfer /\ observed # None
          /\ observed \in Pipe /\ observed.nonce \in Nat
          /\ s.nonce \in Nat /\ s.my \in Nat /\ s.their \in Nat
          /\ s.nonce > NewestNonce(observed, stored) /\ stored' = s
          /\ Newer(observed, stored) => s.my + s.their = stored.my + stored.their
          /\ ~Newer(observed, stored) => s.my + s.their = My(observed) + Their(observed)
      BY <1>1, <2>3, PayFacts
    <2>5. DemoTypes /\ StoredInv /\ TabFits(tabs[t], observed, stored, paidIn, seenLives)
      BY <1>1 DEF DemoInv, TabsInv
    <2> HIDE DEF s
    <2>6. /\ Service!Baseline.my = NewestMy(observed, stored)
          /\ Service!Baseline = stored <=> Newer(observed, stored)
          /\ ~Newer(observed, stored) => Service!Baseline.their = Their(observed)
          /\ StatusLife = NewestLife(observed, stored, paidIn, seenLives)
      BY <2>4, <2>5, StatusCases
    <2>7. Follows(s, observed, stored)
      BY <1>1, <2>4, <2>5, <2>6 DEF TabFits, s
    <2>8. stored # None => stored.nonce \in Nat /\ stored.my \in Nat /\ stored.their \in Nat
      BY <2>5 DEF DemoTypes, Transfer
    <2>9. NewestNonce(observed, stored) \in Nat
      BY <2>4, <2>8 DEF NewestNonce, Newer
    <2>10. s.nonce = NewestNonce(observed, stored) + 1
      BY <2>4, <2>7, <2>9 DEF Follows
    <2>11. s.my = NewestMy(observed, stored) + Price
      BY <2>7, <2>10 DEF Follows
    <2>12. CASE Newer(observed, stored)
      BY <2>4, <2>6, <2>8, <2>11, <2>12, DemoConstants DEF NewestMy, Newer
    <2>13. CASE ~Newer(observed, stored)
      BY <2>4, <2>6, <2>11, <2>13, PipeParts, DemoConstants DEF NewestMy
    <2>14. QED
      BY <2>12, <2>13
  <1>2. DemoInv /\ [DemoNext]_demoVars =>
           [\A t \in Tabs :
               stored' # stored /\ tabs'[t] # tabs[t] /\ tabs[t].life = StatusLife =>
                   /\ stored'.my = Service!Baseline.my + Price
                   /\ stored'.their = Service!Baseline.their - Price]_demoVars
    BY <1>1
  <1>3. QED
    BY <1>2, DemoInvariance, PTL DEF PriceMoved, DemoSpec

================================================================================
