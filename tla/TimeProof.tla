------------------------------ MODULE TimeProof ------------------------------
(***************************************************************************)
(* The event list is never corrupted, never runs full, and keeps the       *)
(* promises of Timers: proofs for every number of nodes and devices.  And  *)
(* the video and timer interrupts agree with their events and enables.     *)
(*                                                                         *)
(* The routines of the list change links.  What they mean is said once,    *)
(* about the two walks p and q from the heads over k and l nodes: an       *)
(* insertion moves a node from the front of q into p, a removal moves one  *)
(* back.  Above that a list is only the timers it stands for, DueOf.       *)
(***************************************************************************)
EXTENDS MCTime, NatFacts, FiniteSetTheorems

Link == 0..MAX_EVENTS + 2
Place == 0..MAX_EVENTS + 1

ListRecord ==
  [next : [1..MAX_EVENTS + 2 -> Link], dcycs : [Node -> Int], type : [Node -> Type],
   cur : Int, vbl : Int, stop : Int, halted : {{}}]

\* p is the walk from head h, over k nodes.
Path(e, h, k, p) ==
  /\ k \in 0..MAX_EVENTS /\ h \in {g_event_start, g_event_free}
  /\ p \in [Place -> Link] /\ p[0] = h
  /\ \A i \in 1..k : p[i] \in Node
  /\ \A i \in k + 1..MAX_EVENTS + 1 : p[i] = Null
  /\ \A i \in 0..k : p[i + 1] = e.next[p[i]]
  /\ \A i, j \in 1..k : p[i] = p[j] => i = j

\* p goes over the events in the order of their times, at most one of a type, and
\* q over all other nodes.
Lists(e, k, l, p, q) ==
  /\ Path(e, g_event_start, k, p) /\ Path(e, g_event_free, l, q)
  /\ k + l = MAX_EVENTS
  /\ \A i \in 1..k, j \in 1..l : p[i] # q[j]
  /\ \A n \in Node : (\E i \in 1..k : p[i] = n) \/ (\E j \in 1..l : q[j] = n)
  /\ \A i, j \in 1..k : i < j => e.dcycs[p[i]] <= e.dcycs[p[j]]
  /\ \A i, j \in 1..k : e.type[p[i]] = e.type[p[j]] => i = j

Sound(e) ==
  /\ e \in ListRecord
  /\ \E k, l \in 0..MAX_EVENTS :
       Lists(e, k, l, Hop(e, g_event_start), Hop(e, g_event_free))

-----------------------------------------------------------------------------
(* Walks.                                                                  *)

\* The walk that the links describe is the one Hop computes.
LEMMA WalkIsHop ==
  ASSUME NEW e, NEW h, NEW k, NEW p, MAX_EVENTS \in Nat, Path(e, h, k, p)
  PROVE  Hop(e, h) = p
<1> DEFINE body(f, n) == IF n = 0 THEN h
                         ELSE IF f[n - 1] = Null THEN Null ELSE e.next[f[n - 1]]
           Loop(f) == f = [n \in Place |-> body(f, n)]
<1>1. ASSUME NEW n \in Place PROVE p[n] = body(p, n)
  <2>1. CASE n = 0
    BY <2>1 DEF Path
  <2>2. CASE n # 0 /\ n - 1 <= k
    <3>1. n - 1 \in 0..k /\ (n - 1) + 1 = n
      BY <2>2 DEF Path, Place
    <3>2. p[n - 1] # Null
      BY <3>1 DEF Path, Node, Null, g_event_start, g_event_free
    <3>3. p[n] = e.next[p[n - 1]]
      BY <3>1 DEF Path
    <3> QED BY <2>2, <3>2, <3>3
  <2>3. CASE n # 0 /\ n - 1 > k
    <3>1. n - 1 \in k + 1..MAX_EVENTS + 1 /\ n \in k + 1..MAX_EVENTS + 1
      BY <2>3 DEF Path, Place
    <3> QED BY <2>3, <3>1 DEF Path
  <2>4. k \in Int /\ n \in Int
    BY DEF Path, Place
  <2> QED BY <2>1, <2>2, <2>3, <2>4
<1>2. Loop(p)
  <2>1. p = [n \in Place |-> p[n]]
    BY DEF Path
  <2> HIDE DEF body
  <2> QED BY <1>1, <2>1
<1>3. ASSUME NEW f, Loop(f) PROVE f = p
  <2> DEFINE S == {n \in Nat : n \in Place => f[n] = p[n]}
  <2>1. f = [n \in Place |-> body(f, n)]
    BY <1>3
  <2>2. \A n \in Place : f[n] = body(f, n)
    <3> HIDE DEF body
    <3> QED BY <2>1
  <2>3. 0 \in S
    BY <1>1, <2>2 DEF Place
  <2>4. ASSUME NEW n \in Nat, n \in S PROVE n + 1 \in S
    <3>1. SUFFICES ASSUME n + 1 \in Place PROVE f[n + 1] = p[n + 1]
      OBVIOUS
    <3>2. n \in Place /\ f[n] = p[n]
      BY <2>4, <3>1 DEF Place
    <3>3. (n + 1) - 1 = n /\ n + 1 # 0
      OBVIOUS
    <3>4. body(f, n + 1) = body(p, n + 1)
      BY <3>2, <3>3
    <3>5. f[n + 1] = body(f, n + 1) /\ p[n + 1] = body(p, n + 1)
      <4> HIDE DEF body
      <4> QED BY <1>1, <2>2, <3>1
    <3> QED BY <3>4, <3>5
  <2>5. Nat \subseteq S
    <3> HIDE DEF S
    <3> QED BY <2>3, <2>4, SetInduction
  <2>6. \A n \in Place : f[n] = p[n]
    BY <2>5 DEF Place
  <2>7. f = [n \in Place |-> f[n]] /\ p = [n \in Place |-> p[n]]
    <3>1. f = [n \in Place |-> f[n]]
      <4> HIDE DEF body
      <4> QED BY <2>1
    <3> QED BY <3>1 DEF Path
  <2> QED BY <2>6, <2>7
<1>4. Hop(e, h) = CHOOSE f : Loop(f)
  BY DEF Hop, Place
<1> QED
  <2> HIDE DEF Loop
  <2> QED BY <1>2, <1>3, <1>4

LEMMA SoundIs ==
  ASSUME NEW e, Sound(e)
  PROVE  \E k, l, p, q : Lists(e, k, l, p, q)
BY DEF Sound

LEMMA IsSound ==
  ASSUME MAX_EVENTS \in Nat, NEW e \in ListRecord, NEW k, NEW l, NEW p, NEW q, Lists(e, k, l, p, q)
  PROVE  Sound(e)
<1>1. Hop(e, g_event_start) = p /\ Hop(e, g_event_free) = q
  BY WalkIsHop DEF Lists
<1>2. k \in 0..MAX_EVENTS /\ l \in 0..MAX_EVENTS
  BY DEF Lists, Path
<1> QED BY <1>1, <1>2 DEF Sound

\* The timers of a list.
LEMMA DueIs ==
  ASSUME MAX_EVENTS \in Nat, NEW e, NEW k, NEW l, NEW p, NEW q, Lists(e, k, l, p, q)
  PROVE  /\ \A n : n \in Listed(e) <=> \E i \in 1..k : n = p[i]
         /\ First(e) = p[1] /\ (k = 0 => First(e) = Null)
         /\ \A t : t \in DOMAIN DueOf(e) <=> \E i \in 1..k : t = e.type[p[i]]
         /\ \A i \in 1..k : DueOf(e)[e.type[p[i]]] = e.dcycs[p[i]]
         /\ \A ty : Pending(e, ty) <=> ty \in DOMAIN DueOf(e)
<1>1. Hop(e, g_event_start) = p
  BY WalkIsHop DEF Lists
<1>2. Path(e, g_event_start, k, p) /\ k \in 0..MAX_EVENTS
  BY DEF Lists, Path
<1>3. Listed(e) = {p[i] : i \in 1..k}
  <2>1. Listed(e) = {p[i] : i \in 1..MAX_EVENTS} \ {Null}
    BY <1>1 DEF Listed
  <2>2. ASSUME NEW n PROVE n \in Listed(e) <=> n \in {p[i] : i \in 1..k}
    <3>1. CASE n \in Listed(e)
      <4>1. PICK i \in 1..MAX_EVENTS : p[i] = n
        BY <2>1, <3>1
      <4>2. i \in 1..k
        BY <1>2, <2>1, <3>1, <4>1 DEF Path
      <4> QED BY <3>1, <4>1, <4>2
    <3>2. CASE n \in {p[i] : i \in 1..k}
      <4>1. PICK i \in 1..k : p[i] = n
        BY <3>2
      <4>2. i \in 1..MAX_EVENTS /\ n # Null
        BY <1>2, <4>1 DEF Path, Node, Null
      <4> QED BY <2>1, <3>2, <4>1, <4>2
    <3> QED BY <3>1, <3>2
  <2> QED BY <2>2
<1>4. First(e) = p[1] /\ (k = 0 => First(e) = Null)
  <2>1. 0 \in 0..k /\ 0 + 1 = 1
    BY <1>2
  <2>2. p[1] = e.next[g_event_start]
    BY <1>2, <2>1 DEF Path
  <2>3. k = 0 => 1 \in k + 1..MAX_EVENTS + 1
    BY <1>2
  <2> QED BY <1>2, <2>2, <2>3 DEF Path, First
<1>5. DOMAIN DueOf(e) = {e.type[n] : n \in Listed(e)}
  BY DEF DueOf
<1>6. DOMAIN DueOf(e) = {e.type[p[i]] : i \in 1..k}
  BY <1>3, <1>5
<1>7. ASSUME NEW i \in 1..k PROVE DueOf(e)[e.type[p[i]]] = e.dcycs[p[i]]
  <2> DEFINE ty == e.type[p[i]]
             it == CHOOSE n \in Listed(e) : e.type[n] = ty
  <2>1. p[i] \in Listed(e)
    BY <1>3
  <2>2. it \in Listed(e) /\ e.type[it] = ty
    BY <2>1
  <2>3. PICK j \in 1..k : it = p[j]
    <3> HIDE DEF it
    <3> QED BY <1>3, <2>2
  <2>4. i = j
    <3> HIDE DEF it
    <3> QED BY <2>2, <2>3 DEF Lists
  <2>5. ty \in DOMAIN DueOf(e)
    BY <1>6
  <2>6. DueOf(e)[ty] = e.dcycs[it]
    <3>1. ty \in {e.type[n] : n \in Listed(e)}
      BY <2>1
    <3> HIDE DEF ty
    <3> QED BY <3>1 DEF DueOf
  <2> QED BY <2>3, <2>4, <2>6
<1>8. ASSUME NEW ty PROVE Pending(e, ty) <=> ty \in DOMAIN DueOf(e)
  BY <1>5 DEF Pending
<1> QED BY <1>3, <1>4, <1>6, <1>7, <1>8

-----------------------------------------------------------------------------
(* The routines, on the two walks.                                         *)

\* A search stops behind the last node before the first one of S.
LEMMA BeforeIs ==
  ASSUME MAX_EVENTS \in Nat, NEW e, NEW k, NEW p, NEW S, Path(e, g_event_start, k, p)
  PROVE  \E m \in 0..k : /\ Before(e, S) = p[m]
                         /\ m < k => p[m + 1] \in S
                         /\ \A i \in 1..m : p[i] \notin S
<1> DEFINE stops(n) == p[n + 1] = Null \/ p[n + 1] \in S
           first(n) == n \in 0..MAX_EVENTS /\ stops(n) /\ \A m \in 0..n - 1 : ~stops(m)
           T == {n \in 0..MAX_EVENTS : stops(n)}
           at == CHOOSE n \in 0..MAX_EVENTS : stops(n) /\ \A m \in 0..n - 1 : ~stops(m)
<1>1. Before(e, S) = p[at]
  <2>1. Hop(e, g_event_start) = p
    BY WalkIsHop
  <2> QED BY <2>1 DEF Before
<1>2. k \in 0..MAX_EVENTS /\ k \in T
  <2>1. k \in 0..MAX_EVENTS /\ k + 1 \in k + 1..MAX_EVENTS + 1
    BY DEF Path
  <2>2. p[k + 1] = Null
    BY <2>1 DEF Path
  <2> QED BY <2>1, <2>2
<1>3. PICK n \in T : \A m \in T : n <= m
  <2>1. T \subseteq Nat /\ T # {}
    BY <1>2
  <2> HIDE DEF T
  <2> QED BY <2>1, LeastNumber
<1>4. first(n)
  BY <1>3
<1>5. first(at)
  <2> HIDE DEF stops
  <2> QED BY <1>4
<1>6. at <= k
  BY <1>2, <1>5
<1>7. at < k => p[at + 1] \in S
  <2>1. SUFFICES ASSUME at < k PROVE p[at + 1] \in S
    OBVIOUS
  <2>2. stops(at) /\ at \in 0..MAX_EVENTS
    BY <1>5
  <2> HIDE DEF at
  <2>3. at + 1 \in 1..k
    BY <1>2, <2>1, <2>2
  <2>4. p[at + 1] # Null
    BY <2>3 DEF Path, Node, Null
  <2> QED BY <2>2, <2>4
<1>8. \A i \in 1..at : p[i] \notin S
  <2>1. at \in 0..MAX_EVENTS /\ \A m \in 0..at - 1 : ~stops(m)
    BY <1>5
  <2> HIDE DEF at
  <2>2. ASSUME NEW i \in 1..at PROVE p[i] \notin S
    <3>1. i - 1 \in 0..at - 1 /\ (i - 1) + 1 = i
      BY <2>1
    <3>2. ~stops(i - 1)
      BY <2>1, <3>1
    <3> QED BY <3>1, <3>2
  <2> QED BY <2>2
<1>9. at \in 0..k
  BY <1>2, <1>5, <1>6
<1> QED BY <1>1, <1>7, <1>8, <1>9

LEMMA RecordIs ==
  ASSUME NEW e \in ListRecord
  PROVE  /\ e.next \in [1..MAX_EVENTS + 2 -> Link]
         /\ e.dcycs \in [Node -> Int] /\ e.type \in [Node -> Type]
         /\ e.cur \in Int /\ e.vbl \in Int /\ e.stop \in Int /\ e.halted = {}
BY DEF ListRecord

\* The node behind p[m] becomes the first of the free list.
LEMMA Unlinked ==
  ASSUME MAX_EVENTS \in Nat, NEW e \in ListRecord, NEW k, NEW l, NEW p, NEW q,
         Lists(e, k, l, p, q), NEW m \in 0..k - 1, NEW f, f = Unlink(e, p[m])
  PROVE  /\ f \in ListRecord
         /\ \E r, s : /\ Lists(f, k - 1, l + 1, r, s)
                       /\ \A i \in 1..k - 1 : r[i] = IF i <= m THEN p[i] ELSE p[i + 1]
         /\ \A n \in Node : n # p[m + 1] => f.dcycs[n] = e.dcycs[n] /\ f.type[n] = e.type[n]
         /\ f.cur = e.cur /\ f.vbl = e.vbl /\ f.stop = e.stop
<1> DEFINE prev == p[m]
           this == p[m + 1]
           N == MAX_EVENTS
           next0 == [[[e.next EXCEPT ![prev] = e.next[this]]
                        EXCEPT ![this] = e.next[g_event_free]] EXCEPT ![g_event_free] = this]
           zero == 0
           dcycs0 == [e.dcycs EXCEPT ![this] = zero]
           type0 == [e.type EXCEPT ![this] = EV_60HZ]
           r == [i \in Place |-> IF i <= m THEN p[i] ELSE IF i = N + 1 THEN Null ELSE p[i + 1]]
           s == [i \in Place |-> IF i = 0 THEN g_event_free ELSE IF i = 1 THEN this ELSE q[i - 1]]
<1>1. /\ k \in 0..N /\ l \in 0..N /\ k + l = N /\ m \in Nat /\ m + 1 \in 1..k
      /\ k \in Nat /\ l \in Nat
  BY DEF Lists, Path
<1>2. Path(e, g_event_start, k, p) /\ Path(e, g_event_free, l, q)
  BY DEF Lists
<1>3. /\ this \in Node /\ prev \in 1..N + 2 /\ prev # this /\ prev # g_event_free
      /\ this = e.next[prev] /\ this # g_event_free /\ this # g_event_start
  <2>1. this \in Node /\ m \in 0..k
    BY <1>1, <1>2 DEF Path
  <2>2. this = e.next[prev]
    BY <1>2, <2>1 DEF Path
  <2>3. prev = g_event_start \/ (m \in 1..k /\ prev \in Node)
    BY <1>1, <1>2 DEF Path
  <2>4. m \in 1..k => prev # this
    BY <1>1, <1>2 DEF Path
  <2> QED BY <2>1, <2>2, <2>3, <2>4 DEF Node, g_event_start, g_event_free
<1>4. /\ e.next \in [1..N + 2 -> Link]
      /\ e.dcycs \in [Node -> Int] /\ e.type \in [Node -> Type]
  BY RecordIs
<1>5. f = [e EXCEPT !.next = next0, !.dcycs = dcycs0, !.type = type0]
  BY <1>3 DEF Unlink
<1>6. /\ next0 \in [1..N + 2 -> Link] /\ dcycs0 \in [Node -> Int] /\ type0 \in [Node -> Type]
      /\ next0[prev] = e.next[this] /\ next0[this] = e.next[g_event_free]
      /\ next0[g_event_free] = this
      /\ \A n \in 1..N + 2 : n \notin {prev, this, g_event_free} => next0[n] = e.next[n]
      /\ \A n \in Node : n # this => dcycs0[n] = e.dcycs[n] /\ type0[n] = e.type[n]
  <2>1. this \in 1..N + 2 /\ g_event_free \in 1..N + 2 /\ g_event_free \in Link /\ this \in Link
    BY <1>1, <1>3 DEF Node, g_event_free, Link
  <2>2. EV_60HZ \in Type /\ zero \in Int
    BY DEF Type
  <2>3. e.next[this] \in Link /\ e.next[g_event_free] \in Link
    BY <1>4, <2>1
  <2> HIDE DEF prev, this, zero
  <2>4. dcycs0 \in [Node -> Int] /\ \A n \in Node : n # this => dcycs0[n] = e.dcycs[n]
    BY <1>3, <1>4, <2>2
  <2>5. type0 \in [Node -> Type] /\ \A n \in Node : n # this => type0[n] = e.type[n]
    BY <1>3, <1>4, <2>2
  <2>6. next0 \in [1..N + 2 -> Link]
    BY <1>3, <1>4, <2>1, <2>3
  <2>7. /\ next0[prev] = e.next[this] /\ next0[this] = e.next[g_event_free]
        /\ next0[g_event_free] = this
        /\ \A n \in 1..N + 2 : n \notin {prev, this, g_event_free} => next0[n] = e.next[n]
    BY <1>3, <1>4, <2>1
  <2> QED BY <2>4, <2>5, <2>6, <2>7
<1> HIDE DEF next0, dcycs0, type0, zero
<1>7. f \in ListRecord
  <2>1. [e EXCEPT !.next = next0, !.dcycs = dcycs0, !.type = type0] \in ListRecord
    BY <1>6 DEF ListRecord
  <2> QED BY <1>5, <2>1
<1>8. /\ f.next = next0 /\ f.dcycs = dcycs0 /\ f.type = type0
      /\ f.cur = e.cur /\ f.vbl = e.vbl /\ f.stop = e.stop
  BY <1>5 DEF ListRecord
<1>9. Path(f, g_event_start, k - 1, r)
  <2>1. \A i \in 0..k + 1 : i \in Place
    BY <1>1 DEF Place
  <2>2. r \in [Place -> Link]
    <3>1. ASSUME NEW i \in Place, i # N + 1 PROVE i + 1 \in Place
      BY <3>1 DEF Place
    <3>2. p \in [Place -> Link] /\ Null \in Link
      BY <1>2 DEF Path, Null, Link
    <3> QED BY <3>1, <3>2
  <2>3. r[0] = g_event_start
    BY <1>1, <1>2, <2>1 DEF Path
  <2>4. ASSUME NEW i \in 1..k - 1 PROVE /\ r[i] \in Node /\ r[i] # this
                                        /\ r[i] = IF i <= m THEN p[i] ELSE p[i + 1]
    <3>1. i \in 1..k /\ i + 1 \in 1..k /\ i # N + 1 /\ i \in Place
      BY <1>1, <2>1
    <3> QED BY <1>1, <1>2, <3>1 DEF Path
  <2>5. ASSUME NEW i \in k..N + 1 PROVE r[i] = Null
    <3>1. i \in Place /\ ~(i <= m) /\ (i # N + 1 => i + 1 \in k + 1..N + 1)
      BY <1>1 DEF Place
    <3> QED BY <1>2, <3>1 DEF Path
  <2>6. ASSUME NEW i \in 0..k - 1 PROVE r[i + 1] = next0[r[i]]
    <3>1. i \in 0..k /\ i + 1 \in 0..k /\ i # N + 1 /\ i + 1 # N + 1 /\ i \in Place /\ i + 1 \in Place
      BY <1>1, <2>1
    <3>2. CASE i < m
      <4>1. r[i] = p[i] /\ r[i + 1] = p[i + 1] /\ i # m
        BY <1>1, <3>1, <3>2
      <4>2. p[i] \notin {prev, this, g_event_free} /\ p[i] \in 1..N + 2
        <5>1. i = 0 => p[i] = g_event_start /\ m \in 1..k /\ prev \in Node
          BY <1>1, <1>2, <3>2 DEF Path
        <5>2. i # 0 => i \in 1..k /\ m \in 1..k /\ m + 1 \in 1..k /\ p[i] \in Node
          BY <1>1, <1>2, <3>1, <3>2 DEF Path
        <5>3. i # 0 => p[i] # prev /\ p[i] # this
          BY <1>2, <3>2, <5>2, <1>1 DEF Path
        <5> QED BY <1>3, <5>1, <5>2, <5>3 DEF Node, g_event_start, g_event_free
      <4>3. p[i + 1] = e.next[p[i]]
        BY <1>2, <3>1 DEF Path
      <4> QED BY <1>6, <4>1, <4>2, <4>3
    <3>3. CASE i = m
      <4>1. r[i] = prev /\ r[i + 1] = p[(m + 1) + 1]
        BY <1>1, <3>1, <3>3
      <4>2. p[(m + 1) + 1] = e.next[this]
        BY <1>1, <1>2 DEF Path
      <4> QED BY <1>6, <4>1, <4>2
    <3>4. CASE i > m
      <4>1. r[i] = p[i + 1] /\ r[i + 1] = p[(i + 1) + 1] /\ i + 1 \in 1..k /\ i + 1 # m + 1
        BY <1>1, <3>1, <3>4
      <4>2. p[i + 1] \notin {prev, this, g_event_free} /\ p[i + 1] \in 1..N + 2
        <5>1. p[i + 1] \in Node
          BY <1>2, <4>1 DEF Path
        <5>2. p[i + 1] # this
          BY <1>1, <1>2, <4>1 DEF Path
        <5>3. m = 0 => prev = g_event_start
          BY <1>2 DEF Path
        <5>4. m # 0 => m \in 1..k /\ m # i + 1
          BY <1>1, <3>4, <3>1
        <5>5. m # 0 => prev # p[i + 1]
          BY <1>2, <4>1, <5>4 DEF Path
        <5> QED BY <5>1, <5>2, <5>3, <5>5 DEF Node, g_event_start, g_event_free
      <4>3. p[(i + 1) + 1] = e.next[p[i + 1]]
        BY <1>2, <3>1 DEF Path
      <4> QED BY <1>6, <4>1, <4>2, <4>3
    <3> QED BY <1>1, <3>2, <3>3, <3>4
  <2>7. ASSUME NEW i \in 1..k - 1, NEW j \in 1..k - 1, r[i] = r[j] PROVE i = j
    <3>1. /\ i \in 1..k /\ j \in 1..k /\ i + 1 \in 1..k /\ j + 1 \in 1..k
      BY <1>1
    <3>2. \A a, b \in 1..k : p[a] = p[b] => a = b
      BY <1>2 DEF Path
    <3>3. (IF i <= m THEN p[i] ELSE p[i + 1]) = (IF j <= m THEN p[j] ELSE p[j + 1])
      BY <2>4, <2>7
    <3> HIDE DEF r
    <3> QED BY <1>1, <3>1, <3>2, <3>3
  <2> HIDE DEF r, prev, this
  <2>8. /\ k - 1 \in 0..N /\ (k - 1) + 1 = k
    BY <1>1
  <2> QED BY <1>8, <2>2, <2>3, <2>4, <2>5, <2>6, <2>7, <2>8 DEF Path
<1>10. Path(f, g_event_free, l + 1, s)
  <2>1. l + 1 \in 0..N /\ \A i \in 0..l + 2 : i \in Place
    BY <1>1 DEF Place
  <2>2. s \in [Place -> Link]
    <3>1. ASSUME NEW i \in Place, i # 0 PROVE i - 1 \in Place
      BY <3>1 DEF Place
    <3>2. q \in [Place -> Link] /\ g_event_free \in Link /\ this \in Link
      BY <1>1, <1>2, <1>3 DEF Path, g_event_free, Link, Node
    <3> QED BY <3>1, <3>2
  <2>3. s[0] = g_event_free /\ s[1] = this
    BY <1>1, <2>1
  <2>4. ASSUME NEW i \in 2..l + 1 PROVE i - 1 \in 1..l /\ s[i] = q[i - 1] /\ s[i] \in Node /\ s[i] # this
    <3>1. i - 1 \in 1..l /\ i \in Place
      BY <1>1, <2>1
    <3>2. p[m + 1] # q[i - 1]
      BY <1>1, <3>1 DEF Lists
    <3> QED BY <1>1, <1>2, <3>1, <3>2 DEF Path
  <2>5. ASSUME NEW i \in (l + 1) + 1..N + 1 PROVE s[i] = Null
    <3>1. i \in Place /\ i # 0 /\ i # 1 /\ i - 1 \in l + 1..N + 1
      BY <1>1 DEF Place
    <3> QED BY <1>2, <3>1 DEF Path
  <2>6. ASSUME NEW i \in 0..l + 1 PROVE s[i + 1] = next0[s[i]]
    <3>1. CASE i = 0
      BY <1>6, <2>3, <3>1
    <3>2. CASE i = 1
      <4>1. s[i + 1] = q[1]
        BY <2>1, <3>2, <1>1
      <4>2. 0 \in 0..l /\ 0 + 1 = 1
        BY <1>1
      <4>3. q[1] = e.next[g_event_free]
        BY <1>2, <4>2 DEF Path
      <4> QED BY <1>6, <2>3, <3>2, <4>1, <4>3
    <3>3. CASE i \in 2..l + 1
      <4>0. s[i] = q[i - 1] /\ i - 1 \in 1..l /\ s[i] \in Node /\ s[i] # this
        BY <2>4, <3>3
      <4>5. i + 1 \in Place /\ i + 1 # 0 /\ i + 1 # 1 /\ (i + 1) - 1 = i /\ (i - 1) + 1 = i
        BY <2>1, <3>3, <1>1
      <4>1. s[i] = q[i - 1] /\ s[i + 1] = q[i] /\ i - 1 \in 1..l /\ (i - 1) + 1 = i /\ s[i] \in Node /\ s[i] # this
        BY <4>0, <4>5
      <4>2. q[i] = e.next[q[i - 1]]
        BY <1>2, <4>1 DEF Path
      <4>3. q[i - 1] # prev
        <5>1. m = 0 => prev = g_event_start
          BY <1>2 DEF Path
        <5>2. m # 0 => m \in 1..k
          BY <1>1
        <5>3. m # 0 => prev # q[i - 1]
          BY <4>1, <5>2 DEF Lists
        <5> QED BY <4>1, <5>1, <5>3 DEF Node, g_event_start
      <4>4. s[i] \in 1..N + 2 /\ s[i] # g_event_free
        BY <4>1, <1>1 DEF Node, g_event_free
      <4> QED BY <1>6, <4>1, <4>2, <4>3, <4>4
    <3> QED BY <1>1, <3>1, <3>2, <3>3
  <2>7. ASSUME NEW i \in 1..l + 1 PROVE s[i] \in Node
    BY <1>1, <1>3, <2>3, <2>4
  <2>8. ASSUME NEW i \in 1..l + 1, NEW j \in 1..l + 1, s[i] = s[j] PROVE i = j
    <3>1. \A a, b \in 1..l : q[a] = q[b] => a = b
      BY <1>2 DEF Path
    <3>2. CASE i = 1
      BY <1>1, <2>3, <2>4, <2>8, <3>2
    <3>3. CASE j = 1
      BY <1>1, <2>3, <2>4, <2>8, <3>3
    <3>4. CASE i \in 2..l + 1 /\ j \in 2..l + 1
      <4> HIDE DEF s
      <4> QED BY <1>1, <2>4, <2>8, <3>1, <3>4
    <3> QED BY <1>1, <3>2, <3>3, <3>4
  <2> HIDE DEF s, prev, this
  <2> QED BY <1>8, <2>1, <2>2, <2>3, <2>5, <2>6, <2>7, <2>8 DEF Path
<1>11. ASSUME NEW i \in 1..k - 1
       PROVE  \E a \in 1..k : r[i] = p[a] /\ a # m + 1 /\ a = IF i <= m THEN i ELSE i + 1
  <2>1. i \in 1..k /\ i + 1 \in 1..k /\ i # N + 1 /\ i \in Place
    BY <1>1 DEF Place
  <2> QED BY <1>1, <2>1
<1>12. ASSUME NEW i \in 1..l + 1
       PROVE  s[i] = this \/ \E b \in 1..l : s[i] = q[b]
  <2>1. i \in Place /\ (i # 1 => i - 1 \in 1..l)
    BY <1>1 DEF Place
  <2> QED BY <1>1, <2>1
<1>13. ASSUME NEW a \in 1..k, a # m + 1 PROVE \E i \in 1..k - 1 : r[i] = p[a]
  <2>1. CASE a <= m
    BY <1>1, <2>1 DEF Place
  <2>2. CASE a > m
    <3>1. a - 1 \in 1..k - 1 /\ a - 1 # N + 1 /\ ~(a - 1 <= m) /\ a - 1 \in Place /\ (a - 1) + 1 = a
      BY <1>1, <1>13, <2>2 DEF Place
    <3> QED BY <3>1
  <2> QED BY <1>1, <2>1, <2>2
<1>14. s[1] = this /\ 1 \in 1..l + 1 /\ \A b \in 1..l : b + 1 \in 1..l + 1 /\ s[b + 1] = q[b]
  BY <1>1 DEF Place
<1>16. ASSUME NEW i \in 1..k - 1 PROVE r[i] = IF i <= m THEN p[i] ELSE p[i + 1]
  BY <1>1 DEF Place
<1> HIDE DEF r, s
<1>15. Lists(f, k - 1, l + 1, r, s)
  <2>1. (k - 1) + (l + 1) = N
    BY <1>1
  <2>2. ASSUME NEW i \in 1..k - 1, NEW j \in 1..l + 1 PROVE r[i] # s[j]
    <3>1. PICK a \in 1..k : r[i] = p[a] /\ a # m + 1
      BY <1>11
    <3>2. p[a] # this
      BY <1>1, <1>2, <3>1 DEF Path
    <3>3. \A b \in 1..l : p[a] # q[b]
      BY DEF Lists
    <3> QED BY <1>12, <3>1, <3>2, <3>3
  <2>3. ASSUME NEW n \in Node
        PROVE  (\E i \in 1..k - 1 : r[i] = n) \/ (\E j \in 1..l + 1 : s[j] = n)
    <3>1. (\E a \in 1..k : p[a] = n) \/ (\E b \in 1..l : q[b] = n)
      BY DEF Lists
    <3> QED BY <1>13, <1>14, <3>1
  <2>4. ASSUME NEW i \in 1..k - 1, NEW j \in 1..k - 1
        PROVE  /\ i < j => f.dcycs[r[i]] <= f.dcycs[r[j]]
               /\ f.type[r[i]] = f.type[r[j]] => i = j
    <3>1. PICK a \in 1..k : r[i] = p[a] /\ a # m + 1 /\ a = IF i <= m THEN i ELSE i + 1
      BY <1>11
    <3>2. PICK b \in 1..k : r[j] = p[b] /\ b # m + 1 /\ b = IF j <= m THEN j ELSE j + 1
      BY <1>11
    <3>3. p[a] # this /\ p[b] # this /\ p[a] \in Node /\ p[b] \in Node
      BY <1>1, <1>2, <3>1, <3>2 DEF Path
    <3>4. /\ f.dcycs[p[a]] = e.dcycs[p[a]] /\ f.dcycs[p[b]] = e.dcycs[p[b]]
          /\ f.type[p[a]] = e.type[p[a]] /\ f.type[p[b]] = e.type[p[b]]
      BY <1>6, <1>8, <3>3
    <3>5. (i < j => a < b) /\ (a = b => i = j)
      BY <1>1, <3>1, <3>2
    <3>6. (a < b => e.dcycs[p[a]] <= e.dcycs[p[b]]) /\ (e.type[p[a]] = e.type[p[b]] => a = b)
      BY DEF Lists
    <3> QED BY <3>1, <3>2, <3>4, <3>5, <3>6
  <2> QED BY <1>9, <1>10, <2>1, <2>2, <2>3, <2>4 DEF Lists
<1> QED BY <1>6, <1>7, <1>8, <1>15, <1>16

\* What add_event_entry does to the links: the first free node goes behind prev.
LinkIn(e, prev, d, ty, x) ==
  LET this == e.next[g_event_free]
  IN  [e EXCEPT !.next[g_event_free] = e.next[this], !.next[this] = e.next[prev],
                !.next[prev] = this, !.type[this] = ty, !.dcycs[this] = d, !.stop = x]

\* The first node of the free list is put behind p[m].
LEMMA Linked ==
  ASSUME MAX_EVENTS \in Nat, NEW e \in ListRecord, NEW k, NEW l, NEW p, NEW q,
         Lists(e, k, l, p, q), NEW m \in 0..k, NEW d \in Int, NEW ty \in Type, NEW x \in Int,
         l # 0, \A i \in 1..k : e.type[p[i]] # ty,
         \A i \in 1..m : e.dcycs[p[i]] < d, m < k => d <= e.dcycs[p[m + 1]],
         NEW f, f = LinkIn(e, p[m], d, ty, x)
  PROVE  /\ f \in ListRecord
         /\ \E r, s : /\ Lists(f, k + 1, l - 1, r, s)
                       /\ \A i \in 1..k + 1 : r[i] = IF i <= m THEN p[i]
                                                   ELSE IF i = m + 1 THEN q[1] ELSE p[i - 1]
         /\ \A i \in 1..k : f.dcycs[p[i]] = e.dcycs[p[i]] /\ f.type[p[i]] = e.type[p[i]]
         /\ q[1] \in Node /\ f.dcycs[q[1]] = d /\ f.type[q[1]] = ty
         /\ f.cur = e.cur /\ f.vbl = e.vbl /\ f.stop = x
<1> DEFINE prev == p[m]
           this == q[1]
           N == MAX_EVENTS
           next0 == [[[e.next EXCEPT ![g_event_free] = e.next[this]]
                        EXCEPT ![this] = e.next[prev]] EXCEPT ![prev] = this]
           dcycs0 == [e.dcycs EXCEPT ![this] = d]
           type0 == [e.type EXCEPT ![this] = ty]
           r == [i \in Place |-> IF i <= m THEN p[i] ELSE IF i = m + 1 THEN this ELSE p[i - 1]]
           s == [i \in Place |-> IF i = 0 THEN g_event_free
                                 ELSE IF i = N + 1 THEN Null ELSE q[i + 1]]
<1>1. /\ k \in 0..N /\ l \in 1..N /\ k + l = N /\ m \in Nat
      /\ k \in Nat /\ l \in Nat /\ k + 1 \in 0..N /\ l - 1 \in 0..N
  BY DEF Lists, Path
<1>2. Path(e, g_event_start, k, p) /\ Path(e, g_event_free, l, q)
  BY DEF Lists
<1>3. /\ this \in Node /\ prev \in 1..N + 2 /\ prev # this /\ prev # g_event_free
      /\ this = e.next[g_event_free] /\ this # g_event_free /\ this # g_event_start
      /\ (m = 0 /\ prev = g_event_start) \/ (m \in 1..k /\ prev \in Node)
  <2>1. 1 \in 1..l /\ 0 \in 0..l /\ 0 + 1 = 1
    BY <1>1
  <2>2. this \in Node /\ this = e.next[g_event_free]
    BY <1>2, <2>1 DEF Path
  <2>3. (m = 0 /\ prev = g_event_start) \/ (m \in 1..k /\ prev \in Node)
    BY <1>1, <1>2 DEF Path
  <2>4. m \in 1..k => prev # this
    BY <2>1 DEF Lists
  <2> QED BY <2>2, <2>3, <2>4 DEF Node, g_event_start, g_event_free
<1>4. /\ e.next \in [1..N + 2 -> Link]
      /\ e.dcycs \in [Node -> Int] /\ e.type \in [Node -> Type]
  BY RecordIs
<1>5. f = [e EXCEPT !.next = next0, !.dcycs = dcycs0, !.type = type0, !.stop = x]
  BY <1>3 DEF ListRecord, LinkIn
<1>6. /\ next0 \in [1..N + 2 -> Link] /\ dcycs0 \in [Node -> Int] /\ type0 \in [Node -> Type]
      /\ next0[g_event_free] = e.next[this] /\ next0[this] = e.next[prev] /\ next0[prev] = this
      /\ \A n \in 1..N + 2 : n \notin {prev, this, g_event_free} => next0[n] = e.next[n]
      /\ \A n \in Node : n # this => dcycs0[n] = e.dcycs[n] /\ type0[n] = e.type[n]
      /\ dcycs0[this] = d /\ type0[this] = ty
  <2>1. this \in 1..N + 2 /\ g_event_free \in 1..N + 2 /\ g_event_free \in Link /\ this \in Link
    BY <1>1, <1>3 DEF Node, g_event_free, Link
  <2>2. e.next[this] \in Link /\ e.next[prev] \in Link
    BY <1>3, <1>4, <2>1
  <2> HIDE DEF prev, this
  <2>3. dcycs0 \in [Node -> Int] /\ dcycs0[this] = d /\ \A n \in Node : n # this => dcycs0[n] = e.dcycs[n]
    BY <1>3, <1>4
  <2>4. type0 \in [Node -> Type] /\ type0[this] = ty /\ \A n \in Node : n # this => type0[n] = e.type[n]
    BY <1>3, <1>4
  <2>5. next0 \in [1..N + 2 -> Link]
    BY <1>3, <1>4, <2>1, <2>2
  <2>6. /\ next0[g_event_free] = e.next[this] /\ next0[this] = e.next[prev] /\ next0[prev] = this
        /\ \A n \in 1..N + 2 : n \notin {prev, this, g_event_free} => next0[n] = e.next[n]
    BY <1>3, <1>4, <2>1
  <2> QED BY <2>3, <2>4, <2>5, <2>6
<1> HIDE DEF next0, dcycs0, type0
<1>7. f \in ListRecord
  <2>1. [e EXCEPT !.next = next0, !.dcycs = dcycs0, !.type = type0, !.stop = x] \in ListRecord
    BY <1>6 DEF ListRecord
  <2> QED BY <1>5, <2>1
<1>8. /\ f.next = next0 /\ f.dcycs = dcycs0 /\ f.type = type0
      /\ f.cur = e.cur /\ f.vbl = e.vbl /\ f.stop = x
  BY <1>5 DEF ListRecord
<1>9. Path(f, g_event_start, k + 1, r)
  <2>1. \A i \in 0..k + 1 : i \in Place
    BY <1>1 DEF Place
  <2>2. r \in [Place -> Link]
    <3>1. ASSUME NEW i \in Place, ~(i <= m) PROVE i - 1 \in Place
      BY <1>1, <3>1 DEF Place
    <3>2. p \in [Place -> Link] /\ this \in Link
      BY <1>1, <1>2, <1>3 DEF Path, Link, Node
    <3> QED BY <3>1, <3>2
  <2>3. r[0] = g_event_start
    BY <1>1, <1>2, <2>1 DEF Path
  <2>4. ASSUME NEW i \in 1..k + 1
        PROVE  /\ r[i] = IF i <= m THEN p[i] ELSE IF i = m + 1 THEN this ELSE p[i - 1]
               /\ r[i] \in Node
               /\ i <= m => i \in 1..k
               /\ i > m + 1 => i - 1 \in 1..k
    <3>1. i \in Place
      BY <1>1, <2>1
    <3>2. i <= m => i \in 1..k /\ p[i] \in Node
      BY <1>1, <1>2 DEF Path
    <3>3. i > m + 1 => i - 1 \in 1..k /\ p[i - 1] \in Node
      BY <1>1, <1>2 DEF Path
    <3>4. r[i] = IF i <= m THEN p[i] ELSE IF i = m + 1 THEN this ELSE p[i - 1]
      BY <3>1
    <3> HIDE DEF r
    <3> QED BY <1>1, <1>3, <3>2, <3>3, <3>4
  <2>5. ASSUME NEW i \in (k + 1) + 1..N + 1 PROVE r[i] = Null
    <3>1. i \in Place /\ ~(i <= m) /\ i # m + 1 /\ i - 1 \in k + 1..N + 1
      BY <1>1 DEF Place
    <3> QED BY <1>2, <3>1 DEF Path
  <2>6. ASSUME NEW i \in 0..k + 1 PROVE r[i + 1] = next0[r[i]]
    <3>1. i \in Place /\ i + 1 \in Place
      BY <1>1 DEF Place
    <3>2. CASE i < m
      <4>1. r[i] = p[i] /\ r[i + 1] = p[i + 1] /\ i # m /\ i \in 0..k
        BY <1>1, <3>1, <3>2
      <4>2. p[i] \notin {prev, this, g_event_free} /\ p[i] \in 1..N + 2
        <5>1. i = 0 => p[i] = g_event_start /\ m \in 1..k /\ prev \in Node
          BY <1>1, <1>2, <3>2 DEF Path
        <5>2. i # 0 => i \in 1..k /\ m \in 1..k /\ p[i] \in Node
          BY <1>1, <1>2, <3>1, <3>2 DEF Path
        <5>3. i # 0 => p[i] # prev
          BY <1>2, <3>2, <5>2, <1>1 DEF Path
        <5>4. i # 0 => p[i] # this
          BY <1>1, <5>2 DEF Lists
        <5> QED BY <1>3, <5>1, <5>2, <5>3, <5>4 DEF Node, g_event_start, g_event_free
      <4>3. p[i + 1] = e.next[p[i]]
        BY <1>2, <4>1 DEF Path
      <4> QED BY <1>6, <4>1, <4>2, <4>3
    <3>3. CASE i = m
      <4>1. r[i] = prev /\ r[i + 1] = this
        BY <1>1, <3>1, <3>3
      <4> QED BY <1>6, <4>1
    <3>4. CASE i = m + 1
      <4>1. r[i] = this /\ r[i + 1] = p[m + 1]
        BY <1>1, <3>1, <3>4
      <4>2. p[m + 1] = e.next[prev]
        BY <1>1, <1>2 DEF Path
      <4> QED BY <1>6, <4>1, <4>2
    <3>5. CASE i > m + 1
      <4>1. r[i] = p[i - 1] /\ r[i + 1] = p[i] /\ i - 1 \in 1..k /\ (i - 1) + 1 = i /\ i - 1 # m
        BY <1>1, <3>1, <3>5
      <4>2. p[i - 1] \in Node /\ p[i - 1] # this
        BY <1>1, <1>2, <4>1 DEF Path, Lists
      <4>3. p[i - 1] # prev
        BY <1>1, <1>2, <1>3, <4>1, <4>2 DEF Path, Node, g_event_start
      <4>4. p[i] = e.next[p[i - 1]]
        BY <1>2, <4>1 DEF Path
      <4>5. p[i - 1] \in 1..N + 2 /\ p[i - 1] # g_event_free
        BY <1>1, <4>2 DEF Node, g_event_free
      <4> QED BY <1>6, <4>1, <4>2, <4>3, <4>4, <4>5
    <3> QED BY <1>1, <3>2, <3>3, <3>4, <3>5
  <2>7. ASSUME NEW i \in 1..k + 1, NEW j \in 1..k + 1, r[i] = r[j] PROVE i = j
    <3>1. \A a \in 1..k : p[a] # this
      BY <1>1 DEF Lists
    <3>2. \A a, b \in 1..k : p[a] = p[b] => a = b
      BY <1>2 DEF Path
    <3>3. /\ r[i] = IF i <= m THEN p[i] ELSE IF i = m + 1 THEN this ELSE p[i - 1]
          /\ i <= m => i \in 1..k
          /\ i > m + 1 => i - 1 \in 1..k
      BY <2>4
    <3>4. /\ r[j] = IF j <= m THEN p[j] ELSE IF j = m + 1 THEN this ELSE p[j - 1]
          /\ j <= m => j \in 1..k
          /\ j > m + 1 => j - 1 \in 1..k
      BY <2>4
    <3> HIDE DEF r, this
    <3>8. /\ (i <= m /\ i \in 1..k /\ r[i] = p[i]) \/ (i = m + 1 /\ r[i] = this)
             \/ (i > m + 1 /\ i - 1 \in 1..k /\ r[i] = p[i - 1])
          /\ (j <= m /\ j \in 1..k /\ r[j] = p[j]) \/ (j = m + 1 /\ r[j] = this)
             \/ (j > m + 1 /\ j - 1 \in 1..k /\ r[j] = p[j - 1])
      BY <1>1, <3>3, <3>4
    <3>5. CASE i <= m
      <4>1. r[i] = p[i] /\ i \in 1..k /\ j # m + 1
        BY <1>1, <2>7, <3>1, <3>5, <3>8
      <4>2. CASE j <= m
        BY <1>1, <2>7, <3>2, <3>8, <4>1, <4>2
      <4>3. CASE j > m + 1
        BY <1>1, <2>7, <3>2, <3>8, <3>5, <4>1, <4>3
      <4> QED BY <1>1, <4>1, <4>2, <4>3
    <3>6. CASE i = m + 1
      BY <1>1, <2>7, <3>1, <3>6, <3>8
    <3>7. CASE i > m + 1
      <4>1. r[i] = p[i - 1] /\ i - 1 \in 1..k /\ j # m + 1
        BY <1>1, <2>7, <3>1, <3>7, <3>8
      <4>2. CASE j <= m
        BY <1>1, <2>7, <3>2, <3>8, <3>7, <4>1, <4>2
      <4>3. CASE j > m + 1
        BY <1>1, <2>7, <3>2, <3>8, <3>7, <4>1, <4>3
      <4> QED BY <1>1, <4>1, <4>2, <4>3
    <3> QED BY <1>1, <3>5, <3>6, <3>7
  <2> HIDE DEF r, prev, this
  <2> QED BY <1>1, <1>8, <2>2, <2>3, <2>4, <2>5, <2>6, <2>7 DEF Path
<1>10. Path(f, g_event_free, l - 1, s)
  <2>1. \A i \in 0..l : i \in Place /\ i # N + 1
    BY <1>1 DEF Place
  <2>2. s \in [Place -> Link]
    <3>1. ASSUME NEW i \in Place, i # N + 1 PROVE i + 1 \in Place
      BY <3>1 DEF Place
    <3>2. q \in [Place -> Link] /\ g_event_free \in Link /\ Null \in Link
      BY <1>1, <1>2 DEF Path, g_event_free, Link, Null
    <3> QED BY <3>1, <3>2
  <2>3. s[0] = g_event_free
    BY <1>1, <2>1
  <2>4. ASSUME NEW i \in 1..l - 1
        PROVE  /\ i + 1 \in 1..l /\ s[i] = q[i + 1] /\ s[i] \in Node
               /\ s[i] \notin {this, prev, g_event_free}
    <3>1. i + 1 \in 1..l /\ i \in Place /\ i # N + 1 /\ i # 0 /\ 1 \in 1..l /\ i + 1 # 1
      BY <1>1, <2>1
    <3>2. q[i + 1] # this /\ q[i + 1] \in Node
      BY <1>2, <3>1 DEF Path
    <3>3. m \in 1..k => q[i + 1] # prev
      BY <3>1 DEF Lists
    <3>4. s[i] = q[i + 1]
      BY <3>1
    <3> QED BY <1>3, <3>1, <3>2, <3>3, <3>4 DEF Node, g_event_start, g_event_free
  <2>5. ASSUME NEW i \in (l - 1) + 1..N + 1 PROVE s[i] = Null
    <3>1. i \in Place /\ i # 0 /\ (i # N + 1 => i + 1 \in l + 1..N + 1)
      BY <1>1 DEF Place
    <3> QED BY <1>2, <3>1 DEF Path
  <2>6. ASSUME NEW i \in 0..l - 1 PROVE s[i + 1] = next0[s[i]]
    <3>1. i + 1 \in 0..l /\ i + 1 \in Place /\ i + 1 # N + 1 /\ i + 1 # 0 /\ i + 1 \in 1..l
      BY <1>1, <2>1
    <3>2. s[i + 1] = q[(i + 1) + 1]
      BY <3>1
    <3>3. q[(i + 1) + 1] = e.next[q[i + 1]]
      BY <1>2, <3>1 DEF Path
    <3>4. CASE i = 0
      BY <1>6, <2>3, <3>2, <3>3, <3>4
    <3>5. CASE i # 0
      <4>1. i \in 1..l - 1
        BY <1>1, <3>5
      <4>2. s[i] \in 1..N + 2
        BY <1>1, <2>4, <4>1 DEF Node
      <4>3. s[i] = q[i + 1] /\ s[i] \notin {this, prev, g_event_free}
        BY <2>4, <4>1
      <4> HIDE DEF s, this, prev
      <4> QED BY <1>6, <3>2, <3>3, <4>2, <4>3
    <3> QED BY <3>4, <3>5
  <2>7. ASSUME NEW i \in 1..l - 1, NEW j \in 1..l - 1, s[i] = s[j] PROVE i = j
    <3>1. \A a, b \in 1..l : q[a] = q[b] => a = b
      BY <1>2 DEF Path
    <3> HIDE DEF s
    <3> QED BY <1>1, <2>4, <2>7, <3>1
  <2> HIDE DEF s, prev, this
  <2>8. (l - 1) + 1 = l
    BY <1>1
  <2> QED BY <1>1, <1>8, <2>2, <2>3, <2>4, <2>5, <2>6, <2>7, <2>8 DEF Path
<1>11. ASSUME NEW i \in 1..k + 1
       PROVE  \/ i = m + 1 /\ r[i] = this
              \/ i < m + 1 /\ i \in 1..k /\ r[i] = p[i]
              \/ i > m + 1 /\ i - 1 \in 1..k /\ r[i] = p[i - 1]
  <2>1. i \in Place
    BY <1>1 DEF Place
  <2> QED BY <1>1, <2>1
<1>12. ASSUME NEW i \in 1..l - 1 PROVE i + 1 \in 1..l /\ s[i] = q[i + 1]
  BY <1>1 DEF Place
<1>13. ASSUME NEW a \in 1..k PROVE \E i \in 1..k + 1 : r[i] = p[a]
  <2>1. CASE a <= m
    BY <1>1, <2>1 DEF Place
  <2>2. CASE a > m
    <3>1. a + 1 \in 1..k + 1 /\ ~(a + 1 <= m) /\ a + 1 # m + 1 /\ a + 1 \in Place /\ (a + 1) - 1 = a
      BY <1>1, <2>2 DEF Place
    <3> QED BY <3>1
  <2> QED BY <1>1, <2>1, <2>2
<1>14. /\ r[m + 1] = this /\ m + 1 \in 1..k + 1
       /\ \A b \in 1..l : b # 1 => b - 1 \in 1..l - 1 /\ s[b - 1] = q[b]
  BY <1>1 DEF Place
<1>15. ASSUME NEW a \in 1..k
       PROVE  /\ p[a] # this /\ p[a] \in Node
              /\ f.dcycs[p[a]] = e.dcycs[p[a]] /\ f.type[p[a]] = e.type[p[a]]
  <2>1. p[a] # this /\ p[a] \in Node
    BY <1>1, <1>2 DEF Lists, Path
  <2> QED BY <1>6, <1>8, <2>1
<1>17. ASSUME NEW i \in 1..k + 1
       PROVE  r[i] = IF i <= m THEN p[i] ELSE IF i = m + 1 THEN this ELSE p[i - 1]
  BY <1>1 DEF Place
<1> HIDE DEF r, s
<1>16. Lists(f, k + 1, l - 1, r, s)
  <2>1. (k + 1) + (l - 1) = N
    BY <1>1
  <2>2. ASSUME NEW i \in 1..k + 1, NEW j \in 1..l - 1 PROVE r[i] # s[j]
    <3>1. j + 1 \in 1..l /\ s[j] = q[j + 1] /\ 1 \in 1..l /\ j + 1 # 1
      BY <1>1, <1>12
    <3>2. \A a \in 1..k : p[a] # q[j + 1]
      BY <3>1 DEF Lists
    <3>3. q[j + 1] # this
      BY <1>2, <3>1 DEF Path
    <3> QED BY <1>11, <3>1, <3>2, <3>3
  <2>3. ASSUME NEW n \in Node
        PROVE  (\E i \in 1..k + 1 : r[i] = n) \/ (\E j \in 1..l - 1 : s[j] = n)
    <3>1. (\E a \in 1..k : p[a] = n) \/ (\E b \in 1..l : q[b] = n)
      BY DEF Lists
    <3>2. ASSUME NEW b \in 1..l, q[b] = n
          PROVE  (\E i \in 1..k + 1 : r[i] = n) \/ (\E j \in 1..l - 1 : s[j] = n)
      <4>1. CASE b = 1
        BY <1>14, <3>2, <4>1
      <4>2. CASE b # 1
        BY <1>14, <3>2, <4>2
      <4> QED BY <4>1, <4>2
    <3> QED BY <1>13, <3>1, <3>2
  <2>4. ASSUME NEW i \in 1..k + 1, NEW j \in 1..k + 1, i < j
        PROVE  f.dcycs[r[i]] <= f.dcycs[r[j]]
    <3>1. f.dcycs[this] = d
      BY <1>6, <1>8
    <3>2. \A a, b \in 1..k : a < b => e.dcycs[p[a]] <= e.dcycs[p[b]]
      BY DEF Lists
    <3>3. \A a \in 1..k : e.dcycs[p[a]] \in Int
      BY <1>4, <1>15
    <3>4. \A a \in 1..k : a < m + 1 => e.dcycs[p[a]] <= d
      BY <1>1, <3>3
    <3>5. \A a \in 1..k : a >= m + 1 => d <= e.dcycs[p[a]]
      <4>1. ASSUME NEW a \in 1..k, a >= m + 1 PROVE d <= e.dcycs[p[a]]
        <5>1. m + 1 \in 1..k /\ d <= e.dcycs[p[m + 1]]
          BY <1>1, <4>1
        <5>2. a = m + 1 \/ e.dcycs[p[m + 1]] <= e.dcycs[p[a]]
          BY <1>1, <3>2, <4>1, <5>1
        <5> QED BY <3>3, <5>1, <5>2
      <4> QED BY <4>1
    <3>6. CASE i = m + 1
      <4>1. r[i] = this /\ j - 1 \in 1..k /\ r[j] = p[j - 1] /\ j - 1 >= m + 1
        BY <1>1, <1>11, <2>4, <3>6
      <4> QED BY <1>15, <3>1, <3>5, <4>1
    <3>7. CASE j = m + 1
      <4>1. r[j] = this /\ i \in 1..k /\ r[i] = p[i] /\ i < m + 1
        BY <1>1, <1>11, <2>4, <3>7
      <4> QED BY <1>15, <3>1, <3>4, <4>1
    <3>8. CASE i # m + 1 /\ j # m + 1
      <4>1. PICK a \in 1..k : r[i] = p[a] /\ ((i < m + 1 /\ a = i) \/ (i > m + 1 /\ a = i - 1))
        BY <1>11, <3>8
      <4>2. PICK b \in 1..k : r[j] = p[b] /\ ((j < m + 1 /\ b = j) \/ (j > m + 1 /\ b = j - 1))
        BY <1>11, <3>8
      <4>3. a < b
        BY <1>1, <2>4, <4>1, <4>2
      <4> QED BY <1>15, <3>2, <4>1, <4>2, <4>3
    <3> QED BY <3>6, <3>7, <3>8
  <2>5. ASSUME NEW i \in 1..k + 1, NEW j \in 1..k + 1, f.type[r[i]] = f.type[r[j]]
        PROVE  i = j
    <3>1. f.type[this] = ty
      BY <1>6, <1>8
    <3>2. \A a, b \in 1..k : e.type[p[a]] = e.type[p[b]] => a = b
      BY DEF Lists
    <3>3. CASE i = m + 1 \/ j = m + 1
      BY <1>11, <1>15, <2>5, <3>1, <3>3
    <3>4. CASE i # m + 1 /\ j # m + 1
      <4>1. PICK a \in 1..k : r[i] = p[a] /\ ((i < m + 1 /\ a = i) \/ (i > m + 1 /\ a = i - 1))
        BY <1>11, <3>4
      <4>2. PICK b \in 1..k : r[j] = p[b] /\ ((j < m + 1 /\ b = j) \/ (j > m + 1 /\ b = j - 1))
        BY <1>11, <3>4
      <4>3. a = b
        BY <1>15, <2>5, <3>2, <4>1, <4>2
      <4> QED BY <1>1, <4>1, <4>2, <4>3
    <3> QED BY <3>3, <3>4
  <2> QED BY <1>9, <1>10, <2>1, <2>2, <2>3, <2>4, <2>5 DEF Lists
<1> QED BY <1>3, <1>6, <1>7, <1>8, <1>15, <1>16, <1>17

-----------------------------------------------------------------------------
(* The routines, on the timers the list stands for.                        *)

\* From e to f a timer is armed for d, or one is gone, and all others stay.
Gained(e, f, ty, d) ==
  /\ Sound(f)
  /\ DOMAIN DueOf(f) = DOMAIN DueOf(e) \cup {ty}
  /\ DueOf(f)[ty] = d
  /\ \A t \in DOMAIN DueOf(e) : DueOf(f)[t] = DueOf(e)[t]
  /\ f.cur = e.cur /\ f.vbl = e.vbl /\ f.stop \in {e.stop, e.vbl}
  /\ \/ f.stop = e.vbl
     \/ DOMAIN DueOf(e) = {}
     \/ \E t \in DOMAIN DueOf(e) : DueOf(e)[t] <= d
Lost(e, f, ty) ==
  /\ Sound(f)
  /\ DOMAIN DueOf(f) = DOMAIN DueOf(e) \ {ty}
  /\ \A t \in DOMAIN DueOf(f) : DueOf(f)[t] = DueOf(e)[t]
  /\ f.cur = e.cur /\ f.vbl = e.vbl /\ f.stop = e.stop

LEMMA DueTypes ==
  ASSUME MAX_EVENTS \in Nat, NEW e, Sound(e)
  PROVE  /\ DOMAIN DueOf(e) \subseteq Type
         /\ \A t \in DOMAIN DueOf(e) : DueOf(e)[t] \in Int
<1>1. PICK k, l, p, q : Lists(e, k, l, p, q)
  BY SoundIs
<1>2. e.dcycs \in [Node -> Int] /\ e.type \in [Node -> Type]
  BY RecordIs DEF Sound
<1>3. \A i \in 1..k : p[i] \in Node
  BY <1>1 DEF Lists, Path
<1>4. /\ (\A t : t \in DOMAIN DueOf(e) <=> \E i \in 1..k : t = e.type[p[i]])
      /\ \A i \in 1..k : DueOf(e)[e.type[p[i]]] = e.dcycs[p[i]]
  BY <1>1, DueIs
<1> QED BY <1>2, <1>3, <1>4

\* There are as many nodes as types of events, so a free one is left for a type
\* that is not in the list.
LEMMA RoomLeft ==
  ASSUME NEW e, e \in ListRecord, NEW k, NEW l, NEW p, NEW q, Lists(e, k, l, p, q),
         NEW ty \in Type, ty \notin DOMAIN DueOf(e)
  PROVE  l # 0
<1> USE EventListAssumption
<1>1. SUFFICES ASSUME l = 0 PROVE FALSE
  OBVIOUS
<1>2. k = MAX_EVENTS /\ k \in Nat
  BY <1>1 DEF Lists, Path
<1>3. IsFiniteSet(Type) /\ Cardinality(Type) <= k /\ Cardinality(Type) \in Nat
  <2>1. IsFiniteSet(Type)
    BY FS_AddElement DEF Type
  <2> QED BY <1>2, <2>1, FS_CardinalityType
<1>4. IsFiniteSet(Type \ {ty}) /\ Cardinality(Type \ {ty}) = Cardinality(Type) - 1
  BY <1>3, FS_RemoveElement
<1>5. IsFiniteSet(1..k) /\ Cardinality(1..k) = k
  <2>1. IsFiniteSet(1..k) /\ Cardinality(1..k) = IF 1 > k THEN 0 ELSE k - 1 + 1
    BY <1>2, FS_Interval
  <2> QED BY <1>2, <2>1
<1> DEFINE g == [i \in 1..k |-> e.type[p[i]]]
<1>6. g \in [1..k -> Type \ {ty}]
  <2>1. \A i \in 1..k : p[i] \in Node
    BY DEF Lists, Path
  <2>2. \A i \in 1..k : e.type[p[i]] \in Type /\ e.type[p[i]] \in DOMAIN DueOf(e)
    BY <2>1, RecordIs, DueIs
  <2> QED BY <2>2
<1>7. \E i, j \in 1..k : i # j /\ g[i] = g[j]
  <2>1. Cardinality(Type \ {ty}) < Cardinality(1..k)
    BY <1>2, <1>3, <1>4, <1>5
  <2> DEFINE A == 1..k
             B == Type \ {ty}
  <2>2. IsFiniteSet(A) /\ IsFiniteSet(B) /\ g \in [A -> B] /\ Cardinality(B) < Cardinality(A)
    BY <1>4, <1>5, <1>6, <2>1
  <2> HIDE DEF g, A, B
  <2>3. \E i, j \in A : i # j /\ g[i] = g[j]
    BY <2>2, FS_PigeonHole
  <2> QED BY <2>3 DEF A
<1> QED BY <1>7 DEF Lists

LEMMA Added ==
  ASSUME NEW e, Sound(e), NEW ty \in Type, ty \notin DOMAIN DueOf(e), NEW d \in Int,
         d >= e.cur \/ ty \in MayBeLate, NEW f, f = add_event_entry(e, d, ty)
  PROVE  Gained(e, f, ty, d)
<1> USE EventListAssumption
<1>1. PICK k, l, p, q : Lists(e, k, l, p, q)
  BY SoundIs
<1>2. e \in ListRecord
  BY DEF Sound
<1>3. /\ First(e) = p[1] /\ (k = 0 => First(e) = Null)
      /\ \A t : t \in DOMAIN DueOf(e) <=> \E i \in 1..k : t = e.type[p[i]]
      /\ \A i \in 1..k : DueOf(e)[e.type[p[i]]] = e.dcycs[p[i]]
      /\ \A i \in 1..k : e.type[p[i]] # ty
  BY <1>1, DueIs
<1>4. l # 0
  BY <1>1, <1>2, <1>3, RoomLeft
<1>5. /\ k \in 0..MAX_EVENTS /\ l \in 1..MAX_EVENTS /\ q[1] = e.next[g_event_free]
      /\ q[1] \in Node /\ \A i \in 1..k : p[i] \in Node
  <2>1. k \in 0..MAX_EVENTS /\ l \in 1..MAX_EVENTS
    BY <1>1, <1>4 DEF Lists, Path
  <2>2. 0 \in 0..l /\ 1 \in 1..l /\ 0 + 1 = 1
    BY <2>1
  <2> QED BY <1>1, <2>1, <2>2 DEF Lists, Path
<1> DEFINE S == {n \in Node : e.dcycs[n] >= d}
           x == IF First(e) # Null /\ d < e.dcycs[First(e)] THEN e.vbl ELSE e.stop
<1>6. PICK m \in 0..k : /\ Before(e, S) = p[m] /\ (m < k => p[m + 1] \in S)
                        /\ \A i \in 1..m : p[i] \notin S
  <2> HIDE DEF S
  <2> QED BY <1>1, BeforeIs DEF Lists
<1>7. f = LinkIn(e, p[m], d, ty, x)
  <2>1. ~(d < e.cur /\ ty \notin MayBeLate)
    BY <1>2, RecordIs
  <2>2. e.next[g_event_free] # Null
    BY <1>5 DEF Node, Null
  <2> DEFINE t == IF First(e) # Null /\ d < e.dcycs[First(e)] THEN set_halt(e) ELSE e
  <2>3. f = [t EXCEPT !.next[g_event_free] = e.next[q[1]], !.next[q[1]] = e.next[p[m]],
                      !.next[p[m]] = q[1], !.type[q[1]] = ty, !.dcycs[q[1]] = d,
                      !.halted = @]
    <3> HIDE DEF t
    <3> QED BY <1>5, <1>6, <2>1, <2>2 DEF add_event_entry, t
  <2>4. t = [e EXCEPT !.stop = x] /\ x \in Int
    <3>1. (t = set_halt(e) /\ x = e.vbl) \/ (t = e /\ x = e.stop)
      OBVIOUS
    <3> QED BY <1>2, <3>1 DEF set_halt, ListRecord
  <2> HIDE DEF t, x
  <2> DEFINE next0 == [[[e.next EXCEPT ![g_event_free] = e.next[q[1]]]
                          EXCEPT ![q[1]] = e.next[p[m]]] EXCEPT ![p[m]] = q[1]]
             type0 == [e.type EXCEPT ![q[1]] = ty]
             dcycs0 == [e.dcycs EXCEPT ![q[1]] = d]
  <2>5. /\ t.next = e.next /\ t.type = e.type /\ t.dcycs = e.dcycs
        /\ t.halted = e.halted /\ t \in ListRecord
    <3>1. [e EXCEPT !.stop = x] \in ListRecord
      BY <1>2, <2>4 DEF ListRecord
    <3> QED BY <1>2, <2>4, <3>1 DEF ListRecord
  <2>6. f = [t EXCEPT !.next = next0, !.type = type0, !.dcycs = dcycs0]
    BY <2>3, <2>5 DEF ListRecord
  <2>7. LinkIn(e, p[m], d, ty, x)
        = [e EXCEPT !.next = next0, !.type = type0, !.dcycs = dcycs0, !.stop = x]
    BY <1>2, <1>5 DEF ListRecord, LinkIn
  <2> HIDE DEF next0, type0, dcycs0
  <2>8. f = [e EXCEPT !.next = next0, !.type = type0, !.dcycs = dcycs0, !.stop = x]
    BY <1>2, <2>4, <2>6 DEF ListRecord
  <2> QED BY <2>7, <2>8
<1>8. x \in Int /\ x \in {e.stop, e.vbl}
  BY <1>2, RecordIs
<1>9. /\ \A i \in 1..m : e.dcycs[p[i]] < d
      /\ m < k => d <= e.dcycs[p[m + 1]]
  <2>1. \A i \in 1..k : e.dcycs[p[i]] \in Int
    BY <1>2, <1>5, RecordIs
  <2>2. \A i \in 1..m : i \in 1..k
    BY <1>5
  <2>3. m < k => m + 1 \in 1..k
    BY <1>5
  <2> QED BY <1>5, <1>6, <2>1, <2>2, <2>3
<1> HIDE DEF S, x
<1>10. PICK r, s : /\ Lists(f, k + 1, l - 1, r, s)
                   /\ \A i \in 1..k + 1 : r[i] = IF i <= m THEN p[i]
                                               ELSE IF i = m + 1 THEN q[1] ELSE p[i - 1]
  BY <1>1, <1>2, <1>3, <1>4, <1>7, <1>8, <1>9, Linked
<1>11. /\ f \in ListRecord /\ f.cur = e.cur /\ f.vbl = e.vbl /\ f.stop = x
       /\ \A i \in 1..k : f.dcycs[p[i]] = e.dcycs[p[i]] /\ f.type[p[i]] = e.type[p[i]]
       /\ f.dcycs[q[1]] = d /\ f.type[q[1]] = ty
  BY <1>1, <1>2, <1>3, <1>4, <1>7, <1>8, <1>9, Linked
<1>12. Sound(f)
  BY <1>10, <1>11, IsSound
<1>13. /\ \A t : t \in DOMAIN DueOf(f) <=> \E i \in 1..k + 1 : t = f.type[r[i]]
       /\ \A i \in 1..k + 1 : DueOf(f)[f.type[r[i]]] = f.dcycs[r[i]]
  BY <1>10, DueIs
<1>14. /\ r[m + 1] = q[1] /\ m + 1 \in 1..k + 1
       /\ \A i \in 1..k : \E j \in 1..k + 1 : r[j] = p[i]
       /\ \A j \in 1..k + 1 : r[j] = q[1] \/ \E i \in 1..k : r[j] = p[i]
  <2>1. m + 1 \in Place /\ ~(m + 1 <= m) /\ m + 1 \in 1..k + 1
    BY <1>5 DEF Place
  <2>2. ASSUME NEW i \in 1..k PROVE \E j \in 1..k + 1 : r[j] = p[i]
    <3>1. CASE i <= m
      BY <1>5, <1>10, <3>1 DEF Place
    <3>2. CASE i > m
      <4>1. i + 1 \in 1..k + 1 /\ ~(i + 1 <= m) /\ i + 1 # m + 1 /\ i + 1 \in Place /\ (i + 1) - 1 = i
        BY <1>5, <3>2 DEF Place
      <4> QED BY <1>10, <4>1
    <3> QED BY <1>5, <3>1, <3>2
  <2>3. ASSUME NEW j \in 1..k + 1 PROVE r[j] = q[1] \/ \E i \in 1..k : r[j] = p[i]
    <3>1. j \in Place /\ (j <= m => j \in 1..k) /\ (j > m + 1 => j - 1 \in 1..k)
      BY <1>5 DEF Place
    <3> QED BY <1>5, <1>10, <3>1
  <2> QED BY <1>10, <2>1, <2>2, <2>3
<1>15. DueOf(f)[ty] = d /\ ty \in DOMAIN DueOf(f)
  BY <1>11, <1>13, <1>14
<1>16. ASSUME NEW t \in DOMAIN DueOf(e)
       PROVE  DueOf(f)[t] = DueOf(e)[t] /\ t \in DOMAIN DueOf(f)
  <2>1. PICK i \in 1..k : t = e.type[p[i]]
    BY <1>3
  <2>2. PICK j \in 1..k + 1 : r[j] = p[i]
    BY <1>14
  <2> QED BY <1>3, <1>11, <1>13, <2>1, <2>2
<1>17. DOMAIN DueOf(f) = DOMAIN DueOf(e) \cup {ty}
  <2>1. ASSUME NEW t \in DOMAIN DueOf(f) PROVE t \in DOMAIN DueOf(e) \cup {ty}
    <3>1. PICK j \in 1..k + 1 : t = f.type[r[j]]
      BY <1>13
    <3>2. CASE r[j] = q[1]
      BY <1>11, <3>1, <3>2
    <3>3. CASE \E i \in 1..k : r[j] = p[i]
      BY <1>3, <1>11, <3>1, <3>3
    <3> QED BY <1>14, <3>2, <3>3
  <2> QED BY <1>15, <1>16, <2>1
<1>18. \/ f.stop = e.vbl
       \/ DOMAIN DueOf(e) = {}
       \/ \E t \in DOMAIN DueOf(e) : DueOf(e)[t] <= d
  <2>1. CASE k = 0
    <3>1. \A t : t \notin DOMAIN DueOf(e)
      BY <1>3, <2>1
    <3> QED BY <3>1
  <2>2. CASE k # 0
    <3>1. 1 \in 1..k /\ First(e) = p[1] /\ First(e) # Null
      BY <1>3, <1>5, <2>2 DEF Node, Null
    <3>2. d < e.dcycs[p[1]] => f.stop = e.vbl
      BY <1>11, <3>1 DEF x
    <3>3. DueOf(e)[e.type[p[1]]] = e.dcycs[p[1]] /\ e.type[p[1]] \in DOMAIN DueOf(e) /\ e.dcycs[p[1]] \in Int
      BY <1>2, <1>3, <1>5, <3>1, RecordIs
    <3>4. d < e.dcycs[p[1]] \/ e.dcycs[p[1]] <= d
      BY <3>3
    <3> QED BY <3>2, <3>3, <3>4
  <2> QED BY <2>1, <2>2
<1> QED BY <1>8, <1>11, <1>12, <1>15, <1>16, <1>17, <1>18 DEF Gained

\* Without the node behind p[m] the list stands for one timer less.
LEMMA Less ==
  ASSUME MAX_EVENTS \in Nat, NEW e, Sound(e), NEW k, NEW l, NEW p, NEW q,
         Lists(e, k, l, p, q), NEW m \in 0..k - 1, NEW f, f = Unlink(e, p[m]),
         NEW ty, ty = e.type[p[m + 1]]
  PROVE  Lost(e, f, ty)
<1>1. e \in ListRecord
  BY DEF Sound
<1>2. PICK r, s : /\ Lists(f, k - 1, l + 1, r, s)
                  /\ \A i \in 1..k - 1 : r[i] = IF i <= m THEN p[i] ELSE p[i + 1]
  BY <1>1, Unlinked
<1>3. /\ f \in ListRecord /\ f.cur = e.cur /\ f.vbl = e.vbl /\ f.stop = e.stop
      /\ \A n \in Node : n # p[m + 1] => f.dcycs[n] = e.dcycs[n] /\ f.type[n] = e.type[n]
  BY <1>1, Unlinked
<1>4. Sound(f)
  BY <1>2, <1>3, IsSound
<1>5. /\ \A t : t \in DOMAIN DueOf(e) <=> \E i \in 1..k : t = e.type[p[i]]
      /\ \A i \in 1..k : DueOf(e)[e.type[p[i]]] = e.dcycs[p[i]]
      /\ \A t : t \in DOMAIN DueOf(f) <=> \E i \in 1..k - 1 : t = f.type[r[i]]
      /\ \A i \in 1..k - 1 : DueOf(f)[f.type[r[i]]] = f.dcycs[r[i]]
  BY <1>2, DueIs
<1>6. k \in 0..MAX_EVENTS /\ m + 1 \in 1..k /\ \A i \in 1..k : p[i] \in Node
  BY DEF Lists, Path
<1>7. ASSUME NEW i \in 1..k - 1 PROVE \E a \in 1..k : r[i] = p[a] /\ a # m + 1
  <2>1. i \in 1..k /\ i + 1 \in 1..k /\ i # MAX_EVENTS + 1 /\ i \in Place
    BY <1>6 DEF Place
  <2>2. CASE i <= m
    BY <1>2, <1>6, <2>1, <2>2
  <2>3. CASE i > m
    BY <1>2, <1>6, <2>1, <2>3
  <2> QED BY <1>6, <2>2, <2>3
<1>8. ASSUME NEW a \in 1..k, a # m + 1 PROVE \E i \in 1..k - 1 : r[i] = p[a]
  <2>1. CASE a <= m
    BY <1>2, <1>6, <2>1 DEF Place
  <2>2. CASE a > m
    <3>1. a - 1 \in 1..k - 1 /\ a - 1 # MAX_EVENTS + 1 /\ ~(a - 1 <= m) /\ a - 1 \in Place /\ (a - 1) + 1 = a
      BY <1>6, <1>8, <2>2 DEF Place
    <3> QED BY <1>2, <3>1
  <2> QED BY <1>6, <2>1, <2>2
<1>9. \A a \in 1..k : a # m + 1 => /\ e.type[p[a]] # ty
                                   /\ f.type[p[a]] = e.type[p[a]] /\ f.dcycs[p[a]] = e.dcycs[p[a]]
  BY <1>3, <1>6 DEF Lists, Path
<1>10. ASSUME NEW t \in DOMAIN DueOf(f)
       PROVE  t \in DOMAIN DueOf(e) /\ t # ty /\ DueOf(f)[t] = DueOf(e)[t]
  <2>1. PICK i \in 1..k - 1 : t = f.type[r[i]]
    BY <1>5
  <2>2. PICK a \in 1..k : r[i] = p[a] /\ a # m + 1
    BY <1>7
  <2> QED BY <1>5, <1>9, <2>1, <2>2
<1>11. ASSUME NEW t \in DOMAIN DueOf(e), t # ty PROVE t \in DOMAIN DueOf(f)
  <2>1. PICK a \in 1..k : t = e.type[p[a]]
    BY <1>5
  <2>2. a # m + 1
    BY <1>11, <2>1
  <2>3. PICK i \in 1..k - 1 : r[i] = p[a]
    BY <1>8, <2>2
  <2> QED BY <1>5, <1>9, <2>1, <2>2, <2>3
<1> QED BY <1>3, <1>4, <1>10, <1>11 DEF Lost

LEMMA Removed ==
  ASSUME MAX_EVENTS \in Nat, NEW e, Sound(e), NEW ty, ty \in DOMAIN DueOf(e),
         NEW f, f = remove_event_entry(e, ty)
  PROVE  Lost(e, f, ty)
<1>1. PICK k, l, p, q : Lists(e, k, l, p, q)
  BY SoundIs
<1>2. k \in 0..MAX_EVENTS /\ \A i \in 1..k : p[i] \in Node
  BY <1>1 DEF Lists, Path
<1> DEFINE S == {n \in Node : e.type[n] = ty}
<1>3. PICK m \in 0..k : /\ Before(e, S) = p[m] /\ (m < k => p[m + 1] \in S)
                        /\ \A i \in 1..m : p[i] \notin S
  <2> HIDE DEF S
  <2> QED BY <1>1, BeforeIs DEF Lists
<1>4. PICK i \in 1..k : e.type[p[i]] = ty
  BY <1>1, DueIs
<1>5. m \in 0..k - 1
  BY <1>2, <1>3, <1>4
<1>6. e.type[p[m + 1]] = ty /\ p[m + 1] \in Node
  BY <1>2, <1>3, <1>5
<1>7. f = Unlink(e, p[m])
  <2>1. m \in 0..k
    BY <1>5
  <2>2. e.next[p[m]] = p[m + 1]
    BY <1>1, <2>1 DEF Lists, Path
  <2>3. e.next[p[m]] # Null
    BY <1>6, <2>2 DEF Node, Null
  <2> QED BY <1>3, <2>3 DEF remove_event_entry
<1>8. ty = e.type[p[m + 1]]
  BY <1>6
<1> HIDE DEF S
<1> QED BY <1>1, <1>2, <1>5, <1>7, <1>8, Less

\* The node at the head is the timer that goes off first.
LEMMA Front ==
  ASSUME MAX_EVENTS \in Nat, NEW e, Sound(e), DOMAIN DueOf(e) # {}, NEW ty, ty = e.type[First(e)]
  PROVE  /\ First(e) \in Node /\ ty \in DOMAIN DueOf(e) /\ DueOf(e)[ty] = e.dcycs[First(e)]
         /\ \A t \in DOMAIN DueOf(e) : DueOf(e)[ty] <= DueOf(e)[t]
<1>1. PICK k, l, p, q : Lists(e, k, l, p, q)
  BY SoundIs
<1>2. k \in 0..MAX_EVENTS /\ \A i \in 1..k : p[i] \in Node
  BY <1>1 DEF Lists, Path
<1>3. /\ First(e) = p[1] /\ (k = 0 => First(e) = Null)
      /\ \A t : t \in DOMAIN DueOf(e) <=> \E i \in 1..k : t = e.type[p[i]]
      /\ \A i \in 1..k : DueOf(e)[e.type[p[i]]] = e.dcycs[p[i]]
  BY <1>1, DueIs
<1>4. 1 \in 1..k
  BY <1>2, <1>3
<1>5. \A i \in 1..k : e.dcycs[p[1]] <= e.dcycs[p[i]]
  <2>1. e.dcycs \in [Node -> Int]
    BY RecordIs DEF Sound
  <2>2. \A i \in 1..k : i # 1 => e.dcycs[p[1]] <= e.dcycs[p[i]]
    BY <1>1, <1>4 DEF Lists
  <2> QED BY <1>2, <1>4, <2>1, <2>2
<1> QED BY <1>2, <1>3, <1>4, <1>5

LEMMA Popped ==
  ASSUME MAX_EVENTS \in Nat, NEW e, Sound(e), DOMAIN DueOf(e) # {}, NEW ty, ty = e.type[First(e)],
         NEW f, f = Unlink(e, g_event_start)
  PROVE  Lost(e, f, ty)
<1>1. PICK k, l, p, q : Lists(e, k, l, p, q)
  BY SoundIs
<1>2. k \in 0..MAX_EVENTS /\ p[0] = g_event_start
  BY <1>1 DEF Lists, Path
<1>3. First(e) = p[1] /\ \A t : t \in DOMAIN DueOf(e) <=> \E i \in 1..k : t = e.type[p[i]]
  BY <1>1, DueIs
<1>4. 0 \in 0..k - 1 /\ 0 + 1 = 1
  BY <1>2, <1>3
<1> HIDE DEF First
<1> QED BY <1>1, <1>2, <1>3, <1>4, Less

\* Where all times are a cycles earlier, all timers are.
LEMMA Moved ==
  ASSUME MAX_EVENTS \in Nat, NEW e, Sound(e), NEW a \in Int, NEW g \in ListRecord,
         g.next = e.next, g.type = e.type, \A n \in Listed(e) : g.dcycs[n] = e.dcycs[n] - a
  PROVE  /\ Sound(g)
         /\ DOMAIN DueOf(g) = DOMAIN DueOf(e)
         /\ \A t \in DOMAIN DueOf(e) : DueOf(g)[t] = DueOf(e)[t] - a
<1>1. PICK k, l, p, q : Lists(e, k, l, p, q)
  BY SoundIs
<1>2. e \in ListRecord
  BY DEF Sound
<1>10. \A i \in 1..k : p[i] \in Node
  BY <1>1 DEF Lists, Path
<1>3. /\ \A i \in 1..k : p[i] \in Node /\ p[i] \in Listed(e)
      /\ \A t : t \in DOMAIN DueOf(e) <=> \E i \in 1..k : t = e.type[p[i]]
      /\ \A i \in 1..k : DueOf(e)[e.type[p[i]]] = e.dcycs[p[i]]
  BY <1>1, <1>10, DueIs
<1>4. \A i \in 1..k : e.dcycs[p[i]] \in Int /\ g.dcycs[p[i]] = e.dcycs[p[i]] - a
  BY <1>2, <1>3, RecordIs
<1>5. Lists(g, k, l, p, q)
  <2>1. \A i, j \in 1..k : i < j => g.dcycs[p[i]] <= g.dcycs[p[j]]
    <3>1. \A i, j \in 1..k : i < j => e.dcycs[p[i]] <= e.dcycs[p[j]]
      BY <1>1 DEF Lists
    <3> QED BY <1>4, <3>1
  <2>2. Path(g, g_event_start, k, p) /\ Path(g, g_event_free, l, q)
    BY <1>1 DEF Lists, Path
  <2> QED BY <1>1, <2>1, <2>2 DEF Lists
<1>6. Sound(g)
  BY <1>5, IsSound
<1>7. /\ \A t : t \in DOMAIN DueOf(g) <=> \E i \in 1..k : t = e.type[p[i]]
      /\ \A i \in 1..k : DueOf(g)[e.type[p[i]]] = g.dcycs[p[i]]
  BY <1>5, DueIs
<1>8. DOMAIN DueOf(g) = DOMAIN DueOf(e)
  BY <1>3, <1>7
<1>9. ASSUME NEW t \in DOMAIN DueOf(e) PROVE DueOf(g)[t] = DueOf(e)[t] - a
  <2>1. PICK i \in 1..k : t = e.type[p[i]]
    BY <1>3
  <2> QED BY <1>3, <1>4, <1>7, <2>1
<1> QED BY <1>6, <1>8, <1>9

\* What devices may do in one go: timers that may not be taken back stay as they
\* are, and one that comes in front of all others stops the CPU.
Used(e, g) ==
  /\ Sound(g) /\ g.cur = e.cur /\ g.vbl = e.vbl /\ g.stop \in {e.stop, e.vbl}
  /\ \A t \in DOMAIN DueOf(e) \ Removable : t \in DOMAIN DueOf(g) /\ DueOf(g)[t] = DueOf(e)[t]
  /\ \/ g.stop = e.vbl
     \/ \A t \in DOMAIN DueOf(g) : \E u \in DOMAIN DueOf(e) : DueOf(e)[u] <= DueOf(g)[t]

LEMMA UseIs ==
  ASSUME NEW e, Sound(e), DOMAIN DueOf(e) # {}, NEW low \in Int, NEW g \in Uses(e, low)
  PROVE  Used(e, g)
<1>0. MAX_EVENTS \in Nat /\ MaxDelay \in Int /\ Removable \subseteq Device
  BY EventListAssumption
<1>1. \A t \in DOMAIN DueOf(e) : DueOf(e)[t] \in Int
  BY <1>0, DueTypes
<1>2. e.cur \in Int /\ e.vbl \in Int
  BY RecordIs DEF Sound
<1>3. CASE g = e
  BY <1>1, <1>3 DEF Used
<1>4. ASSUME NEW d \in low..MaxDelay, NEW ty \in Device, ~Pending(e, ty),
             g = add_event_device(e, d, ty)
      PROVE  Used(e, g)
  <2> DEFINE at == IF d < e.cur /\ ty \notin MayBeLate THEN e.cur ELSE d
  <2>1. at \in Int /\ (at >= e.cur \/ ty \in MayBeLate)
    BY <1>0, <1>2
  <2>2. g = add_event_entry(e, at, ty)
    BY <1>4 DEF add_event_device
  <2> HIDE DEF at
  <2>3. ty \in Type /\ ty \notin DOMAIN DueOf(e)
    <3>1. PICK k, l, p, q : Lists(e, k, l, p, q)
      BY SoundIs
    <3> QED BY <1>0, <1>4, <3>1, DueIs DEF Type
  <2>4. Gained(e, g, ty, at)
    BY <1>4, <2>1, <2>2, <2>3, Added
  <2>5. \/ g.stop = e.vbl
        \/ \A t \in DOMAIN DueOf(g) : \E u \in DOMAIN DueOf(e) : DueOf(e)[u] <= DueOf(g)[t]
    BY <1>1, <2>4 DEF Gained
  <2> QED BY <2>4, <2>5 DEF Used, Gained
<1>5. ASSUME NEW ty \in Removable, Pending(e, ty), g = remove_event_entry(e, ty)
      PROVE  Used(e, g)
  <2>2. ty \in DOMAIN DueOf(e)
    <3>1. PICK k, l, p, q : Lists(e, k, l, p, q)
      BY SoundIs
    <3> QED BY <1>0, <1>5, <3>1, DueIs
  <2>1. Lost(e, g, ty)
    BY <1>0, <1>5, <2>2, Removed
  <2> QED BY <1>1, <2>1 DEF Used, Lost
<1>6. \/ g = e
      \/ \E d \in low..MaxDelay, ty \in {t \in Device : ~Pending(e, t)} : g = add_event_device(e, d, ty)
      \/ \E ty \in {t \in Removable : Pending(e, t)} : g = remove_event_entry(e, ty)
  BY DEF Uses
<1> QED BY <1>3, <1>4, <1>5, <1>6

LEMMA AgainIs ==
  ASSUME NEW e, Sound(e), EV_60HZ \notin DOMAIN DueOf(e), e.cur <= e.vbl + Period + Period,
         NEW f, f = AgainIn60th(e)
  PROVE  /\ Sound(f)
         /\ DOMAIN DueOf(f) = DOMAIN DueOf(e) \cup {EV_60HZ}
         /\ DueOf(f)[EV_60HZ] = e.vbl + Period + Period
         /\ \A t \in DOMAIN DueOf(e) : DueOf(f)[t] = DueOf(e)[t]
         /\ f.cur = e.cur /\ f.vbl = e.vbl + Period
<1>0. MAX_EVENTS \in Nat /\ Period \in Int /\ Period > 0
  BY EventListAssumption
<1>1. e \in ListRecord /\ e.cur \in Int /\ e.vbl \in Int
  BY RecordIs DEF Sound
<1> DEFINE vbl == e.vbl + Period
           g == [e EXCEPT !.vbl = vbl]
           d == vbl + Period
           zero == 0
<1>2. vbl \in Int /\ d \in Int /\ zero \in Int
  BY <1>0, <1>1
<1>3. f = add_event_entry(g, d, EV_60HZ)
  BY DEF AgainIn60th
<1> HIDE DEF vbl, zero
<1>4. g \in ListRecord
  BY <1>1, <1>2 DEF ListRecord
<1>5. /\ g.next = e.next /\ g.type = e.type /\ g.dcycs = e.dcycs /\ g.cur = e.cur /\ g.vbl = vbl
      /\ g.stop = e.stop
  BY <1>1 DEF ListRecord
<1> HIDE DEF g
<1>6. \A n \in Listed(e) : g.dcycs[n] = e.dcycs[n] - zero
  <2>1. PICK k, l, p, q : Lists(e, k, l, p, q)
    BY SoundIs
  <2>2. Listed(e) \subseteq Node
    <3>1. \A i \in 1..k : p[i] \in Node
      BY <2>1 DEF Lists, Path
    <3> QED BY <1>0, <2>1, <3>1, DueIs
  <2> QED BY <1>1, <1>5, <2>2, RecordIs DEF zero
<1>7. /\ Sound(g) /\ DOMAIN DueOf(g) = DOMAIN DueOf(e)
      /\ \A t \in DOMAIN DueOf(e) : DueOf(g)[t] = DueOf(e)[t]
  <2>1. /\ Sound(g) /\ DOMAIN DueOf(g) = DOMAIN DueOf(e)
        /\ \A t \in DOMAIN DueOf(e) : DueOf(g)[t] = DueOf(e)[t] - zero
    BY <1>0, <1>2, <1>4, <1>5, <1>6, Moved
  <2>2. \A t \in DOMAIN DueOf(e) : DueOf(e)[t] \in Int
    BY <1>0, DueTypes
  <2> QED BY <2>1, <2>2 DEF zero
<1>8. EV_60HZ \notin DOMAIN DueOf(g) /\ EV_60HZ \in Type
  BY <1>7 DEF Type
<1>9. d >= g.cur
  BY <1>0, <1>1, <1>5 DEF vbl
<1> HIDE DEF d
<1>10. Gained(g, f, EV_60HZ, d)
  BY <1>2, <1>3, <1>7, <1>8, <1>9, Added
<1> QED BY <1>5, <1>7, <1>10 DEF d, vbl, Gained

-----------------------------------------------------------------------------
(* The loop.                                                               *)

\* The clock is always armed, a period after its last tick, and goes off before
\* another one is over.  While the CPU runs it is told to stop no later than the
\* first timer, unless it stops at once.
Good(e, runs) ==
  /\ Sound(e)
  /\ EV_60HZ \in DOMAIN DueOf(e) /\ DueOf(e)[EV_60HZ] = e.vbl + Period
  /\ 0 - MaxInstr <= e.vbl + Period /\ e.vbl <= 0
  /\ runs \/ e.cur = 0
  /\ ~runs \/ e.stop < 0 \/ \A t \in DOMAIN DueOf(e) : e.stop <= DueOf(e)[t]
ListInv == running \in BOOLEAN /\ Good(Now, running)

SameTimers(e, f) ==
  /\ DOMAIN DueOf(f) = DOMAIN DueOf(e)
  /\ \A t \in DOMAIN DueOf(e) : DueOf(f)[t] = DueOf(e)[t]

LEMMA DueEqual ==
  ASSUME NEW e, NEW f, SameTimers(e, f)
  PROVE  DueOf(f) = DueOf(e)
<1>1. \A g : DueOf(g) = [t \in DOMAIN DueOf(g) |-> DueOf(g)[t]]
  BY DEF DueOf
<1> DEFINE D == DueOf(e)
           G == DueOf(f)
<1>2. /\ D = [t \in DOMAIN D |-> D[t]] /\ G = [t \in DOMAIN G |-> G[t]]
      /\ DOMAIN G = DOMAIN D /\ \A t \in DOMAIN D : G[t] = D[t]
  BY <1>1 DEF SameTimers
<1> HIDE DEF D, G
<1>3. D = G
  BY <1>2
<1> QED BY <1>3 DEF D, G

\* The fields of the loop alone say nothing about the timers.
LEMMA Told ==
  ASSUME MAX_EVENTS \in Nat, NEW e, Sound(e), NEW f \in ListRecord,
         f.next = e.next, f.type = e.type, f.dcycs = e.dcycs
  PROVE  Sound(f) /\ SameTimers(e, f)
<1> DEFINE zero == 0
<1>1. \A t \in DOMAIN DueOf(e) : DueOf(e)[t] \in Int
  BY DueTypes
<1>2. \A n \in Listed(e) : f.dcycs[n] = e.dcycs[n] - zero
  <2>1. PICK k, l, p, q : Lists(e, k, l, p, q)
    BY SoundIs
  <2>2. \A i \in 1..k : p[i] \in Node
    BY <2>1 DEF Lists, Path
  <2>3. Listed(e) \subseteq Node
    BY <2>1, <2>2, DueIs
  <2>4. e \in ListRecord
    BY DEF Sound
  <2> QED BY <2>3, <2>4, RecordIs
<1>3. zero \in Int
  OBVIOUS
<1> HIDE DEF zero
<1>4. /\ Sound(f) /\ DOMAIN DueOf(f) = DOMAIN DueOf(e)
      /\ \A t \in DOMAIN DueOf(e) : DueOf(f)[t] = DueOf(e)[t] - zero
  BY <1>2, <1>3, Moved
<1> QED BY <1>1, <1>4 DEF zero, SameTimers

LEMMA EnterIs ==
  ASSUME NEW e, Good(e, FALSE), NEW f, f = [e EXCEPT !.stop = e.dcycs[First(e)]]
  PROVE  Good(f, TRUE) /\ SameTimers(e, f) /\ f \in ListRecord
<1>0. MAX_EVENTS \in Nat
  BY EventListAssumption
<1>1. Sound(e) /\ e \in ListRecord /\ DOMAIN DueOf(e) # {}
  BY DEF Good, Sound
<1> DEFINE ty == e.type[First(e)]
           due == e.dcycs[First(e)]
<1>2. /\ First(e) \in Node /\ DueOf(e)[ty] = due
      /\ \A t \in DOMAIN DueOf(e) : DueOf(e)[ty] <= DueOf(e)[t]
  BY <1>0, <1>1, Front
<1>3. due \in Int
  BY <1>1, <1>2, RecordIs
<1> HIDE DEF due
<1>4. f \in ListRecord
  <2>1. [e EXCEPT !.stop = due] \in ListRecord
    BY <1>1, <1>3 DEF ListRecord
  <2> QED BY <2>1 DEF due
<1>5. /\ f.next = e.next /\ f.type = e.type /\ f.dcycs = e.dcycs /\ f.cur = e.cur
      /\ f.vbl = e.vbl /\ f.stop = due
  BY <1>1 DEF ListRecord, due
<1>6. Sound(f) /\ SameTimers(e, f)
  BY <1>0, <1>1, <1>4, <1>5, Told
<1> HIDE DEF ty
<1> QED BY <1>2, <1>4, <1>5, <1>6 DEF Good, SameTimers

LEMMA LeaveIs ==
  ASSUME NEW e, Good(e, TRUE), NEW f, f = [e EXCEPT !.cur = 0]
  PROVE  Good(f, FALSE) /\ SameTimers(e, f) /\ f \in ListRecord
<1>0. MAX_EVENTS \in Nat
  BY EventListAssumption
<1>1. Sound(e) /\ e \in ListRecord
  BY DEF Good, Sound
<1>2. f \in ListRecord
  <2> DEFINE zero == 0
  <2>1. zero \in Int
    OBVIOUS
  <2> HIDE DEF zero
  <2>2. [e EXCEPT !.cur = zero] \in ListRecord
    BY <1>1, <2>1 DEF ListRecord
  <2> QED BY <2>2 DEF zero
<1>3. /\ f.next = e.next /\ f.type = e.type /\ f.dcycs = e.dcycs /\ f.cur = 0
      /\ f.vbl = e.vbl
  BY <1>1 DEF ListRecord
<1>4. Sound(f) /\ SameTimers(e, f)
  BY <1>0, <1>1, <1>2, <1>3, Told
<1> QED BY <1>2, <1>3, <1>4 DEF Good, SameTimers

\* An instruction of a cycles.
Older(e, a) ==
  [e EXCEPT !.dcycs = [n \in Node |-> IF n \in Listed(e) THEN e.dcycs[n] - a ELSE 0],
            !.cur = e.cur - a, !.vbl = e.vbl - a, !.stop = e.stop - a]

LEMMA OlderIs ==
  ASSUME MAX_EVENTS \in Nat, NEW e, Sound(e), NEW a \in Int, NEW f, f = Older(e, a)
  PROVE  /\ Sound(f)
         /\ DOMAIN DueOf(f) = DOMAIN DueOf(e)
         /\ \A t \in DOMAIN DueOf(e) : DueOf(f)[t] = DueOf(e)[t] - a
         /\ f.cur = e.cur - a /\ f.vbl = e.vbl - a /\ f.stop = e.stop - a
<1>1. /\ e \in ListRecord /\ e.cur \in Int /\ e.vbl \in Int /\ e.stop \in Int
      /\ e.dcycs \in [Node -> Int]
  BY RecordIs DEF Sound
<1> DEFINE dcycs0 == [n \in Node |-> IF n \in Listed(e) THEN e.dcycs[n] - a ELSE 0]
           cur == e.cur - a
           vbl == e.vbl - a
           stop == e.stop - a
<1>2. dcycs0 \in [Node -> Int] /\ cur \in Int /\ vbl \in Int /\ stop \in Int
  BY <1>1
<1>3. \A n \in Listed(e) : n \in Node /\ dcycs0[n] = e.dcycs[n] - a
  <2>1. PICK k, l, p, q : Lists(e, k, l, p, q)
    BY SoundIs
  <2>2. \A i \in 1..k : p[i] \in Node
    BY <2>1 DEF Lists, Path
  <2>3. Listed(e) \subseteq Node
    BY <2>1, <2>2, DueIs
  <2> QED BY <2>3
<1>4. f = [e EXCEPT !.dcycs = dcycs0, !.cur = cur, !.vbl = vbl, !.stop = stop]
  BY DEF Older
<1> HIDE DEF dcycs0, cur, vbl, stop
<1>5. f \in ListRecord
  <2>1. [e EXCEPT !.dcycs = dcycs0, !.cur = cur, !.vbl = vbl, !.stop = stop] \in ListRecord
    BY <1>1, <1>2 DEF ListRecord
  <2> QED BY <1>4, <2>1
<1>6. /\ f.next = e.next /\ f.type = e.type /\ f.dcycs = dcycs0 /\ f.cur = cur /\ f.vbl = vbl
      /\ f.stop = stop
  BY <1>1, <1>4 DEF ListRecord
<1> QED BY <1>3, <1>5, <1>6, Moved DEF cur, vbl, stop

Ran(e, g, a) ==
  /\ Good(g, TRUE) /\ g \in ListRecord
  /\ \A t \in DOMAIN DueOf(e) : DueOf(e)[t] >= 0
  /\ \A t \in DOMAIN DueOf(e) \ Removable :
       t \in DOMAIN DueOf(g) /\ DueOf(g)[t] = DueOf(e)[t] - a

LEMMA InstrIs ==
  ASSUME NEW e, Good(e, TRUE), e.stop >= 0, NEW a \in 1..MaxInstr,
         NEW f \in Uses(Older(e, a), Older(e, a).vbl), NEW g, g = f \/ g = set_halt(f)
  PROVE  Ran(e, g, a)
<1> DEFINE o == Older(e, a)
<1>0. /\ MAX_EVENTS \in Nat /\ a \in Int /\ a > 0 /\ a <= MaxInstr
      /\ Period \in Int /\ MaxInstr \in Int /\ EV_60HZ \notin Removable
  BY EventListAssumption
<1>1. Sound(e) /\ e.vbl \in Int /\ e.stop \in Int /\ \A t \in DOMAIN DueOf(e) : DueOf(e)[t] \in Int
  BY <1>0, DueTypes, RecordIs DEF Good, Sound
<1>2. \A t \in DOMAIN DueOf(e) : DueOf(e)[t] >= 0 /\ e.stop <= DueOf(e)[t]
  BY <1>1 DEF Good
<1>3. /\ Sound(o)
      /\ DOMAIN DueOf(o) = DOMAIN DueOf(e)
      /\ \A t \in DOMAIN DueOf(e) : DueOf(o)[t] = DueOf(e)[t] - a
      /\ o.cur = e.cur - a /\ o.vbl = e.vbl - a /\ o.stop = e.stop - a
  <2> HIDE DEF o
  <2> QED BY <1>0, <1>1, OlderIs DEF o
<1>4. DOMAIN DueOf(o) # {}
  BY <1>3 DEF Good
<1>5. Used(o, f)
  <2> DEFINE low == o.vbl
  <2>1. low \in Int
    <3> HIDE DEF o
    <3> QED BY <1>0, <1>1, <1>3
  <2>2. f \in Uses(o, low)
    OBVIOUS
  <2> HIDE DEF o, low
  <2> QED BY <1>3, <1>4, <2>1, <2>2, UseIs
<1> HIDE DEF o
<1>6. /\ Sound(f) /\ f.vbl = e.vbl - a
      /\ \A t \in DOMAIN DueOf(e) \ Removable :
              t \in DOMAIN DueOf(f) /\ DueOf(f)[t] = DueOf(e)[t] - a
      /\ f.stop < 0 \/ \A t \in DOMAIN DueOf(f) : f.stop <= DueOf(f)[t]
  <2>1. /\ Sound(f) /\ f.vbl = o.vbl /\ f.stop \in {o.stop, o.vbl}
        /\ \A t \in DOMAIN DueOf(o) \ Removable : t \in DOMAIN DueOf(f) /\ DueOf(f)[t] = DueOf(o)[t]
        /\ \/ f.stop = o.vbl
           \/ \A t \in DOMAIN DueOf(f) : \E u \in DOMAIN DueOf(o) : DueOf(o)[u] <= DueOf(f)[t]
    BY <1>5 DEF Used
  <2>2. o.vbl < 0
    BY <1>0, <1>1, <1>3 DEF Good
  <2>3. \A t \in DOMAIN DueOf(f) : DueOf(f)[t] \in Int
    BY <1>0, <2>1, DueTypes
  <2>4. \A u \in DOMAIN DueOf(o) : o.stop <= DueOf(o)[u] /\ DueOf(o)[u] \in Int
    BY <1>0, <1>1, <1>2, <1>3
  <2>5. f.stop = o.stop => f.stop < 0 \/ \A t \in DOMAIN DueOf(f) : f.stop <= DueOf(f)[t]
    <3>1. SUFFICES ASSUME f.stop = o.stop, f.stop # o.vbl, NEW t \in DOMAIN DueOf(f)
                   PROVE  f.stop <= DueOf(f)[t]
      BY <2>2
    <3>2. PICK u \in DOMAIN DueOf(o) : DueOf(o)[u] <= DueOf(f)[t]
      BY <2>1, <3>1
    <3>3. o.stop \in Int
      BY <1>0, <1>1, <1>3
    <3> QED BY <2>3, <2>4, <3>1, <3>2, <3>3
  <2> QED BY <1>3, <2>1, <2>2, <2>5
<1>7. Good(f, TRUE)
  <2>1. EV_60HZ \in DOMAIN DueOf(f) /\ DueOf(f)[EV_60HZ] = f.vbl + Period
    BY <1>0, <1>1, <1>6 DEF Good
  <2>2. 0 - MaxInstr <= f.vbl + Period /\ f.vbl <= 0
    <3>1. 0 <= e.vbl + Period /\ e.vbl <= 0
      BY <1>2 DEF Good
    <3> QED BY <1>0, <1>1, <1>6, <3>1
  <2> QED BY <1>6, <2>1, <2>2 DEF Good
<1>8. f \in ListRecord
  BY <1>6 DEF Sound
<1>9. CASE g = f
  BY <1>2, <1>6, <1>7, <1>8, <1>9 DEF Ran
<1>10. CASE g = set_halt(f)
  <2> DEFINE vbl == f.vbl
  <2>1. vbl \in Int /\ vbl < 0
    BY <1>0, <1>1, <1>6 DEF Good
  <2>2. g = [f EXCEPT !.stop = vbl]
    BY <1>10 DEF set_halt
  <2> HIDE DEF vbl
  <2>3. g \in ListRecord
    <3>1. [f EXCEPT !.stop = vbl] \in ListRecord
      BY <1>8, <2>1 DEF ListRecord
    <3> QED BY <2>2, <3>1
  <2>4. /\ g.next = f.next /\ g.type = f.type /\ g.dcycs = f.dcycs /\ g.cur = f.cur
        /\ g.vbl = f.vbl /\ g.stop = vbl
    BY <1>8, <2>2 DEF ListRecord
  <2>5. Sound(g) /\ SameTimers(f, g)
    BY <1>0, <1>6, <1>8, <2>3, <2>4, Told
  <2>6. Good(g, TRUE)
    BY <1>7, <2>1, <2>4, <2>5 DEF Good, SameTimers
  <2>7. \A t \in DOMAIN DueOf(e) \ Removable :
              t \in DOMAIN DueOf(g) /\ DueOf(g)[t] = DueOf(e)[t] - a
    BY <1>6, <2>5 DEF SameTimers
  <2> QED BY <1>2, <2>3, <2>6, <2>7 DEF Ran
<1> QED BY <1>9, <1>10

\* The first event is taken off; the 60 Hz event is put in again.
Handled(e, ty) ==
  IF ty = EV_60HZ THEN AgainIn60th(Unlink(e, g_event_start)) ELSE Unlink(e, g_event_start)
WentOff(e, h, ty) ==
  /\ Good(h, FALSE) /\ h \in ListRecord
  /\ ty \in DOMAIN DueOf(e) /\ DueOf(e)[ty] <= 0
  /\ \A t \in DOMAIN DueOf(e) : DueOf(e)[ty] <= DueOf(e)[t]
  /\ \A t \in DOMAIN DueOf(e) \ (Removable \cup {ty}) :
       t \in DOMAIN DueOf(h) /\ DueOf(h)[t] = DueOf(e)[t]
  /\ ty = EV_60HZ => EV_60HZ \in DOMAIN DueOf(h)
                     /\ DueOf(h)[EV_60HZ] = DueOf(e)[EV_60HZ] + Period

LEMMA PopIs ==
  ASSUME NEW e, Good(e, FALSE), e.dcycs[First(e)] <= 0,
         NEW ty, ty = e.type[First(e)], NEW low \in Int,
         NEW f, f = Handled(e, ty), NEW g \in Uses(f, low), NEW h \in Uses(g, low)
  PROVE  WentOff(e, h, ty)
<1>0. /\ MAX_EVENTS \in Nat /\ Period \in Int /\ MaxInstr \in Int /\ EV_60HZ \notin Removable
      /\ MaxInstr < Period
  BY EventListAssumption
<1>1. /\ Sound(e) /\ e.vbl \in Int /\ e.cur = 0 /\ DOMAIN DueOf(e) # {}
      /\ \A t \in DOMAIN DueOf(e) : DueOf(e)[t] \in Int
  BY <1>0, DueTypes, RecordIs DEF Good, Sound
<1>2. /\ ty \in DOMAIN DueOf(e) /\ DueOf(e)[ty] <= 0
      /\ \A t \in DOMAIN DueOf(e) : DueOf(e)[ty] <= DueOf(e)[t]
  BY <1>0, <1>1, Front
<1> DEFINE u == Unlink(e, g_event_start)
<1>3. Lost(e, u, ty)
  <2> HIDE DEF u
  <2> QED BY <1>0, <1>1, Popped DEF u
<1>4. f = IF ty = EV_60HZ THEN AgainIn60th(u) ELSE u
  BY DEF Handled
<1> HIDE DEF u
<1>5. /\ Sound(f) /\ f.cur = 0 /\ f.vbl \in Int
      /\ \A t \in DOMAIN DueOf(e) : t # ty => t \in DOMAIN DueOf(f) /\ DueOf(f)[t] = DueOf(e)[t]
      /\ EV_60HZ \in DOMAIN DueOf(f) /\ DueOf(f)[EV_60HZ] = f.vbl + Period
      /\ 0 - MaxInstr <= f.vbl + Period /\ f.vbl <= 0
      /\ ty = EV_60HZ => DueOf(f)[EV_60HZ] = DueOf(e)[EV_60HZ] + Period
  <2>1. CASE ty = EV_60HZ
    <3>1. f = AgainIn60th(u)
      BY <1>4, <2>1
    <3>2. Sound(u) /\ EV_60HZ \notin DOMAIN DueOf(u) /\ u.cur = 0 /\ u.vbl = e.vbl
      BY <1>1, <1>3, <2>1 DEF Lost
    <3>3. /\ DueOf(e)[EV_60HZ] = e.vbl + Period /\ e.vbl + Period <= 0
          /\ 0 - MaxInstr <= e.vbl + Period /\ e.vbl <= 0
      BY <1>2, <2>1 DEF Good
    <3>4. u.cur <= u.vbl + Period + Period
      BY <1>0, <1>1, <3>2, <3>3
    <3>5. /\ Sound(f)
          /\ DOMAIN DueOf(f) = DOMAIN DueOf(u) \cup {EV_60HZ}
          /\ DueOf(f)[EV_60HZ] = u.vbl + Period + Period
          /\ \A t \in DOMAIN DueOf(u) : DueOf(f)[t] = DueOf(u)[t]
          /\ f.cur = u.cur /\ f.vbl = u.vbl + Period
      BY <3>1, <3>2, <3>4, AgainIs
    <3>6. \A t \in DOMAIN DueOf(e) : t # ty => t \in DOMAIN DueOf(f) /\ DueOf(f)[t] = DueOf(e)[t]
      BY <1>3, <3>5 DEF Lost
    <3> QED BY <1>0, <1>1, <3>2, <3>3, <3>5, <3>6
  <2>2. CASE ty # EV_60HZ
    <3>1. f = u
      BY <1>4, <2>2
    <3> QED BY <1>1, <1>3, <2>2, <3>1 DEF Lost, Good
  <2> QED BY <2>1, <2>2
<1>6. Used(f, g)
  <2>1. DOMAIN DueOf(f) # {}
    BY <1>5
  <2> QED BY <1>5, <2>1, UseIs
<1>7. Used(g, h)
  <2>1. Sound(g) /\ DOMAIN DueOf(g) # {}
    BY <1>0, <1>5, <1>6 DEF Used
  <2> QED BY <2>1, UseIs
<1>8. /\ Sound(h) /\ h.cur = 0 /\ h.vbl = f.vbl
      /\ \A t \in DOMAIN DueOf(f) \ Removable : t \in DOMAIN DueOf(h) /\ DueOf(h)[t] = DueOf(f)[t]
  BY <1>5, <1>6, <1>7 DEF Used
<1>9. EV_60HZ \in DOMAIN DueOf(h) /\ DueOf(h)[EV_60HZ] = DueOf(f)[EV_60HZ]
  BY <1>0, <1>5, <1>8
<1>10. Good(h, FALSE) /\ h \in ListRecord
  BY <1>5, <1>8, <1>9 DEF Good, Sound
<1>11. ASSUME NEW t \in DOMAIN DueOf(e) \ (Removable \cup {ty})
       PROVE  t \in DOMAIN DueOf(h) /\ DueOf(h)[t] = DueOf(e)[t]
  BY <1>5, <1>8
<1> QED BY <1>2, <1>5, <1>9, <1>10, <1>11 DEF WentOff

LEMMA BecomesIs ==
  ASSUME NEW e \in ListRecord, Becomes(e)
  PROVE  Now' = e
BY DEF Becomes, Now, ListRecord

\* initialize_events leaves two lists: the 60 Hz event, and the other nodes.
LEMMA ListStarts ==
  ASSUME ListInit
  PROVE  /\ ListInv
         /\ DOMAIN DueOf(Now) = {EV_60HZ} /\ DueOf(Now)[EV_60HZ] = Period
<1> DEFINE e == Now
           N == MAX_EVENTS
           p == [i \in Place |-> IF i = 0 THEN g_event_start ELSE IF i = 1 THEN 1 ELSE Null]
           q == [i \in Place |-> IF i = 0 THEN g_event_free
                                 ELSE IF i \in 1..N - 1 THEN i + 1 ELSE Null]
           zero == 0
           nil == {}
<1>0. /\ N \in Nat /\ Period \in Int /\ MaxInstr \in Nat /\ Period > 0
  BY EventListAssumption
<1>1. N >= 1
  <2>1. IsFiniteSet(Type) /\ EV_60HZ \in Type
    BY EventListAssumption, FS_AddElement DEF Type
  <2>2. Cardinality(Type) # 0 /\ Cardinality(Type) \in Nat
    <3>1. Type # {}
      BY <2>1
    <3> QED BY <2>1, <3>1, FS_EmptySet, FS_CardinalityType
  <2> QED BY <1>0, <2>2, EventListAssumption
<1>2. /\ e.next = next /\ e.dcycs = dcycs /\ e.type = type /\ e.cur = 0 /\ e.vbl = 0
      /\ e.stop = 0 /\ e.halted = {}
  BY DEF ListInit, Now
<1>3. /\ next \in [1..N + 2 -> Link]
      /\ next[g_event_start] = 1 /\ next[1] = Null
      /\ next[g_event_free] = IF N = 1 THEN Null ELSE 2
      /\ \A n \in 2..N - 1 : next[n] = n + 1
      /\ N # 1 => next[N] = Null
  <2> DEFINE link(n) == CASE n = 1 -> Null
                          [] n \in 2..N - 1 -> n + 1
                          [] n = N -> Null
                          [] n = g_event_start -> 1
                          [] n = g_event_free -> IF N = 1 THEN Null ELSE 2
  <2>1. next = [n \in 1..N + 2 |-> link(n)]
    BY DEF ListInit
  <2>2. link(1) = Null
    BY <1>1, <1>0 DEF g_event_start, g_event_free, Null
  <2>3. ASSUME NEW n \in 2..N - 1 PROVE link(n) = n + 1
    BY <1>0, <2>3 DEF g_event_start, g_event_free
  <2>4. N # 1 => link(N) = Null
    BY <1>0, <1>1 DEF g_event_start, g_event_free
  <2>5. link(g_event_start) = 1
    BY <1>0, <1>1 DEF g_event_start, g_event_free
  <2>6. link(g_event_free) = IF N = 1 THEN Null ELSE 2
    BY <1>0, <1>1 DEF g_event_start, g_event_free
  <2>7. \A n \in 1..N + 2 : n = 1 \/ n \in 2..N - 1 \/ n = N \/ n = g_event_start \/ n = g_event_free
    BY <1>0, <1>1 DEF g_event_start, g_event_free
  <2> HIDE DEF link
  <2>8. \A n \in 1..N + 2 : link(n) \in Link
    <3>1. \A n \in 2..N - 1 : n + 1 \in Link
      BY <1>0 DEF Link
    <3>2. Null \in Link /\ 1 \in Link /\ (N # 1 => 2 \in Link)
      BY <1>0, <1>1 DEF Link, Null
    <3> QED BY <2>2, <2>3, <2>4, <2>5, <2>6, <2>7, <3>1, <3>2
  <2>9. 1 \in 1..N + 2 /\ N \in 1..N + 2 /\ g_event_start \in 1..N + 2 /\ g_event_free \in 1..N + 2
    BY <1>0, <1>1 DEF g_event_start, g_event_free
  <2> QED BY <1>0, <2>1, <2>2, <2>3, <2>4, <2>5, <2>6, <2>8, <2>9
<1>4. e \in ListRecord
  <2>1. dcycs \in [Node -> Int] /\ type \in [Node -> Type] /\ halted \in {{}}
    <3>1. EV_60HZ \in Type
      BY DEF Type
    <3> QED BY <1>0, <3>1 DEF ListInit
  <2>2. g_cur_dcycs \in Int /\ g_last_vbl_dcycs \in Int /\ g_fcycles_stop \in Int
    BY DEF ListInit
  <2> QED BY <1>3, <2>1, <2>2 DEF Now, ListRecord
<1> HIDE DEF e
<1>5. Path(e, g_event_start, 1, p)
  <2>1. p \in [Place -> Link]
    BY <1>0, <1>1 DEF Place, Link, Null, g_event_start
  <2>2. p[0] = g_event_start /\ p[1] = 1 /\ \A i \in 1 + 1..N + 1 : p[i] = Null
    BY <1>0, <1>1 DEF Place
  <2>3. p[1 + 1] = Null /\ p[0 + 1] = 1
    BY <1>0, <1>1, <2>2
  <2> HIDE DEF p
  <2>4. \A i \in 0..1 : p[i + 1] = e.next[p[i]]
    <3>1. \A i \in 0..1 : i = 0 \/ i = 1
      OBVIOUS
    <3> QED BY <1>2, <1>3, <2>2, <2>3, <3>1
  <2>5. \A i \in 1..1 : i = 1
    OBVIOUS
  <2>6. 1 \in Node /\ 1 \in 0..N
    BY <1>0, <1>1 DEF Node
  <2> QED BY <2>1, <2>2, <2>4, <2>5, <2>6 DEF Path
<1>6. Path(e, g_event_free, N - 1, q)
  <2>1. q \in [Place -> Link]
    BY <1>0, <1>1 DEF Place, Link, Null, g_event_free
  <2>2. /\ q[0] = g_event_free
        /\ \A i \in 1..N - 1 : q[i] = i + 1
        /\ \A i \in (N - 1) + 1..N + 1 : q[i] = Null
    BY <1>0, <1>1 DEF Place
  <2> HIDE DEF q
  <2>3. ASSUME NEW i \in 0..N - 1 PROVE q[i + 1] = e.next[q[i]]
    <3>1. CASE i = 0 /\ N = 1
      <4>1. q[i + 1] = Null
        BY <1>0, <2>2, <3>1
      <4> QED BY <1>2, <1>3, <2>2, <3>1, <4>1
    <3>2. CASE i = 0 /\ N # 1
      <4>1. q[i + 1] = 2
        BY <1>0, <1>1, <2>2, <3>2
      <4> QED BY <1>2, <1>3, <2>2, <3>2, <4>1
    <3>3. CASE i # 0 /\ i < N - 1
      <4>1. q[i] = i + 1 /\ q[i + 1] = (i + 1) + 1 /\ i + 1 \in 2..N - 1
        BY <1>0, <2>2, <3>3
      <4> QED BY <1>2, <1>3, <4>1
    <3>4. CASE i # 0 /\ i = N - 1
      <4>1. q[i] = N /\ q[i + 1] = Null /\ N # 1
        BY <1>0, <2>2, <3>4
      <4> QED BY <1>2, <1>3, <4>1
    <3> QED BY <1>0, <3>1, <3>2, <3>3, <3>4
  <2>4. \A i \in 1..N - 1 : q[i] \in Node
    BY <1>0, <2>2 DEF Node
  <2>5. \A i, j \in 1..N - 1 : q[i] = q[j] => i = j
    BY <1>0, <2>2
  <2>6. N - 1 \in 0..N
    BY <1>0, <1>1
  <2> QED BY <2>1, <2>2, <2>3, <2>4, <2>5, <2>6 DEF Path
<1>7. /\ p[1] = 1 /\ \A i \in 1..N - 1 : q[i] = i + 1
  BY <1>0, <1>1 DEF Place
<1> HIDE DEF p, q
<1>8. Lists(e, 1, N - 1, p, q)
  <2>1. 1 + (N - 1) = N
    BY <1>0
  <2>2. \A i \in 1..1, j \in 1..N - 1 : p[i] # q[j]
    <3>1. ASSUME NEW i \in 1..1, NEW j \in 1..N - 1 PROVE p[i] # q[j]
      <4>1. i = 1
        OBVIOUS
      <4> QED BY <1>0, <1>7, <4>1
    <3> QED BY <3>1
  <2>3. ASSUME NEW n \in Node
        PROVE  (\E i \in 1..1 : p[i] = n) \/ (\E j \in 1..N - 1 : q[j] = n)
    <3>1. CASE n = 1
      <4>1. 1 \in 1..1
        OBVIOUS
      <4> QED BY <1>7, <3>1, <4>1
    <3>2. CASE n # 1
      <4>1. n - 1 \in 1..N - 1 /\ (n - 1) + 1 = n
        BY <1>0, <3>2 DEF Node
      <4> QED BY <1>7, <4>1
    <3> QED BY <3>1, <3>2
  <2>4. \A i, j \in 1..1 : i = j /\ ~(i < j)
    OBVIOUS
  <2> QED BY <1>5, <1>6, <2>1, <2>2, <2>3, <2>4 DEF Lists
<1>9. Sound(e)
  BY <1>0, <1>4, <1>8, IsSound
<1>10. DOMAIN DueOf(e) = {EV_60HZ} /\ DueOf(e)[EV_60HZ] = Period
  <2>1. /\ \A t : t \in DOMAIN DueOf(e) <=> \E i \in 1..1 : t = e.type[p[i]]
        /\ \A i \in 1..1 : DueOf(e)[e.type[p[i]]] = e.dcycs[p[i]]
    BY <1>0, <1>8, DueIs
  <2>2. e.type[1] = EV_60HZ /\ e.dcycs[1] = Period
    <3>1. 1 \in Node
      BY <1>0, <1>1 DEF Node
    <3> QED BY <1>2, <3>1 DEF ListInit
  <2>3. 1 \in 1..1 /\ \A i \in 1..1 : i = 1
    OBVIOUS
  <2> QED BY <1>7, <2>1, <2>2, <2>3
<1>11. Good(e, FALSE)
  <2>1. e.vbl + Period = Period /\ 0 - MaxInstr <= e.vbl + Period /\ e.vbl <= 0 /\ e.cur = 0
    BY <1>0, <1>2
  <2> QED BY <1>9, <1>10, <2>1 DEF Good
<1> QED BY <1>10, <1>11 DEF e, ListInv, ListInit

LEMMA ListStep ==
  ASSUME ListInv, ListNext
  PROVE  /\ ListInv'
         /\ \/ Promise!Pass(DueOf(Now), DueOf(Now'))
            \/ Promise!Expire(DueOf(Now), DueOf(Now'))
            \/ DueOf(Now') = DueOf(Now)
<1> DEFINE e == Now
<1>0. /\ MAX_EVENTS \in Nat /\ MaxInstr \in Nat /\ EV_60HZ \notin Removable
  BY EventListAssumption
<1>1. Good(e, running) /\ running \in BOOLEAN /\ Sound(e)
  BY DEF ListInv, Good
<1>2. /\ e.dcycs = dcycs /\ e.type = type /\ e.stop = g_fcycles_stop
  BY DEF Now
<1>3. \A t \in DOMAIN DueOf(e) : DueOf(e)[t] \in Int
  BY <1>0, <1>1, DueTypes
<1>4. CASE Enter
  <2> DEFINE f == [Now EXCEPT !.stop = dcycs[First(Now)]]
  <2>1. ~running /\ running' /\ Becomes(f) /\ running' = TRUE
    BY <1>4 DEF Enter
  <2>2. f = [e EXCEPT !.stop = e.dcycs[First(e)]]
    BY <1>2
  <2>3. Good(e, FALSE)
    BY <1>1, <2>1
  <2> HIDE DEF e, f
  <2>4. Good(f, TRUE) /\ SameTimers(e, f) /\ f \in ListRecord
    BY <2>2, <2>3, EnterIs
  <2>5. Now' = f
    BY <2>1, <2>4, BecomesIs
  <2>6. DueOf(f) = DueOf(e)
    BY <2>4, DueEqual
  <2> QED BY <2>1, <2>4, <2>5, <2>6 DEF ListInv, e
<1>5. CASE Leave
  <2> DEFINE f == [Now EXCEPT !.cur = 0]
  <2>1. running /\ Becomes(f) /\ running' = FALSE
    BY <1>5 DEF Leave
  <2>2. f = [e EXCEPT !.cur = 0]
    OBVIOUS
  <2>3. Good(e, TRUE)
    BY <1>1, <2>1
  <2> HIDE DEF e, f
  <2>4. Good(f, FALSE) /\ SameTimers(e, f) /\ f \in ListRecord
    BY <2>2, <2>3, LeaveIs
  <2>5. Now' = f
    BY <2>1, <2>4, BecomesIs
  <2>6. DueOf(f) = DueOf(e)
    BY <2>4, DueEqual
  <2> QED BY <2>1, <2>4, <2>5, <2>6 DEF ListInv, e
<1>6. CASE Instr
  <2>1. PICK k \in 1..MaxInstr : \E f \in Uses(Aged(k), Aged(k).vbl) : Becomes(f) \/ Becomes(set_halt(f))
    BY <1>6 DEF Instr
  <2>2. running /\ g_fcycles_stop >= 0 /\ running' = running
    BY <1>6 DEF Instr
  <2>3. Aged(k) = Older(e, k)
    BY DEF Aged, Older, Now
  <2>4. PICK f \in Uses(Older(e, k), Older(e, k).vbl) : Becomes(f) \/ Becomes(set_halt(f))
    BY <2>1, <2>3
  <2>5. PICK g : (g = f \/ g = set_halt(f)) /\ Becomes(g)
    BY <2>4
  <2>6. Good(e, TRUE) /\ e.stop >= 0
    BY <1>1, <1>2, <2>2
  <2> HIDE DEF e
  <2>7. Ran(e, g, k)
    BY <2>4, <2>5, <2>6, InstrIs
  <2>8. Now' = g
    BY <2>5, <2>7, BecomesIs DEF Ran
  <2>9. Promise!Pass(DueOf(e), DueOf(g))
    BY <2>7 DEF Promise!Pass, Promise!Keeps, Ran
  <2> QED BY <1>1, <2>2, <2>7, <2>8, <2>9 DEF ListInv, e, Ran
<1>7. CASE Pop
  <2> DEFINE ty == type[First(Now)]
             later == IF ty = EV_60HZ THEN 0 ELSE 1
             low == dcycs[First(Now)] + later
             f == Handled(Now, ty)
  <2>1. ~running /\ dcycs[First(Now)] <= 0 /\ running' = running
    BY <1>7 DEF Pop
  <2>2. PICK g \in Uses(f, low) : \E h \in Uses(g, low) : Becomes(h)
    BY <1>7 DEF Pop, Handled
  <2>3. PICK h \in Uses(g, low) : Becomes(h)
    BY <2>2
  <2>4. low \in Int
    <3>1. e \in ListRecord /\ First(e) \in Node
      BY <1>0, <1>1, Front DEF Good, Sound
    <3>2. dcycs[First(Now)] \in Int
      BY <1>2, <3>1, RecordIs
    <3>3. later \in Int
      OBVIOUS
    <3> HIDE DEF later
    <3> QED BY <3>2, <3>3
  <2>5. /\ Good(e, FALSE) /\ e.dcycs[First(e)] <= 0 /\ ty = e.type[First(e)]
        /\ f = Handled(e, ty)
    BY <1>1, <1>2, <2>1
  <2> HIDE DEF e, ty, low, f
  <2>6. WentOff(e, h, ty)
    BY <2>3, <2>4, <2>5, PopIs
  <2>7. Now' = h
    BY <2>3, <2>6, BecomesIs DEF WentOff
  <2>8. Promise!Keeps(DueOf(e), DueOf(h), DOMAIN DueOf(e) \ (Removable \cup {ty}), 0)
    BY <1>3, <2>6 DEF Promise!Keeps, WentOff
  <2>9. Promise!Expire(DueOf(e), DueOf(h))
    BY <2>6, <2>8 DEF Promise!Expire, WentOff
  <2> QED BY <1>1, <2>1, <2>6, <2>7, <2>9 DEF ListInv, e, WentOff
<1> QED BY <1>4, <1>5, <1>6, <1>7 DEF ListNext

\* What the list is of the invariant.
LEMMA ListIs ==
  ASSUME ListInv
  PROVE  ListIsSound
<1> DEFINE N == MAX_EVENTS
<1>0. N \in Nat
  BY EventListAssumption
<1>1. PICK k, l, p, q : Lists(Now, k, l, p, q)
  BY SoundIs DEF ListInv, Good
<1>2. Hop(Now, g_event_start) = p /\ Hop(Now, g_event_free) = q
  BY <1>0, <1>1, WalkIsHop DEF Lists
<1>3. Path(Now, g_event_start, k, p) /\ Path(Now, g_event_free, l, q)
  BY <1>1 DEF Lists
<1>4. k \in 0..N /\ l \in 0..N /\ k + l = N
  BY <1>1 DEF Lists, Path
<1> DEFINE nodes(hop) == {n \in 1..N : hop[n] # Null}
<1>5. nodes(p) = 1..k /\ nodes(q) = 1..l
  <2>1. \A i \in 1..k : p[i] # Null
    BY <1>3 DEF Path, Node, Null
  <2>2. \A i \in 1..l : q[i] # Null
    BY <1>3 DEF Path, Node, Null
  <2>3. \A i \in 1..N : (i \notin 1..k => p[i] = Null) /\ (i \notin 1..l => q[i] = Null)
    <3>1. \A i \in 1..N : (i \notin 1..k => i \in k + 1..N + 1) /\ (i \notin 1..l => i \in l + 1..N + 1)
      BY <1>0, <1>4
    <3> QED BY <1>3, <3>1 DEF Path
  <2>4. nodes(p) = 1..k
    BY <1>0, <1>4, <2>1, <2>3
  <2>5. nodes(q) = 1..l
    BY <1>0, <1>4, <2>2, <2>3
  <2> QED BY <2>4, <2>5
<1>6. Cardinality(1..k) = k /\ Cardinality(1..l) = l
  <2>1. /\ Cardinality(1..k) = IF 1 > k THEN 0 ELSE k - 1 + 1
        /\ Cardinality(1..l) = IF 1 > l THEN 0 ELSE l - 1 + 1
    BY <1>4, FS_Interval
  <2> QED BY <1>4, <2>1
<1>7. p[N + 1] = Null /\ q[N + 1] = Null
  <2>1. N + 1 \in k + 1..N + 1 /\ N + 1 \in l + 1..N + 1
    BY <1>0, <1>4
  <2> QED BY <1>3, <2>1 DEF Path
<1>8. {p[n] : n \in 1..k} \cup {q[n] : n \in 1..l} = Node
  <2>1. \A i \in 1..k : p[i] \in Node
    BY <1>3 DEF Path
  <2>2. \A i \in 1..l : q[i] \in Node
    BY <1>3 DEF Path
  <2>3. \A n \in Node : (\E i \in 1..k : p[i] = n) \/ (\E j \in 1..l : q[j] = n)
    BY <1>1 DEF Lists
  <2> QED BY <2>1, <2>2, <2>3
<1>9. NoNodeLost
  <2>1. /\ p[N + 1] = Null /\ q[N + 1] = Null
        /\ Cardinality(nodes(p)) + Cardinality(nodes(q)) = N
        /\ {p[n] : n \in nodes(p)} \cup {q[n] : n \in nodes(q)} = Node
    <3> HIDE DEF nodes
    <3> QED BY <1>4, <1>5, <1>6, <1>7, <1>8
  <2> QED BY <1>2, <2>1 DEF NoNodeLost
<1>10. InOrder
  <2>1. ASSUME NEW i \in 1..N, NEW j \in 1..N, i < j, p[j] # Null
        PROVE  dcycs[p[i]] <= dcycs[p[j]] /\ type[p[i]] # type[p[j]]
    <3>1. j \in nodes(p)
      BY <2>1
    <3> HIDE DEF nodes
    <3>2. i \in 1..k /\ j \in 1..k /\ i # j
      BY <1>0, <1>4, <1>5, <2>1, <3>1
    <3>3. Now.dcycs = dcycs /\ Now.type = type
      BY DEF Now
    <3> QED BY <1>1, <2>1, <3>2, <3>3 DEF Lists
  <2> QED BY <1>2, <2>1 DEF InOrder
<1>11. halted = {}
  <2>1. Now \in ListRecord
    BY DEF ListInv, Good, Sound
  <2>2. Now.halted = {}
    BY <2>1, RecordIs
  <2> QED BY <2>2 DEF Now
<1> QED BY <1>9, <1>10, <1>11 DEF ListIsSound

-----------------------------------------------------------------------------
(* The theorems.                                                           *)

LEMMA ListInvariant == TimeSpec => []ListInv
<1>1. TimeInit => ListInv
  BY ListStarts DEF TimeInit
<1>2. ListInv /\ [TimeNext]_all => ListInv'
  <2>1. SUFFICES ASSUME ListInv, [TimeNext]_all PROVE ListInv'
    OBVIOUS
  <2>2. CASE AtList(ListNext)
    BY <2>1, <2>2, ListStep DEF AtList
  <2>3. CASE UNCHANGED listVars
    BY <2>1, <2>3 DEF listVars, ListInv, Now
  <2> QED BY <2>1, <2>2, <2>3 DEF TimeNext, AtVgc, AtScreen, all
<1> QED BY <1>1, <1>2, PTL DEF TimeSpec

(* sim65816.c's event list is never damaged and never runs full, and is in the
   order of the events' times, one of each type: whatever devices do with an
   event each of as many types as there are nodes, and although they ask for
   times back to the last VBL, which the clamps of add_event_doc and
   add_event_scc keep from add_event_entry's halt_printf. *)
THEOREM TimeListSound == TimeSpec => []ListIsSound
<1>1. ListInv => ListIsSound
  BY ListIs
<1> QED BY <1>1, ListInvariant, PTL

(* The pointer routines and the loop of run_prog implement Timers: events go off
   in the order of their times, none is lost, none is overdue when an instruction
   starts, and the 60 Hz clock does not drift. *)
THEOREM TimeOrder == TimeSpec => TimersInOrder
<1> DEFINE due == IF focus = "list" THEN DueOf(Now) ELSE [t \in {EV_60HZ} |-> Period]
<1>1. TimeInit => Promise!Init
  <2>1. SUFFICES ASSUME TimeInit PROVE DOMAIN due = {EV_60HZ} /\ due[EV_60HZ] = Period
    BY DEF Promise!Init
  <2>2. CASE focus = "list"
    BY <2>1, <2>2, ListStarts DEF TimeInit
  <2>3. CASE focus # "list"
    BY <2>3
  <2> QED BY <2>2, <2>3
<1>2. ListInv /\ [TimeNext]_all => [Promise!Next]_due
  <2>1. SUFFICES ASSUME ListInv, [TimeNext]_all PROVE Promise!Next \/ due' = due
    OBVIOUS
  <2>2. CASE AtList(ListNext)
    <3>1. due = DueOf(Now) /\ due' = DueOf(Now')
      BY <2>2 DEF AtList
    <3>2. \/ Promise!Pass(DueOf(Now), DueOf(Now'))
          \/ Promise!Expire(DueOf(Now), DueOf(Now'))
          \/ DueOf(Now') = DueOf(Now)
      BY <2>1, <2>2, ListStep DEF AtList
    <3> QED BY <3>1, <3>2 DEF Promise!Next
  <2>3. CASE UNCHANGED <<listVars, focus>>
    <3>1. Now' = Now /\ focus' = focus
      BY <2>3 DEF listVars, Now
    <3> QED BY <3>1
  <2> QED BY <2>1, <2>2, <2>3 DEF TimeNext, AtVgc, AtScreen, all
<1> QED BY <1>1, <1>2, ListInvariant, PTL DEF TimeSpec, TimersInOrder, Promise!Spec

-----------------------------------------------------------------------------
(* The safety properties of Vgc, proved for every screen and every length  *)
(* of the timers.  Their conjunction is inductive: the event handlers need *)
(* all of it, so it is proved at once, routine by routine, as a predicate  *)
(* Agreed on the record of the state.                                      *)

One(s) ==
  \/ /\ ~s.scan_int_events
     /\ \A m \in Line : s.scan_ev[m] = 0
  \/ /\ s.scan_int_events
     /\ \E l \in Line : \A m \in Line : s.scan_ev[m] = IF m = l THEN 1 ELSE 0

Acked(s) == s.scan_int_events => "scan" \notin s.c023

VblAhead(s) == s.vbl_ev \in 0..1 /\ (s.vbl_ev = 1 => s.beam <= VBL_LINE)

ScanAhead(s) == \A l \in Line : s.scan_ev[l] > 0 => s.beam <= l

Irq23(s) ==
  /\ \A src \in {"scan", "sec"} :
       src \in s.irq <=> {src, Enable[src]} \subseteq s.c023
  /\ Summary(s.irq) \subseteq s.c023
  /\ "vgc" \in s.c023 => "scan" \in s.c023 \/ "sec" \in s.irq

Irq46(s) ==
  \A src \in C046 : src \in s.irq => src \in s.c046 /\ Enable[src] \in s.c041

Agreed(s) ==
  /\ s \in State
  /\ One(s) /\ Acked(s) /\ VblAhead(s) /\ ScanAhead(s)
  /\ Irq23(s) /\ Irq46(s)

AllAgree ==
  /\ TypeOK
  /\ OneScanEvent
  /\ NoScanOverrun
  /\ EventsAhead
  /\ C023Irq
  /\ C046Irq

\* The properties of Vgc are those predicates of its state.
LEMMA InvIsGood == AllAgree <=> Agreed(vgc)
  BY DEF AllAgree, Agreed, TypeOK, OneScanEvent, NoScanOverrun, EventsAhead, C023Irq,
         C046Irq, One, Acked, VblAhead, ScanAhead, Irq23, Irq46

LEMMA EnableBits ==
  /\ Enable["scan"] = "scan_en" /\ Enable["sec"] = "sec_en"
  /\ Enable["vbl"] = "vbl_en" /\ Enable["quarter"] = "quarter_en"
  BY DEF Enable, IrqBit

\* Nothing is up, enabled or waiting at the start.
LEMMA InitGood == Init => Agreed(vgc)
<1> SUFFICES ASSUME Init PROVE Agreed(vgc)
  OBVIOUS
<1>1. vgc \in State
  BY VgcAssumption DEF Init, State, C023, C041, C046, IrqBit, Line
<1>2. One(vgc) /\ Acked(vgc) /\ VblAhead(vgc) /\ ScanAhead(vgc)
  BY VgcAssumption DEF Init, One, Acked, VblAhead, ScanAhead, Line
<1>3. Irq23(vgc) /\ Irq46(vgc)
  BY DEF Init, Irq23, Irq46, Summary
<1> QED
  BY <1>1, <1>2, <1>3 DEF Agreed

\* A search that starts at the beam or later, while no event waits, keeps all.
LEMMA SearchGood ==
  ASSUME NEW s, Agreed(s), ~s.scan_int_events, NEW start \in Nat, s.beam <= start,
         NEW t \in check_scan_line_int(s, start)
  PROVE  Agreed(t)
<1>1. CASE t = s
  BY <1>1
<1>2. CASE t # s
  <2>1. PICK l \in Line :
          /\ l >= start /\ "scan" \notin s.c023
          /\ t = [s EXCEPT !.scan_ev[l] = @ + 1, !.scan_int_events = TRUE]
    BY <1>2 DEF check_scan_line_int, Agreed, State
  <2>2. \A m \in Line : s.scan_ev[m] = 0
    BY DEF Agreed, One
  <2>3. s \in State
    BY DEF Agreed
  <2>4. t \in State
    <3>1. s.scan_ev \in [Line -> Nat] /\ s.scan_ev[l] + 1 \in Nat
      BY <2>3 DEF State
    <3>2. [s.scan_ev EXCEPT ![l] = @ + 1] \in [Line -> Nat]
      BY <3>1
    <3>3. t = [s EXCEPT !.scan_ev = [s.scan_ev EXCEPT ![l] = @ + 1],
                        !.scan_int_events = TRUE]
      BY <2>1, <2>3 DEF State
    <3> QED
      BY <2>3, <3>2, <3>3 DEF State
  <2>5. \A m \in Line : t.scan_ev[m] = IF m = l THEN 1 ELSE 0
    BY <2>1, <2>2, <2>3 DEF State
  <2>6. /\ t.scan_int_events = TRUE /\ t.c023 = s.c023 /\ t.irq = s.irq
        /\ t.c041 = s.c041 /\ t.c046 = s.c046 /\ t.beam = s.beam
        /\ t.vbl_ev = s.vbl_ev
    BY <2>1, <2>3 DEF State
  <2>7. One(t) /\ Acked(t)
    BY <2>1, <2>5, <2>6 DEF One, Acked
  <2>8. ScanAhead(t)
    BY <2>1, <2>3, <2>5, <2>6, VgcAssumption DEF ScanAhead, State, Line
  <2>9. VblAhead(t) /\ Irq23(t) /\ Irq46(t)
    BY <2>6 DEF Agreed, VblAhead, Irq23, Irq46
  <2> QED
    BY <2>4, <2>7, <2>8, <2>9 DEF Agreed
<1> QED
  BY <1>1, <1>2

\* The scan line event: after it no event waits, unless the next line is
\* looked for and found.
LEMMA ScanGood ==
  ASSUME NEW s, Agreed(s), NEW l \in Line, s.scan_ev[l] > 0, s.beam >= l,
         NEW t \in do_scan_int(s, l)
  PROVE  Agreed(t)
<1> DEFINE u == [s EXCEPT !.scan_ev = [s.scan_ev EXCEPT ![l] = @ - 1],
                          !.scan_int_events = FALSE]
<1>1. s \in State /\ s.scan_ev \in [Line -> Nat] /\ s.beam \in 0..FRAME
  BY DEF Agreed, State
<1>2. /\ s.scan_int_events
      /\ \A m \in Line : s.scan_ev[m] = IF m = l THEN 1 ELSE 0
  BY <1>1 DEF Agreed, One
<1>3. [s.scan_ev EXCEPT ![l] = @ - 1] \in [Line -> Nat]
  BY <1>1, <1>2
<1>4. u \in State
  BY <1>1, <1>3 DEF State
<1>5. u = [s EXCEPT !.scan_ev[l] = @ - 1, !.scan_int_events = FALSE]
  BY <1>1 DEF State
<1>6. \A m \in Line : u.scan_ev[m] = 0
  BY <1>1, <1>2 DEF State
<1>7. /\ u.scan_int_events = FALSE /\ u.c023 = s.c023 /\ u.irq = s.irq
      /\ u.c041 = s.c041 /\ u.c046 = s.c046 /\ u.beam = s.beam
      /\ u.vbl_ev = s.vbl_ev
  BY <1>1 DEF State
<1>8. Agreed(u)
  BY <1>4, <1>6, <1>7 DEF Agreed, One, Acked, VblAhead, ScanAhead, Irq23, Irq46
<1>9. s.beam = l
  BY <1>1, VgcAssumption DEF Agreed, ScanAhead, Line
<1>10. t \in HandleScan(u, l)
  BY <1>5 DEF do_scan_int
<1> HIDE DEF u
<1>11. CASE l \in u.scb /\ u.super_hires
  <2>1. t = [u EXCEPT !.c023 = @ \cup {"scan", "vgc"},
                      !.irq = IF "scan_en" \in u.c023 THEN add_irq(@, {"scan"}) ELSE @]
    BY <1>10, <1>11 DEF HandleScan
  <2>2. u.c023 \subseteq C023 /\ u.irq \subseteq IrqBit
    BY <1>4 DEF State
  <2>3. t.c023 = u.c023 \cup {"scan", "vgc"}
    BY <1>4, <2>1 DEF State
  <2>4. t.irq = IF "scan_en" \in u.c023 THEN u.irq \cup {"scan"} ELSE u.irq
    BY <1>4, <2>1 DEF State, add_irq
  <2>5. t \in State
    <3>1. t.c023 \subseteq C023 /\ t.irq \subseteq IrqBit
      BY <2>2, <2>3, <2>4 DEF C023, IrqBit
    <3> QED
      BY <1>4, <2>1, <3>1 DEF State
  <2>6. /\ t.scan_int_events = FALSE /\ t.scan_ev = u.scan_ev /\ t.vbl_ev = u.vbl_ev
        /\ t.beam = u.beam /\ t.c041 = u.c041 /\ t.c046 = u.c046
    BY <1>4, <1>7, <2>1 DEF State
  <2>7. One(t) /\ Acked(t) /\ VblAhead(t) /\ ScanAhead(t)
    BY <1>6, <1>8, <2>6 DEF Agreed, One, Acked, VblAhead, ScanAhead
  <2>8. Irq23(t)
    BY <1>8, <2>3, <2>4, EnableBits DEF Agreed, Irq23, Summary
  <2>9. Irq46(t)
    BY <1>8, <2>4, <2>6 DEF Agreed, Irq46, C046
  <2> QED
    BY <2>5, <2>7, <2>8, <2>9 DEF Agreed
<1>12. CASE ~(l \in u.scb /\ u.super_hires)
  <2>1. t \in check_scan_line_int(u, l + 1)
    BY <1>10, <1>12 DEF HandleScan
  <2>2. l + 1 \in Nat /\ u.beam <= l + 1
    BY <1>7, <1>9, VgcAssumption DEF Line
  <2> QED
    BY <1>7, <1>8, <2>1, <2>2, SearchGood
<1> QED
  BY <1>11, <1>12

\* The vertical blank event.
LEMMA VblGood ==
  ASSUME NEW s, Agreed(s), s.vbl_ev > 0
  PROVE  Agreed(do_vbl_int(s))
<1> DEFINE t == do_vbl_int(s)
<1>1. s \in State /\ s.vbl_ev = 1
  BY DEF Agreed, VblAhead, State
<1>2. /\ t.scan_int_events = s.scan_int_events /\ t.scan_ev = s.scan_ev
      /\ t.beam = s.beam /\ t.c041 = s.c041 /\ t.c023 = s.c023 /\ t.vbl_ev = 0
  BY <1>1 DEF do_vbl_int, State
<1>3. /\ t.irq = IF "vbl_en" \in s.c041 THEN s.irq \cup {"vbl"} ELSE s.irq
      /\ t.c046 = IF "vbl_en" \in s.c041 THEN s.c046 \cup {"vbl"} ELSE s.c046
  BY <1>1 DEF do_vbl_int, State, add_irq
<1>4. t \in State
  <2>1. "vbl" \in C046 /\ "vbl" \in IrqBit
    BY DEF C046, IrqBit
  <2>3. s.vbl_ev - 1 \in Nat
    BY <1>1
  <2>4. [s EXCEPT !.vbl_ev = @ - 1] \in State
    BY <1>1, <2>3 DEF State
  <2>5. CASE "vbl_en" \in s.c041
    <3>1. t = [[s EXCEPT !.vbl_ev = @ - 1] EXCEPT !.c046 = s.c046 \cup {"vbl"},
                                                  !.irq = add_irq(s.irq, {"vbl"})]
      BY <1>1, <2>5 DEF do_vbl_int, State
    <3>2. add_irq(s.irq, {"vbl"}) \subseteq IrqBit /\ s.c046 \cup {"vbl"} \subseteq C046
      BY <1>1, <2>1 DEF add_irq, State
    <3> QED
      BY <2>4, <3>1, <3>2 DEF State
  <2>6. CASE "vbl_en" \notin s.c041
    BY <2>4, <2>6 DEF do_vbl_int
  <2> QED
    BY <2>5, <2>6
<1>5. One(t) /\ Acked(t) /\ VblAhead(t) /\ ScanAhead(t)
  BY <1>2 DEF Agreed, One, Acked, VblAhead, ScanAhead
<1>6. Irq23(t)
  BY <1>2, <1>3 DEF Agreed, Irq23, Summary
<1>7. Irq46(t)
  BY <1>2, <1>3, EnableBits DEF Agreed, Irq46, C046
<1> QED
  BY <1>4, <1>5, <1>6, <1>7 DEF Agreed

\* The two counters of the 60 Hz event.
LEMMA QuarterGood ==
  ASSUME NEW s, Agreed(s)
  PROVE  /\ Agreed(QuarterTick(s))
         /\ QuarterTick(s).scan_int_events = s.scan_int_events
         /\ QuarterTick(s).beam = s.beam
<1> DEFINE t == QuarterTick(s)
<1>1. s \in State /\ (s.quarters + 1) % QUARTER \in 0..QUARTER - 1
  BY VgcAssumption DEF Agreed, State
<1>2. /\ t.scan_int_events = s.scan_int_events /\ t.scan_ev = s.scan_ev
      /\ t.beam = s.beam /\ t.c041 = s.c041 /\ t.c023 = s.c023
      /\ t.vbl_ev = s.vbl_ev
  BY <1>1 DEF QuarterTick, State
<1>3. \/ t.irq = s.irq /\ t.c046 = s.c046
      \/ /\ "quarter_en" \in s.c041
         /\ t.irq = s.irq \cup {"quarter"} /\ t.c046 = s.c046 \cup {"quarter"}
  BY <1>1 DEF QuarterTick, State, add_irq
<1>4. t \in State
  <2>1. "quarter" \in C046 /\ "quarter" \in IrqBit
    BY DEF C046, IrqBit
  <2>2. t.irq \subseteq IrqBit /\ t.c046 \subseteq C046
    BY <1>1, <1>3, <2>1 DEF State
  <2>3. /\ t = [s EXCEPT !.quarters = t.quarters, !.c046 = t.c046, !.irq = t.irq]
        /\ t.quarters \in 0..QUARTER - 1
    BY <1>1 DEF QuarterTick, State
  <2> HIDE DEF t
  <2> QED
    BY <1>1, <1>2, <2>2, <2>3 DEF State
<1>5. One(t) /\ Acked(t) /\ VblAhead(t) /\ ScanAhead(t)
  BY <1>2 DEF Agreed, One, Acked, VblAhead, ScanAhead
<1>6. Irq23(t)
  BY <1>2, <1>3 DEF Agreed, Irq23, Summary
<1>7. Irq46(t)
  BY <1>2, <1>3, EnableBits DEF Agreed, Irq46, C046
<1> QED
  BY <1>2, <1>4, <1>5, <1>6, <1>7 DEF Agreed

LEMMA SecondGood ==
  ASSUME NEW s, Agreed(s)
  PROVE  /\ Agreed(SecondTick(s))
         /\ SecondTick(s).scan_int_events = s.scan_int_events
         /\ SecondTick(s).beam = s.beam
<1> DEFINE t == SecondTick(s)
<1>1. s \in State /\ (s.seconds + 1) % SECOND \in 0..SECOND - 1
  BY VgcAssumption DEF Agreed, State
<1>2. /\ t.scan_int_events = s.scan_int_events /\ t.scan_ev = s.scan_ev
      /\ t.beam = s.beam /\ t.c041 = s.c041 /\ t.c046 = s.c046
      /\ t.vbl_ev = s.vbl_ev
  BY <1>1 DEF SecondTick, State
<1>3. \/ t.irq = s.irq /\ t.c023 = s.c023
      \/ /\ "sec_en" \in s.c023
         /\ t.irq = s.irq \cup {"sec"} /\ t.c023 = s.c023 \cup {"sec", "vgc"}
      \/ /\ "sec_en" \notin s.c023
         /\ t.irq = s.irq /\ t.c023 = s.c023 \cup {"sec"}
  BY <1>1 DEF SecondTick, State, add_irq
<1>4. t \in State
  <2>1. {"sec", "vgc"} \subseteq C023 /\ "sec" \in IrqBit
    BY DEF C023, IrqBit
  <2>2. t.irq \subseteq IrqBit /\ t.c023 \subseteq C023
    BY <1>1, <1>3, <2>1 DEF State
  <2>3. /\ t = [s EXCEPT !.seconds = t.seconds, !.c023 = t.c023, !.irq = t.irq]
        /\ t.seconds \in 0..SECOND - 1
    BY <1>1 DEF SecondTick, State
  <2> HIDE DEF t
  <2> QED
    BY <1>1, <1>2, <2>2, <2>3 DEF State
<1>5. One(t) /\ Acked(t) /\ VblAhead(t) /\ ScanAhead(t)
  BY <1>2, <1>3 DEF Agreed, One, Acked, VblAhead, ScanAhead
<1>6. Irq23(t)
  BY <1>3, EnableBits DEF Agreed, Irq23, Summary
<1>7. Irq46(t)
  BY <1>2, <1>3 DEF Agreed, Irq46, C046
<1> QED
  BY <1>2, <1>4, <1>5, <1>6, <1>7 DEF Agreed

\* The 60 Hz event finds the list empty of the events of the old frame.
Frame(s) == SecondTick(QuarterTick(add_event_vbl([s EXCEPT !.beam = 0])))

LEMMA FrameStart ==
  ASSUME NEW s, Agreed(s), s.beam = FRAME,
         ~(s.vbl_ev > 0 /\ s.beam >= VBL_LINE)
  PROVE  Agreed(Frame(s)) /\ ~Frame(s).scan_int_events /\ Frame(s).beam = 0
<1> DEFINE u == [s EXCEPT !.beam = 0]
           v == add_event_vbl(u)
<1>1. s \in State /\ s.vbl_ev = 0
  BY VgcAssumption DEF Agreed, VblAhead, State
<1>2. u \in State
  BY <1>1, VgcAssumption DEF State
<1>3. ~s.scan_int_events
  BY <1>1, VgcAssumption DEF Agreed, One, ScanAhead, Line
<1>4. /\ u.scan_int_events = s.scan_int_events /\ u.scan_ev = s.scan_ev
      /\ u.beam = 0 /\ u.vbl_ev = 0 /\ u.c023 = s.c023 /\ u.irq = s.irq
      /\ u.c041 = s.c041 /\ u.c046 = s.c046
  BY <1>1 DEF State
<1>5. Agreed(u)
  BY <1>2, <1>3, <1>4, VgcAssumption
  DEF Agreed, One, Acked, VblAhead, ScanAhead, Irq23, Irq46, Line
<1> HIDE DEF u
<1>6. Agreed(v) /\ v.scan_int_events = u.scan_int_events /\ v.beam = 0
  <2>1. CASE "vbl_en" \in u.c041
    <3>1. v = [u EXCEPT !.vbl_ev = 1]
      BY <1>2, <1>4, <2>1 DEF add_event_vbl, State
    <3>2. v \in State
      BY <1>2, <3>1 DEF State
    <3>3. /\ v.scan_int_events = u.scan_int_events /\ v.scan_ev = u.scan_ev
          /\ v.beam = 0 /\ v.vbl_ev = 1 /\ v.c023 = u.c023 /\ v.irq = u.irq
          /\ v.c041 = u.c041 /\ v.c046 = u.c046
      BY <1>2, <1>4, <3>1 DEF State
    <3> HIDE DEF v
    <3> QED
      BY <1>4, <1>5, <3>2, <3>3, VgcAssumption
      DEF Agreed, One, Acked, VblAhead, ScanAhead, Irq23, Irq46, Line
  <2>2. CASE "vbl_en" \notin u.c041
    BY <1>4, <1>5, <2>2 DEF add_event_vbl
  <2> QED
    BY <2>1, <2>2
<1> HIDE DEF v
<1>7. /\ Agreed(SecondTick(QuarterTick(v)))
      /\ SecondTick(QuarterTick(v)).scan_int_events = s.scan_int_events
      /\ SecondTick(QuarterTick(v)).beam = 0
  BY <1>4, <1>6, QuarterGood, SecondGood
<1> QED
  BY <1>3, <1>7 DEF Frame, u, v

LEMMA FrameGood ==
  ASSUME NEW s, Agreed(s), s.beam = FRAME,
         ~(s.vbl_ev > 0 /\ s.beam >= VBL_LINE),
         NEW t \in update_60hz(s)
  PROVE  Agreed(t)
<1>1. t \in check_scan_line_int(Frame(s), 0)
  BY FrameStart DEF update_60hz, Frame
<1> QED
  BY <1>1, FrameStart, SearchGood

\* Writing c023.
LEMMA C023Good ==
  ASSUME NEW s, Agreed(s), NEW en \in SUBSET {"scan_en", "sec_en"}
  PROVE  Agreed(WriteC023(s, en))
<1> DEFINE t == WriteC023(s, en)
           up == {src \in {"scan", "sec"} \cap s.c023 : Enable[src] \in en}
           off == {src \in {"scan", "sec"} : Enable[src] \notin en}
           irq == remove_irq(add_irq(add_irq(s.irq, up \cap {"scan"}), up \cap {"sec"}), off)
<1>1. s \in State
  BY DEF Agreed
<1>2. t = [s EXCEPT !.c023 = (s.c023 \cap {"scan", "sec"}) \cup en \cup Summary(irq),
                    !.irq = irq]
  BY <1>1 DEF WriteC023, State
<1>3. /\ "scan" \in irq <=> "scan" \in s.c023 /\ "scan_en" \in en
      /\ "sec" \in irq <=> "sec" \in s.c023 /\ "sec_en" \in en
  <2>1. /\ "scan" \in up <=> "scan" \in s.c023 /\ "scan_en" \in en
        /\ "sec" \in up <=> "sec" \in s.c023 /\ "sec_en" \in en
        /\ "scan" \in off <=> "scan_en" \notin en
        /\ "sec" \in off <=> "sec_en" \notin en
    BY EnableBits
  <2>2. \A src \in {"scan", "sec"} : src \in s.irq => src \in s.c023
    BY DEF Agreed, Irq23
  <2> HIDE DEF up, off
  <2> QED
    BY <2>1, <2>2 DEF add_irq, remove_irq
<1>4. /\ irq \subseteq s.irq \cup {"scan", "sec"}
      /\ Summary(irq) \subseteq {"vgc"}
      /\ Summary(irq) = {"vgc"} <=> "scan" \in irq \/ "sec" \in irq
  BY DEF add_irq, remove_irq, Summary
<1>5. \A src \in C046 : src \in irq => src \in s.irq
  BY <1>4 DEF C046
<1> HIDE DEF irq
<1>6. /\ t.c023 = (s.c023 \cap {"scan", "sec"}) \cup en \cup Summary(irq)
      /\ t.irq = irq
      /\ t.scan_int_events = s.scan_int_events /\ t.scan_ev = s.scan_ev
      /\ t.beam = s.beam /\ t.vbl_ev = s.vbl_ev /\ t.c041 = s.c041
      /\ t.c046 = s.c046
  BY <1>1, <1>2 DEF State
<1>7. t \in State
  <2>1. irq \subseteq IrqBit
    BY <1>1, <1>4 DEF State, IrqBit
  <2>2. (s.c023 \cap {"scan", "sec"}) \cup en \cup Summary(irq) \subseteq C023
    BY <1>4 DEF C023
  <2> QED
    BY <1>1, <1>2, <2>1, <2>2 DEF State
<1> HIDE DEF t
<1>8. /\ "scan" \in t.c023 <=> "scan" \in s.c023
      /\ "sec" \in t.c023 <=> "sec" \in s.c023
      /\ "scan_en" \in t.c023 <=> "scan_en" \in en
      /\ "sec_en" \in t.c023 <=> "sec_en" \in en
      /\ "vgc" \in t.c023 <=> "scan" \in irq \/ "sec" \in irq
  BY <1>4, <1>6
<1>9. One(t) /\ Acked(t) /\ VblAhead(t) /\ ScanAhead(t)
  BY <1>6, <1>8 DEF Agreed, One, Acked, VblAhead, ScanAhead
<1>10. Irq23(t)
  BY <1>3, <1>4, <1>6, <1>8, EnableBits DEF Irq23
<1>11. Irq46(t)
  BY <1>5, <1>6 DEF Agreed, Irq46
<1> QED
  BY <1>7, <1>9, <1>10, <1>11 DEF Agreed, t

\* Writing c032: the search it may start finds no event in the list, for an
\* interrupt was up.
LEMMA C032Good ==
  ASSUME NEW s, Agreed(s), NEW clear \in SUBSET {"scan", "sec"},
         NEW t \in WriteC032(s, clear)
  PROVE  Agreed(t)
<1> DEFINE ack == clear \cap s.c023
           irq == remove_irq(s.irq, ack)
           reg == (s.c023 \ (IF ack # {} THEN ack \cup {"vgc"} ELSE {}))
                    \cup Summary(irq)
           u == [s EXCEPT !.irq = irq, !.c023 = reg]
<1>1. s \in State
  BY DEF Agreed
<1>2. t \in IF "scan" \in ack THEN check_for_new_scan_int(u) ELSE {u}
  BY <1>1 DEF WriteC032, State
<1>3. /\ irq = s.irq \ ack /\ ack \subseteq {"scan", "sec"}
      /\ Summary(irq) = IF "scan" \in irq \/ "sec" \in irq THEN {"vgc"} ELSE {}
  BY DEF remove_irq, Summary
<1> HIDE DEF irq, ack
<1>4. /\ "scan" \in reg <=> "scan" \in s.c023 \ ack
      /\ "sec" \in reg <=> "sec" \in s.c023 \ ack
      /\ "scan_en" \in reg <=> "scan_en" \in s.c023
      /\ "sec_en" \in reg <=> "sec_en" \in s.c023
      /\ Summary(irq) \subseteq reg
      /\ "vgc" \in reg =>
           \/ "scan" \in irq \/ "sec" \in irq
           \/ ack = {} /\ "vgc" \in s.c023
      /\ reg \subseteq C023
  <2>1. CASE ack = {}
    <3>1. reg = s.c023 \cup Summary(irq)
      BY <2>1
    <3> QED
      BY <1>1, <1>3, <2>1, <3>1 DEF State, C023
  <2>2. CASE ack # {}
    <3>1. reg = (s.c023 \ (ack \cup {"vgc"})) \cup Summary(irq)
      BY <2>2
    <3> HIDE DEF reg
    <3>2. s.c023 \subseteq C023
      BY <1>1 DEF State
    <3>3. reg \subseteq C023
      BY <1>3, <3>1, <3>2 DEF C023
    <3> QED
      BY <1>3, <2>2, <3>1, <3>3
  <2> QED
    BY <2>1, <2>2
<1> HIDE DEF reg
<1>5. /\ u.c023 = reg /\ u.irq = irq
      /\ u.scan_int_events = s.scan_int_events /\ u.scan_ev = s.scan_ev
      /\ u.beam = s.beam /\ u.vbl_ev = s.vbl_ev /\ u.c041 = s.c041
      /\ u.c046 = s.c046
  BY <1>1 DEF State
<1>6. u \in State
  <2>1. irq \subseteq IrqBit
    BY <1>1, <1>3 DEF State
  <2> QED
    BY <1>1, <1>4, <2>1 DEF State
<1> HIDE DEF u
<1>7. One(u) /\ Acked(u) /\ VblAhead(u) /\ ScanAhead(u)
  BY <1>4, <1>5 DEF Agreed, One, Acked, VblAhead, ScanAhead
<1>8. Irq23(u)
  BY <1>3, <1>4, <1>5, EnableBits DEF Agreed, Irq23
<1>9. Irq46(u)
  BY <1>3, <1>5 DEF Agreed, Irq46
<1>10. Agreed(u)
  BY <1>6, <1>7, <1>8, <1>9 DEF Agreed
<1>11. CASE "scan" \in ack
  <2>1. t \in check_scan_line_int(u, u.beam)
    BY <1>2, <1>11 DEF check_for_new_scan_int
  <2>2. ~u.scan_int_events
    BY <1>5, <1>11 DEF Agreed, Acked, ack
  <2>3. u.beam \in Nat /\ u.beam <= u.beam
    BY <1>6, VgcAssumption DEF State
  <2> QED
    BY <1>10, <2>1, <2>2, <2>3, SearchGood
<1>12. CASE "scan" \notin ack
  BY <1>2, <1>10, <1>12
<1> QED
  BY <1>11, <1>12

\* Writing c041.
LEMMA C041Good ==
  ASSUME NEW s, Agreed(s), NEW en \in SUBSET C041
  PROVE  Agreed(WriteC041(s, en))
<1> DEFINE t == WriteC041(s, en)
           off == {src \in C046 : Enable[src] \notin en}
<1>1. s \in State
  BY DEF Agreed
<1>2. t = [s EXCEPT !.c041 = en, !.irq = s.irq \ off]
  BY <1>1 DEF WriteC041, State, remove_irq
<1>3. /\ t.c041 = en /\ t.irq = s.irq \ off
      /\ t.scan_int_events = s.scan_int_events /\ t.scan_ev = s.scan_ev
      /\ t.beam = s.beam /\ t.vbl_ev = s.vbl_ev /\ t.c023 = s.c023
      /\ t.c046 = s.c046
  BY <1>1, <1>2 DEF State
<1>4. t \in State
  BY <1>1, <1>2 DEF State
<1>5. "scan" \notin off /\ "sec" \notin off
  BY DEF C046
<1>6. \A src \in C046 : src \in t.irq => src \in s.irq /\ Enable[src] \in en
  BY <1>3
<1> HIDE DEF t, off
<1>7. One(t) /\ Acked(t) /\ VblAhead(t) /\ ScanAhead(t)
  BY <1>3 DEF Agreed, One, Acked, VblAhead, ScanAhead
<1>8. Irq23(t)
  BY <1>3, <1>5 DEF Agreed, Irq23, Summary
<1>9. Irq46(t)
  BY <1>3, <1>6 DEF Agreed, Irq46
<1> QED
  BY <1>4, <1>7, <1>8, <1>9 DEF Agreed, t

\* An access to c047, and a reset.
LEMMA C047Good ==
  ASSUME NEW s, Agreed(s)
  PROVE  Agreed(ClearC046(s))
<1> DEFINE t == ClearC046(s)
<1>1. s \in State
  BY DEF Agreed
<1>2. /\ t.c046 = {} /\ t.irq = s.irq \ C046
      /\ t.scan_int_events = s.scan_int_events /\ t.scan_ev = s.scan_ev
      /\ t.beam = s.beam /\ t.vbl_ev = s.vbl_ev /\ t.c023 = s.c023
      /\ t.c041 = s.c041
  BY <1>1 DEF ClearC046, remove_irq, State
<1>3. t \in State
  BY <1>1 DEF ClearC046, remove_irq, State
<1> HIDE DEF t
<1>4. One(t) /\ Acked(t) /\ VblAhead(t) /\ ScanAhead(t)
  BY <1>2 DEF Agreed, One, Acked, VblAhead, ScanAhead
<1>5. Irq23(t)
  BY <1>2 DEF Agreed, Irq23, Summary, C046
<1>6. Irq46(t)
  BY <1>2 DEF Irq46
<1> QED
  BY <1>3, <1>4, <1>5, <1>6 DEF Agreed, t

LEMMA ResetGood ==
  ASSUME NEW s, Agreed(s)
  PROVE  Agreed(do_reset(s))
<1> DEFINE t == do_reset(s)
<1>1. s \in State
  BY DEF Agreed
<1>2. /\ t.c023 = {} /\ t.irq = {}
      /\ t.scan_int_events = s.scan_int_events /\ t.scan_ev = s.scan_ev
      /\ t.beam = s.beam /\ t.vbl_ev = s.vbl_ev
  BY <1>1 DEF do_reset, State
<1>3. t \in State
  BY <1>1 DEF do_reset, State
<1> HIDE DEF t
<1>4. One(t) /\ Acked(t) /\ VblAhead(t) /\ ScanAhead(t)
  BY <1>2 DEF Agreed, One, Acked, VblAhead, ScanAhead
<1>5. Irq23(t) /\ Irq46(t)
  BY <1>2 DEF Irq23, Irq46, Summary
<1> QED
  BY <1>3, <1>4, <1>5 DEF Agreed, t

\* The picture: the mode, the control bytes, and the beam while no event that
\* it passes is due.
LEMMA PictureGood ==
  ASSUME NEW s, Agreed(s), NEW t \in State,
         t.scan_int_events = s.scan_int_events, t.scan_ev = s.scan_ev,
         t.vbl_ev = s.vbl_ev, t.c023 = s.c023, t.irq = s.irq,
         t.c041 = s.c041, t.c046 = s.c046,
         VblAhead(t), ScanAhead(t)
  PROVE  Agreed(t)
  BY DEF Agreed, One, Acked, Irq23, Irq46

\* Every step keeps the predicate.
LEMMA NextGood == Agreed(vgc) /\ [Next]_vgc => Agreed(vgc')
<1> SUFFICES ASSUME Agreed(vgc), [Next]_vgc PROVE Agreed(vgc')
  OBVIOUS
<1>1. vgc \in State
  BY DEF Agreed
<1>2. CASE Tick
  <2>1. vgc.beam \in 0..FRAME /\ vgc.beam < FRAME /\ vgc.beam + 1 \in 0..FRAME
    BY <1>1, <1>2, VgcAssumption DEF Tick, State
  <2>2. vgc' \in State /\ vgc'.beam = vgc.beam + 1
    BY <1>1, <1>2, <2>1 DEF Tick, State
  <2>3. /\ vgc'.scan_int_events = vgc.scan_int_events /\ vgc'.scan_ev = vgc.scan_ev
        /\ vgc'.vbl_ev = vgc.vbl_ev /\ vgc'.c023 = vgc.c023
        /\ vgc'.irq = vgc.irq /\ vgc'.c041 = vgc.c041 /\ vgc'.c046 = vgc.c046
    BY <1>1, <1>2 DEF Tick, State
  <2>4. VblAhead(vgc')
    BY <1>2, <2>1, <2>2, <2>3, VgcAssumption DEF Tick, Due, VblDue, Agreed, VblAhead
  <2>5. ScanAhead(vgc')
    BY <1>1, <1>2, <2>1, <2>2, <2>3, VgcAssumption
    DEF Tick, Due, ScanDue, Agreed, ScanAhead, Line, State
  <2> QED
    BY <2>2, <2>3, <2>4, <2>5, PictureGood
<1>3. CASE ScanEvent
  BY <1>3, ScanGood DEF ScanEvent, ScanDue
<1>4. CASE VblEvent
  BY <1>4, VblGood DEF VblEvent, VblDue
<1>5. CASE Event60Hz
  BY <1>5, FrameGood DEF Event60Hz, Due, VblDue
<1>6. CASE Cpu
  <2>1. CASE C023Write
    BY <2>1, C023Good DEF C023Write
  <2>2. CASE C032Write
    BY <2>2, C032Good DEF C032Write
  <2>3. CASE C041Write
    BY <2>3, C041Good DEF C041Write
  <2>4. CASE C047Access
    BY <2>4, C047Good DEF C047Access
  <2>5. CASE C029Write \/ ScbWrite
    <3>1. /\ vgc'.scan_int_events = vgc.scan_int_events
          /\ vgc'.scan_ev = vgc.scan_ev /\ vgc'.vbl_ev = vgc.vbl_ev
          /\ vgc'.c023 = vgc.c023 /\ vgc'.irq = vgc.irq /\ vgc'.beam = vgc.beam
          /\ vgc'.c041 = vgc.c041 /\ vgc'.c046 = vgc.c046
      BY <1>1, <2>5 DEF C029Write, ScbWrite, State
    <3>2. vgc' \in State
      BY <1>1, <2>5 DEF C029Write, ScbWrite, State
    <3>3. VblAhead(vgc') /\ ScanAhead(vgc')
      BY <3>1 DEF Agreed, VblAhead, ScanAhead
    <3> QED
      BY <3>1, <3>2, <3>3, PictureGood
  <2>6. CASE Reset
    BY <2>6, ResetGood DEF Reset
  <2> QED
    BY <1>6, <2>1, <2>2, <2>3, <2>4, <2>5, <2>6 DEF Cpu
<1>7. CASE UNCHANGED vgc
  BY <1>7
<1> QED
  BY <1>2, <1>3, <1>4, <1>5, <1>6, <1>7 DEF Next

LEMMA VgcInv == Spec => []AllAgree
<1>1. Init => AllAgree
  BY InitGood, InvIsGood
<1>2. AllAgree /\ [Next]_vgc => AllAgree'
  <2>1. AllAgree' <=> Agreed(vgc')
    BY DEF AllAgree, Agreed, TypeOK, OneScanEvent, NoScanOverrun, EventsAhead, C023Irq,
           C046Irq, One, Acked, VblAhead, ScanAhead, Irq23, Irq46
  <2> QED
    BY <2>1, NextGood, InvIsGood
<1> QED
  BY <1>1, <1>2, PTL DEF Spec

\* The state of the video and timer interrupts always has its type.
THEOREM VgcTypeOK == Spec => []TypeOK
<1>1. AllAgree => TypeOK
  BY DEF AllAgree
<1> QED
  BY <1>1, VgcInv, PTL

\* g_scan_int_events is set exactly while one scan line event waits in the
\* list, and never while two do, on a screen of any size.
THEOREM VgcOneScanEvent == Spec => []OneScanEvent
<1>1. AllAgree => OneScanEvent
  BY DEF AllAgree
<1> QED
  BY <1>1, VgcInv, PTL

\* No scan line event comes while the interrupt of the one before is up.
THEOREM VgcNoScanOverrun == Spec => []NoScanOverrun
<1>1. AllAgree => NoScanOverrun
  BY DEF AllAgree
<1> QED
  BY <1>1, VgcInv, PTL

\* No scan line or vertical blank event outlives its frame.
THEOREM VgcEventsAhead == Spec => []EventsAhead
<1>1. AllAgree => EventsAhead
  BY DEF AllAgree
<1> QED
  BY <1>1, VgcInv, PTL

\* All three together: the events in the list are those the flags tell of, at
\* most one scan line event waits, and none is behind the beam.
THEOREM VgcEventsFit == Spec => []EventsFit
<1>1. OneScanEvent /\ NoScanOverrun /\ EventsAhead => EventsFit
  BY DEF EventsFit
<1> QED
  BY <1>1, VgcOneScanEvent, VgcNoScanOverrun, VgcEventsAhead, PTL

\* The interrupts requested are those that the registers show and enable.
THEOREM VgcIrqs == Spec => [](C023Irq /\ C046Irq)
<1>1. AllAgree => C023Irq /\ C046Irq
  BY DEF AllAgree
<1> QED
  BY <1>1, VgcInv, PTL

\* A search leaves the status of the interrupts alone.
LEMMA SearchC023 ==
  ASSUME NEW s \in State, NEW start, NEW t \in check_scan_line_int(s, start)
  PROVE  t.c023 = s.c023
  BY DEF check_scan_line_int, State

\* The scan line interrupt comes only with its event, at a line that asks for
\* it at that moment.
LEMMA ScanOnlyOnLine ==
  ASSUME Agreed(vgc), Next, "scan" \in vgc'.c023, "scan" \notin vgc.c023
  PROVE  /\ vgc.super_hires
         /\ \E l \in vgc.scb : vgc.scan_ev[l] > 0 /\ vgc.beam >= l
<1>1. vgc \in State
  BY DEF Agreed
<1>2. CASE Tick \/ C041Write \/ C047Access \/ C029Write \/ ScbWrite
  <2>1. vgc'.c023 = vgc.c023
    BY <1>1, <1>2
    DEF Tick, C041Write, WriteC041, C047Access, ClearC046, C029Write, ScbWrite, State
  <2> QED
    BY <2>1
<1>3. CASE ScanEvent
  <2>1. PICK l \in Line :
          /\ vgc.scan_ev[l] > 0 /\ vgc.beam >= l /\ vgc' \in do_scan_int(vgc, l)
    BY <1>3 DEF ScanEvent, ScanDue
  <2> DEFINE u == [vgc EXCEPT !.scan_ev = [vgc.scan_ev EXCEPT ![l] = @ - 1],
                              !.scan_int_events = FALSE]
  <2>2. vgc.scan_ev \in [Line -> Nat] /\ vgc.scan_ev[l] - 1 \in Nat
    BY <1>1, <2>1 DEF State
  <2>3. [vgc.scan_ev EXCEPT ![l] = @ - 1] \in [Line -> Nat]
    BY <2>2
  <2>4. /\ u \in State /\ u.c023 = vgc.c023
        /\ u.scb = vgc.scb /\ u.super_hires = vgc.super_hires
    BY <1>1, <2>3 DEF State
  <2>5. u = [vgc EXCEPT !.scan_ev[l] = @ - 1, !.scan_int_events = FALSE]
    BY <1>1 DEF State
  <2>6. vgc' \in HandleScan(u, l)
    BY <2>1, <2>5 DEF do_scan_int
  <2> HIDE DEF u
  <2>7. CASE l \in u.scb /\ u.super_hires
    BY <2>1, <2>4, <2>7
  <2>8. CASE ~(l \in u.scb /\ u.super_hires)
    <3>1. vgc' \in check_scan_line_int(u, l + 1)
      BY <2>6, <2>8 DEF HandleScan
    <3> QED
      BY <2>4, <3>1, SearchC023
  <2> QED
    BY <2>7, <2>8
<1>4. CASE VblEvent
  BY <1>1, <1>4 DEF VblEvent, do_vbl_int, State
<1>5. CASE Event60Hz
  <2> DEFINE u == [vgc EXCEPT !.beam = 0]
             v == add_event_vbl(u)
             w == SecondTick(QuarterTick(v))
  <2>1. vgc' \in check_scan_line_int(w, 0) /\ w \in State
    BY <1>5, FrameStart DEF Event60Hz, Due, VblDue, update_60hz, Frame, Agreed
  <2>2. "scan" \in w.c023 => "scan" \in vgc.c023
    <3>1. u.c023 = vgc.c023
      BY <1>1 DEF State
    <3>2. v.c023 = u.c023
      BY <1>1 DEF add_event_vbl, State
    <3>3. QuarterTick(v).c023 = v.c023
      BY <1>1 DEF QuarterTick, add_event_vbl, State
    <3>4. w.c023 \subseteq QuarterTick(v).c023 \cup {"sec", "vgc"}
      BY <1>1 DEF SecondTick, QuarterTick, add_event_vbl, State
    <3> QED
      BY <3>1, <3>2, <3>3, <3>4
  <2> HIDE DEF w
  <2> QED
    BY <2>1, <2>2, SearchC023
<1>6. CASE C023Write
  BY <1>1, <1>6 DEF C023Write, WriteC023, Summary, State
<1>7. CASE C032Write
  <2>1. PICK clear \in SUBSET {"scan", "sec"} : vgc' \in WriteC032(vgc, clear)
    BY <1>7 DEF C032Write
  <2> DEFINE ack == clear \cap vgc.c023
             irq == remove_irq(vgc.irq, ack)
             u == [vgc EXCEPT !.irq = irq,
                     !.c023 = (@ \ (IF ack # {} THEN ack \cup {"vgc"} ELSE {}))
                                 \cup Summary(irq)]
  <2>2. vgc' \in IF "scan" \in ack THEN check_for_new_scan_int(u) ELSE {u}
    BY <2>1 DEF WriteC032
  <2>3. "scan" \in ack => FALSE
    OBVIOUS
  <2>4. vgc'.c023 \subseteq vgc.c023 \cup {"vgc"}
    <3>1. vgc' = u
      BY <2>2, <2>3
    <3>2. u.c023 = (vgc.c023 \ (IF ack # {} THEN ack \cup {"vgc"} ELSE {}))
                      \cup Summary(irq)
      BY <1>1 DEF State
    <3>3. Summary(irq) \subseteq {"vgc"}
      BY DEF Summary
    <3> HIDE DEF u, ack, irq
    <3> QED
      BY <3>1, <3>2, <3>3
  <2> QED
    BY <2>4
<1>8. CASE Reset
  BY <1>1, <1>8 DEF Reset, do_reset, State
<1> QED
  BY <1>2, <1>3, <1>4, <1>5, <1>6, <1>7, <1>8 DEF Next, Cpu

\* A scan line interrupt never comes outside super hires, ahead of the beam or
\* for a line whose control byte does not ask for it any more.
THEOREM VgcScanOnLine == Spec => ScanOnLine
<1>1. AllAgree /\ [Next]_vgc =>
        [ "scan" \in vgc'.c023 \ vgc.c023 =>
            /\ vgc.super_hires
            /\ \E l \in vgc.scb : vgc.scan_ev[l] > 0 /\ vgc.beam >= l ]_vgc
  BY InvIsGood, ScanOnlyOnLine
<1> QED
  BY <1>1, VgcInv, PTL DEF Spec, ScanOnLine
=============================================================================
