--------------------------- MODULE ChainRunProofs ---------------------------
(***************************************************************************)
(* Proofs about ChainRun, for any blueprint, any number of processes and   *)
(* any bounds.  Every copy of the state (the row, what a process or an     *)
(* operator has loaded) claims only what the ledger records; the copies    *)
(* nobody has written past agree with it exactly; and what stands before   *)
(* the position of a process in its order has been done.                   *)
(***************************************************************************)
EXTENDS ChainRun, SequenceTheorems, NaturalsInduction, WellFoundedInduction, TLAPS

Process ==
    [pc : Pcs, mode : {"run", "resume"}, live : ChainState, order : Seq(Nodes),
     idx : Nat \ {0}, step : 0 .. MaxStep, next : 0 .. MaxStep,
     retries : [Nodes -> 0 .. 2], base : [Steps -> Nodes \cup {None}]]

Types ==
    /\ db \in ChainState
    /\ ledger \in [Steps -> Nodes \cup {None}]
    /\ proc \in [Procs -> Process]
    /\ opView \in ChainState \cup {None}
    /\ current \subseteq Procs \cup {Operator}
    /\ stale \in BOOLEAN
    /\ skipped \subseteq Nodes /\ owed \subseteq Nodes
    /\ lives \in 0 .. MaxLives
    /\ operations \in 0 .. MaxOperations
    /\ revisions \in 0 .. MaxRevisions

(* The nodes with a row.                                                    *)
Recorded(L) == {n \in Nodes : \E s \in Steps : L[s] = n}
Handled == Recorded(ledger) \cup skipped

(* What a copy of the state says is so, given the ledger.                   *)
CopyTrue(c, L) ==
    /\ \A s \in Steps : c.done[s] \in {None, L[s]}
    /\ c.status = "waiting_for_review" => ReviewNode \in Recorded(L)
    /\ c.revision # None => c.revision = RevisionTarget /\ ReviewNode \in Recorded(L)
    /\ c.pending # None => LoopEnd(c.pending) \in Recorded(L)

(* Where a process is in its order, and what that means.                    *)
Working == {"commit", "failed", "after", "route", "exit", "review"}
Routed == {"after", "route", "exit", "review"}
Loading == {"ledger", "loaded", "resume_review", "cursor"}
Outside == {"idle", "resume", "approve"}

ProcTrue(q, L) ==
    /\ Nodes \subseteq Range(q.order)
    /\ q.idx <= Len(q.order) + 1
    /\ q.pc \in Working => q.idx <= Len(q.order)
    /\ q.pc \in Routed => q.order[q.idx] \in Recorded(L)
    /\ q.pc = "review" => q.order[q.idx] = ReviewNode
    /\ q.pc = "resume_review" => ReviewNode \in Recorded(L)
    /\ q.pc \in Loading => q.order = Order
    /\ \A s \in Steps : q.base[s] \in {None, L[s]}
    /\ q.step <= q.next
    /\ q.pc \in {"commit", "failed"} => q.step = q.next /\ q.step \in Steps
    /\ q.pc \notin Outside => q.live.step <= q.next
    /\ q.pc \in Loading => q.step = q.live.step
    /\ q.pc \notin {"idle", "resume"} => q.live.status # "absent"

Copies ==
    /\ CopyTrue(db, ledger)
    /\ \A p \in Procs : CopyTrue(proc[p].live, ledger)
    /\ opView # None => CopyTrue(opView, ledger)

Placed ==
    /\ \A p \in Procs : ProcTrue(proc[p], ledger)
    /\ db.status = "absent" => ledger = NoSteps /\ \A p \in Procs : proc[p].pc = "idle"

(* The copies nobody has written past, as long as no one wrote from a stale *)
(* one.                                                                     *)
Exact(c, L) ==
    /\ c.done = L
    /\ \A s \in Steps : L[s] # None => s <= c.step
    /\ c.step # 0 => L[c.step] # None

Holds(q, L) ==
    /\ q.pc # "idle"
    /\ q.pc # "resume" => Exact(q.live, L) /\ q.live.status # "completed"
    /\ q.mode = "resume" /\ q.pc \notin {"resume", "ledger"} =>
          \A s \in Steps : q.base[s] # None => s <= q.step
    /\ q.mode = "resume" /\ q.pc \in {"commit", "failed"} =>
          \A s \in Steps : q.base[s] # q.order[q.idx]

Latest ==
    ~stale => /\ Exact(db, ledger)
              /\ db.status = "completed" => current = {}
              /\ \A p \in current \cap Procs : Holds(proc[p], ledger)
              /\ Operator \in current => Exact(opView, ledger)

IInv == Types /\ Copies /\ Placed /\ Latest

(* The part of it that takes work.                                          *)
Core ==
    /\ db \in ChainState /\ proc \in [Procs -> Process]
    /\ Copies /\ Placed /\ Latest

(* In a blueprint that leads back, an order lists before a node what the    *)
(* blueprint lists before it ...                                            *)
Downward(order) ==
    \A j \in 1 .. Len(order) : \A m \in Nodes :
        Upto(m, order[j]) => \E k \in 1 .. j : order[k] = m

(* ... what stands before a process has been handled, and so has what the   *)
(* blueprint lists before a node with a row; a copy that says completed     *)
(* says it of all nodes.                                                    *)
Progress(q, H) ==
    /\ Downward(q.order)
    /\ \A j \in 1 .. q.idx - 1 : q.order[j] \in H
    /\ q.live.status = "completed" => Nodes \subseteq H

Finishable ==
    /\ \A n \in Recorded(ledger), m \in Nodes : Upto(m, n) => m \in Handled
    /\ \A p \in Procs : Progress(proc[p], Handled)
    /\ db.status = "completed" => Nodes \subseteq Handled
    /\ opView # None /\ opView.status = "completed" => Nodes \subseteq Handled

-----------------------------------------------------------------------------
(* Orders.                                                                  *)

LEMMA LeastOf ==
    ASSUME NEW T, T \subseteq Nat, T # {}
    PROVE  \E x \in T : \A y \in T : x =< y
<1> DEFINE R == {ss \in Nat \X Nat : ss[1] < ss[2]}
<1>1. IsWellFoundedOn(R, Nat)
  BY NatLessThanWellFounded DEF OpToRel
<1>2. \A x, y \in Nat : x < y => <<x, y>> \in R
  OBVIOUS
<1> HIDE DEF R
<1>3. PICK x \in T : \A y \in T : ~ (<<y, x>> \in R)
  BY <1>1, WFMin
<1>4. ASSUME NEW y \in T PROVE x =< y
  <2>1. ~ (y < x)
    BY <1>2, <1>3, Zenon
  <2> QED
    BY <2>1
<1> QED
  BY <1>4

(* The first occurrence.                                                    *)
LEMMA IndexIs ==
    ASSUME NEW S, NEW q \in Seq(S), NEW x, \E k \in 1 .. Len(q) : q[k] = x
    PROVE  /\ Index(q, x) \in 1 .. Len(q)
           /\ q[Index(q, x)] = x
           /\ \A k \in 1 .. Len(q) : q[k] = x => Index(q, x) <= k
<1> DEFINE T == {k \in 1 .. Len(q) : q[k] = x}
           First(i) == q[i] = x /\ \A j \in 1 .. i - 1 : q[j] # x
<1>1. T \subseteq Nat /\ T # {} /\ DOMAIN q = 1 .. Len(q) /\ Len(q) \in Nat
  OBVIOUS
<1>2. PICK i \in T : \A y \in T : i =< y
  BY <1>1, LeastOf
<1>3. i \in DOMAIN q /\ First(i)
  BY <1>1, <1>2
<1>4. Index(q, x) = CHOOSE k \in DOMAIN q : First(k)
  BY Zenon DEF Index
<1> DEFINE c == CHOOSE k \in DOMAIN q : First(k)
<1>5. c \in DOMAIN q /\ First(c)
  BY <1>3, Zenon
<1> HIDE DEF c
<1>6. \A k \in 1 .. Len(q) : q[k] = x => c <= k
  BY <1>1, <1>5
<1> QED
  BY <1>1, <1>4, <1>5, <1>6 DEF c

LEMMA RangeIs ==
    ASSUME NEW S, NEW q \in Seq(S), NEW x
    PROVE  x \in Range(q) <=> \E k \in 1 .. Len(q) : q[k] = x
BY DEF Range

LEMMA OrderType ==
    /\ Order \in Seq(Nodes) /\ Nodes \subseteq Range(Order)
    /\ \A n \in Nodes : Index(Order, n) \in 1 .. Len(Order) /\ Order[Index(Order, n)] = n
    /\ Len(Order) \in Nat \ {0}
<1>1. Order \in Seq(Nodes) /\ RevisionTarget \in Nodes
  BY ChainAssumption DEF Nodes
<1>2. \A n \in Nodes : \E k \in 1 .. Len(Order) : Order[k] = n
  BY <1>1, RangeIs DEF Nodes
<1>3. ASSUME NEW n \in Nodes
      PROVE  Index(Order, n) \in 1 .. Len(Order) /\ Order[Index(Order, n)] = n
  BY <1>1, <1>2, IndexIs
<1>4. Len(Order) # 0
  BY <1>1, <1>2
<1> QED
  BY <1>1, <1>3, <1>4 DEF Nodes

LEMMA Joined ==
    ASSUME NEW u \in Seq(Nodes), NEW v \in Seq(Nodes)
    PROVE  /\ u \o v \in Seq(Nodes) /\ Len(u \o v) = Len(u) + Len(v)
           /\ \A k \in 1 .. Len(u) : (u \o v)[k] = u[k]
           /\ \A k \in 1 .. Len(v) : (u \o v)[Len(u) + k] = v[k]
<1>1. u \o v \in Seq(Nodes) /\ Len(u \o v) = Len(u) + Len(v)
  OBVIOUS
<1>2. \A k \in 1 .. Len(u) : (u \o v)[k] = u[k]
  OBVIOUS
<1>3. ASSUME NEW k \in 1 .. Len(v) PROVE (u \o v)[Len(u) + k] = v[k]
  OBVIOUS
<1> QED
  BY <1>1, <1>2, <1>3

(* A segment put behind position a.                                         *)
Spliced(q, a, g) == SubSeq(q, 1, a) \o g \o SubSeq(q, a + 1, Len(q))

LEMMA Inserted ==
    ASSUME NEW q \in Seq(Nodes), NEW a \in 1 .. Len(q), NEW g \in Seq(Nodes)
    PROVE  /\ Spliced(q, a, g) \in Seq(Nodes)
           /\ Len(Spliced(q, a, g)) = Len(q) + Len(g)
           /\ \A k \in 1 .. a : Spliced(q, a, g)[k] = q[k]
           /\ \A k \in 1 .. Len(g) : Spliced(q, a, g)[a + k] = g[k]
           /\ \A k \in a + 1 .. Len(q) : Spliced(q, a, g)[k + Len(g)] = q[k]
<1> DEFINE r == Spliced(q, a, g)
           u == SubSeq(q, 1, a)
           v == SubSeq(q, a + 1, Len(q))
<1>1. /\ u \in Seq(Nodes) /\ Len(u) = a /\ \A k \in 1 .. a : u[k] = q[k]
      /\ Len(q) \in Nat /\ Len(g) \in Nat /\ a \in Nat
  BY SubSeqProperties
<1>2. /\ v \in Seq(Nodes) /\ Len(v) = Len(q) - a
      /\ \A k \in 1 .. Len(q) - a : v[k] = q[a + k]
  <2>1. CASE a = Len(q)
    BY <1>1, <2>1, SubSeqEmpty
  <2>2. CASE a < Len(q)
    BY SMTT(30), <1>1, <2>2, SubSeqProperties
  <2> QED
    BY <1>1, <2>1, <2>2
<1> HIDE DEF u, v
<1> DEFINE w == u \o g
           n == Len(g)
           m == Len(q) - a
<1>0. n \in Nat /\ m \in Nat
  BY <1>1
<1>3. /\ w \in Seq(Nodes) /\ Len(w) = a + n
      /\ \A k \in 1 .. a : w[k] = u[k]
      /\ \A k \in 1 .. n : w[a + k] = g[k]
  <2>1. a = Len(u) /\ n = Len(g)
    BY <1>1
  <2>2. /\ u \o g \in Seq(Nodes) /\ Len(u \o g) = Len(u) + Len(g)
        /\ \A k \in 1 .. Len(u) : (u \o g)[k] = u[k]
        /\ \A k \in 1 .. Len(g) : (u \o g)[Len(u) + k] = g[k]
    BY <1>1, Joined, Zenon
  <2> HIDE DEF w
  <2> QED
    BY <2>1, <2>2 DEF w
<1> HIDE DEF w
<1>4. /\ w \o v \in Seq(Nodes) /\ Len(w \o v) = (a + n) + m
      /\ \A k \in 1 .. a + n : (w \o v)[k] = w[k]
      /\ \A k \in 1 .. m : (w \o v)[(a + n) + k] = v[k]
  <2>1. m = Len(v) /\ a + n = Len(w)
    BY <1>2, <1>3
  <2>2. /\ w \o v \in Seq(Nodes) /\ Len(w \o v) = Len(w) + Len(v)
        /\ \A k \in 1 .. Len(w) : (w \o v)[k] = w[k]
        /\ \A k \in 1 .. Len(v) : (w \o v)[Len(w) + k] = v[k]
    BY <1>2, <1>3, Joined, Zenon
  <2> HIDE DEF n, m
  <2> DEFINE z == w \o v
  <2> HIDE DEF z
  <2>3. /\ z \in Seq(Nodes) /\ Len(z) = (a + n) + m
        /\ \A k \in 1 .. a + n : z[k] = w[k]
        /\ \A k \in 1 .. m : z[(a + n) + k] = v[k]
    BY <2>1, <2>2 DEF z
  <2> QED
    BY <2>3 DEF z
<1>5. r = w \o v
  BY DEF u, v, w, Spliced
<1> HIDE DEF r
<1>6. r \in Seq(Nodes) /\ Len(r) = Len(q) + Len(g)
  <2>1. (a + n) + m = Len(q) + Len(g)
    BY <1>1
  <2> QED
    BY <1>4, <1>5, <2>1
<1>7. \A k \in 1 .. a : r[k] = q[k]
  <2>1. \A k \in 1 .. a : k \in 1 .. a + n
    BY <1>1
  <2> QED
    BY <1>1, <1>3, <1>4, <1>5, <2>1
<1>8. \A k \in 1 .. Len(g) : r[a + k] = g[k]
  <2>1. \A k \in 1 .. n : a + k \in 1 .. a + n
    BY <1>1
  <2> QED
    BY <1>3, <1>4, <1>5, <2>1
<1>9. ASSUME NEW k \in a + 1 .. Len(q) PROVE r[k + Len(g)] = q[k]
  <2>1. k - a \in 1 .. Len(q) - a /\ k + Len(g) = a + Len(g) + (k - a) /\ a + (k - a) = k
    BY <1>1
  <2> QED
    BY <1>2, <1>4, <1>5, <2>1
<1> QED
  BY <1>6, <1>7, <1>8, <1>9 DEF r

(* The loop of a target is the only one whose path holds it.                *)
LEMMA LoopFacts ==
    ASSUME NEW l \in Loops
    PROVE  /\ Path[l] \in Seq(Nodes) /\ Len(Path[l]) \in Nat \ {0}
           /\ LoopTarget(l) \in Nodes /\ LoopEnd(l) \in Nodes
           /\ LoopOf(LoopTarget(l)) = {l} /\ l # None
<1>1. Path[l] \in Seq(Nodes) /\ Path[l] # <<>>
  BY ChainAssumption
<1>2. Len(Path[l]) \in Nat \ {0} /\ LoopTarget(l) \in Nodes /\ LoopEnd(l) \in Nodes
  BY <1>1, EmptySeq DEF LoopTarget, LoopEnd
<1>3. LoopTarget(l) \in Range(Path[l])
  <2>1. 1 \in 1 .. Len(Path[l])
    BY <1>2
  <2> QED
    BY <1>1, <2>1, RangeIs DEF LoopTarget
<1>4. \A m \in Loops : m # l => Range(Path[l]) \cap Range(Path[m]) = {}
  BY ChainAssumption
<1>5. LoopOf(LoopTarget(l)) = {l}
  BY <1>3, <1>4 DEF LoopOf
<1>6. l # None
  BY ChainAssumption
<1> QED
  BY <1>1, <1>2, <1>5, <1>6

LEMMA Rebuilt ==
    ASSUME NEW order \in Seq(Nodes), Nodes \subseteq Range(order),
           NEW from \in Nodes, NEW target \in Nodes,
           NEW new, new = rebuild_order_with_loop(order, from, target)
    PROVE  /\ Index(order, from) \in 1 .. Len(order)
           /\ Index(order, target) \in 1 .. Len(order)
           /\ \/ Index(order, target) > Index(order, from) /\ new = order
              \/ /\ Index(order, target) <= Index(order, from)
                 /\ LoopSegment(order, Index(order, from), target) \in Seq(Nodes)
                 /\ new = Spliced(order, Index(order, from),
                                  LoopSegment(order, Index(order, from), target))
<1> DEFINE a == Index(order, from)
           t == Index(order, target)
           g == LoopSegment(order, a, target)
<1>1. a \in 1 .. Len(order) /\ t \in 1 .. Len(order)
  BY RangeIs, IndexIs
<1>2. new = IF t > a THEN order
            ELSE Spliced(order, a, g)
  BY Zenon DEF rebuild_order_with_loop, Spliced
<1>3. ASSUME t <= a PROVE g \in Seq(Nodes)
  <2>1. CASE LoopOf(target) # {}
    <3>1. (CHOOSE l \in LoopOf(target) : TRUE) \in Loops
      BY <2>1 DEF LoopOf
    <3> QED
      BY <2>1, <3>1, LoopFacts DEF LoopSegment
  <2>2. CASE LoopOf(target) = {}
    <3>1. SubSeq(order, t, a) \in Seq(Nodes)
      BY <1>1, <1>3, SubSeqProperties
    <3> QED
      BY <2>2, <3>1 DEF LoopSegment
  <2> QED
    BY <2>1, <2>2
<1> HIDE DEF a, t, g
<1>4. t > a \/ t <= a
  BY <1>1
<1>5. \/ t > a /\ new = order
      \/ /\ t <= a /\ g \in Seq(Nodes)
         /\ new = Spliced(order, a, g)
  BY <1>1, <1>2, <1>3, <1>4
<1> QED
  BY <1>1, <1>5 DEF a, t, g

(* A rebuilt order is one, and the target is found in it.                   *)
LEMMA RebuiltOrder ==
    ASSUME NEW order \in Seq(Nodes), Nodes \subseteq Range(order),
           NEW from \in Nodes, NEW target \in Nodes,
           NEW new, new = rebuild_order_with_loop(order, from, target)
    PROVE  /\ new \in Seq(Nodes) /\ Nodes \subseteq Range(new)
           /\ Index(new, target) \in 1 .. Len(new)
<1> DEFINE a == Index(order, from)
           t == Index(order, target)
           g == LoopSegment(order, a, target)
<1>1. /\ a \in 1 .. Len(order)
      /\ \/ new = order
         \/ /\ g \in Seq(Nodes)
            /\ new = Spliced(order, a, g)
  BY Rebuilt
<1> HIDE DEF a, t, g
<1>2. new \in Seq(Nodes) /\ \A n \in Nodes : \E k \in 1 .. Len(new) : new[k] = n
  <2>1. \A n \in Nodes : \E k \in 1 .. Len(order) : order[k] = n
    BY RangeIs
  <2>2. CASE new = order
    BY <2>1, <2>2
  <2>3. CASE new # order
    <3>1. /\ new \in Seq(Nodes) /\ Len(new) = Len(order) + Len(g)
          /\ \A k \in 1 .. a : new[k] = order[k]
          /\ \A k \in a + 1 .. Len(order) : new[k + Len(g)] = order[k]
          /\ Len(g) \in Nat /\ Len(order) \in Nat
      <4>1. /\ g \in Seq(Nodes)
            /\ new = Spliced(order, a, g)
        BY <1>1, <2>3
      <4>2. Len(g) \in Nat /\ Len(order) \in Nat
        BY <4>1
      <4>3. a \in 1 .. Len(order)
        BY <1>1
      <4>4. /\ Spliced(order, a, g) \in Seq(Nodes)
            /\ Len(Spliced(order, a, g)) = Len(order) + Len(g)
            /\ \A k \in 1 .. a : Spliced(order, a, g)[k] = order[k]
            /\ \A k \in 1 .. Len(g) : Spliced(order, a, g)[a + k] = g[k]
            /\ \A k \in a + 1 .. Len(order) : Spliced(order, a, g)[k + Len(g)] = order[k]
        BY <4>1, <4>3, Inserted, Zenon
      <4> QED
        BY <4>1, <4>2, <4>4
    <3>2. ASSUME NEW n \in Nodes PROVE \E k \in 1 .. Len(new) : new[k] = n
      <4>1. PICK k \in 1 .. Len(order) : order[k] = n
        BY <2>1
      <4>2. CASE k <= a
        BY <1>1, <3>1, <4>1, <4>2
      <4>3. CASE k > a
        <5>1. k + Len(g) \in 1 .. Len(new) /\ k \in a + 1 .. Len(order)
          BY <1>1, <3>1, <4>3
        <5> QED
          BY <3>1, <4>1, <5>1
      <4> QED
        BY <1>1, <4>2, <4>3
    <3> QED
      BY <3>1, <3>2
  <2> QED
    BY <2>2, <2>3
<1>3. Index(new, target) \in 1 .. Len(new)
  BY <1>2, IndexIs
<1> QED
  BY <1>2, <1>3, RangeIs

LEMMA UptoOrder ==
    /\ \A m, n, o \in Nodes : Upto(m, n) /\ Upto(n, o) => Upto(m, o)
    /\ \A m, n \in Nodes : Upto(m, n) \/ Upto(n, m)
    /\ \A m \in Nodes : Upto(m, m)
<1>1. \A n \in Nodes : Index(Order, n) \in Int
  BY OrderType
<1> QED
  BY <1>1 DEF Upto

(* Under Backward, what an order lists up to the first occurrence of a node *)
(* is what the blueprint lists up to that node, and so is a rebuilt order.  *)
LEMMA BeforeFirst ==
    ASSUME NEW order \in Seq(Nodes), Downward(order), NEW n \in Nodes,
           \E k \in 1 .. Len(order) : order[k] = n, NEW j \in 1 .. Index(order, n)
    PROVE  Upto(order[j], n)
<1>1. /\ Index(order, n) \in 1 .. Len(order) /\ order[Index(order, n)] = n
      /\ \A k \in 1 .. Len(order) : order[k] = n => Index(order, n) <= k
  BY IndexIs
<1>2. j \in 1 .. Len(order) /\ order[j] \in Nodes
  BY <1>1
<1>3. CASE Upto(n, order[j])
  <2>1. PICK k \in 1 .. j : order[k] = n
    BY <1>2, <1>3 DEF Downward
  <2>2. Index(order, n) <= k
    BY <1>1, <1>2, <2>1
  <2>3. j = Index(order, n)
    BY <1>1, <2>2
  <2> QED
    BY <1>1, <2>3, UptoOrder
<1> QED
  BY <1>2, <1>3, UptoOrder

LEMMA RebuiltBackward ==
    ASSUME NEW order \in Seq(Nodes), Nodes \subseteq Range(order), Downward(order),
           NEW from \in Nodes, NEW target \in Nodes, Upto(target, from),
           \A l \in LoopOf(target) : \A n \in Range(Path[l]) : Upto(n, from),
           NEW new, new = rebuild_order_with_loop(order, from, target)
    PROVE  /\ Downward(new)
           /\ \A j \in 1 .. Index(new, target) - 1 : new[j] \in Nodes /\ Upto(new[j], from)
<1> DEFINE a == Index(order, from)
           t == Index(order, target)
           g == LoopSegment(order, a, target)
<1>0. \A n \in Nodes : \E k \in 1 .. Len(order) : order[k] = n
  BY RangeIs
<1>1. /\ a \in 1 .. Len(order) /\ order[a] = from
      /\ t \in 1 .. Len(order) /\ order[t] = target
      /\ \A k \in 1 .. Len(order) : order[k] = target => t <= k
  BY <1>0, IndexIs
<1>2. t <= a
  <2>1. PICK k \in 1 .. a : order[k] = target
    BY <1>1 DEF Downward
  <2> QED
    BY <1>1, <2>1
<1>3. ASSUME NEW j \in 1 .. a PROVE order[j] \in Nodes /\ Upto(order[j], from)
  <2>1. Upto(order[j], from)
    BY <1>0, BeforeFirst, Zenon
  <2> QED
    BY <1>1, <2>1
<1>4. /\ g \in Seq(Nodes)
      /\ new = Spliced(order, a, g)
  <2>1. ~(t > a)
    BY <1>1, <1>2
  <2> QED
    BY <2>1, Rebuilt
<1>5. \A k \in 1 .. Len(g) : g[k] \in Nodes /\ Upto(g[k], from)
  <2>1. CASE LoopOf(target) # {}
    <3>1. PICK l \in LoopOf(target) : g = Path[l]
      BY <2>1, Zenon DEF LoopSegment
    <3>2. l \in Loops /\ Path[l] \in Seq(Nodes)
      BY <3>1, LoopFacts DEF LoopOf
    <3>3. ASSUME NEW k \in 1 .. Len(g) PROVE g[k] \in Nodes /\ g[k] \in Range(Path[l])
      <4>1. k \in 1 .. Len(Path[l]) /\ g[k] = Path[l][k]
        BY <3>1
      <4>2. Path[l][k] \in Range(Path[l])
        BY <3>2, <4>1, RangeIs
      <4> QED
        BY <3>2, <4>1, <4>2
    <3> QED
      BY <3>1, <3>3
  <2>2. CASE LoopOf(target) = {}
    <3>1. g = SubSeq(order, t, a)
      BY <2>2, Zenon DEF LoopSegment
    <3> HIDE DEF a, t, g
    <3>2. \A k \in 1 .. Len(g) : g[k] = order[t + k - 1] /\ t + k - 1 \in 1 .. a
      BY <1>1, <1>2, <3>1, SubSeqProperties
    <3> QED
      BY <1>3, <3>2
  <2> QED
    BY <2>1, <2>2
<1> HIDE DEF a, t, g
<1>6. /\ new \in Seq(Nodes) /\ Len(new) = Len(order) + Len(g)
      /\ \A k \in 1 .. a : new[k] = order[k]
      /\ \A k \in 1 .. Len(g) : new[a + k] = g[k]
      /\ \A k \in a + 1 .. Len(order) : new[k + Len(g)] = order[k]
  <2>1. a \in 1 .. Len(order)
    BY <1>1
  <2>2. /\ Spliced(order, a, g) \in Seq(Nodes)
        /\ Len(Spliced(order, a, g)) = Len(order) + Len(g)
        /\ \A k \in 1 .. a : Spliced(order, a, g)[k] = order[k]
        /\ \A k \in 1 .. Len(g) : Spliced(order, a, g)[a + k] = g[k]
        /\ \A k \in a + 1 .. Len(order) : Spliced(order, a, g)[k + Len(g)] = order[k]
    BY <1>4, <2>1, Inserted, Zenon
  <2> QED
    BY <1>4, <2>2
<1>7. Len(g) \in Nat /\ Len(order) \in Nat /\ a \in Nat
  BY <1>1, <1>4
<1>8. ASSUME NEW m \in Nodes, Upto(m, from) PROVE \E k \in 1 .. a : new[k] = m
  <2>1. PICK k \in 1 .. a : order[k] = m
    BY <1>1, <1>8 DEF Downward
  <2> QED
    BY <1>6, <2>1
<1>9. ASSUME NEW j \in 1 .. Len(new), NEW m \in Nodes, Upto(m, new[j])
      PROVE  \E k \in 1 .. j : new[k] = m
  <2>1. CASE j <= a
    <3>1. j \in 1 .. Len(order) /\ j \in 1 .. a /\ new[j] = order[j]
      BY <1>1, <1>6, <1>7, <2>1
    <3>2. PICK k \in 1 .. j : order[k] = m
      BY <1>9, <3>1 DEF Downward
    <3>3. k \in 1 .. a
      BY <1>7, <3>1
    <3> QED
      BY <1>6, <3>2, <3>3
  <2>2. CASE j > a /\ j <= a + Len(g)
    <3>1. j - a \in 1 .. Len(g) /\ a + (j - a) = j
      BY <1>7, <2>2
    <3>2. new[j] \in Nodes /\ Upto(new[j], from)
      BY <1>5, <1>6, <3>1
    <3>3. Upto(m, from)
      BY <1>9, <3>2, UptoOrder
    <3>4. PICK k \in 1 .. a : new[k] = m
      BY <1>8, <3>3
    <3> QED
      BY <1>7, <2>2, <3>4
  <2>3. CASE j > a + Len(g)
    <3>1. j - Len(g) \in a + 1 .. Len(order) /\ (j - Len(g)) + Len(g) = j
      BY <1>6, <1>7, <2>3
    <3>2. new[j] = order[j - Len(g)] /\ j - Len(g) \in 1 .. Len(order)
      BY <1>6, <1>7, <3>1
    <3>3. PICK k \in 1 .. j - Len(g) : order[k] = m
      BY <1>9, <3>2 DEF Downward
    <3>4. CASE k <= a
      <4>1. k \in 1 .. a /\ k \in 1 .. j
        BY <1>7, <3>1, <3>4
      <4> QED
        BY <1>6, <3>3, <4>1
    <3>5. CASE k > a
      <4>1. k \in a + 1 .. Len(order) /\ k + Len(g) \in 1 .. j
        BY <1>7, <3>1, <3>5
      <4> QED
        BY <1>6, <3>3, <4>1
    <3> QED
      BY <1>7, <3>4, <3>5
  <2> QED
    BY <1>7, <2>1, <2>2, <2>3
<1>10. ASSUME NEW j \in 1 .. Index(new, target) - 1
       PROVE  new[j] \in Nodes /\ Upto(new[j], from)
  <2>1. t \in 1 .. a /\ new[t] = target /\ t \in 1 .. Len(new)
    BY <1>1, <1>2, <1>6, <1>7
  <2>2. Index(new, target) <= t /\ Index(new, target) \in 1 .. Len(new)
    BY <1>6, <2>1, IndexIs
  <2>3. j \in 1 .. a
    BY <1>6, <1>7, <2>1, <2>2
  <2> QED
    BY <1>3, <1>6, <2>3
<1> QED
  BY <1>9, <1>10 DEF Downward

LEMMA OrderDownward == Downward(Order)
<1>1. /\ Order \in Seq(Nodes)
      /\ \A n \in Nodes : \E k \in 1 .. Len(Order) : Order[k] = n
  BY OrderType, RangeIs
<1>2. ASSUME NEW j \in 1 .. Len(Order), NEW m \in Nodes, Upto(m, Order[j])
      PROVE  \E k \in 1 .. j : Order[k] = m
  <2>1. Order[j] \in Nodes
    BY <1>1
  <2>2. Index(Order, Order[j]) <= j /\ Index(Order, Order[j]) \in 1 .. Len(Order)
    BY <1>1, <2>1, IndexIs
  <2>3. Index(Order, m) \in 1 .. Len(Order) /\ Order[Index(Order, m)] = m
    BY OrderType
  <2>4. Index(Order, m) <= Index(Order, Order[j])
    BY <1>2 DEF Upto
  <2>5. Index(Order, m) \in 1 .. j
    BY <2>2, <2>3, <2>4
  <2> QED
    BY <2>3, <2>5
<1> QED
  BY <1>2 DEF Downward


-----------------------------------------------------------------------------
(* What the ledger records stays recorded.                                  *)

Extends(M, L) == \A s \in Steps : L[s] # None => M[s] = L[s]

LEMMA Grow ==
    ASSUME NEW L, NEW M, Extends(M, L)
    PROVE  /\ Recorded(L) \subseteq Recorded(M)
           /\ \A s \in Steps : \A d : d \in {None, L[s]} => d \in {None, M[s]}
<1>1. None \notin Nodes
  BY ChainAssumption
<1> QED
  BY <1>1 DEF Recorded, Extends

LEMMA GrowCopy ==
    ASSUME NEW L, NEW M, Extends(M, L), NEW c, CopyTrue(c, L)
    PROVE  CopyTrue(c, M)
BY Grow DEF CopyTrue

LEMMA GrowProc ==
    ASSUME NEW L, NEW M, Extends(M, L), NEW q, ProcTrue(q, L)
    PROVE  ProcTrue(q, M)
<1>1. Recorded(L) \subseteq Recorded(M)
  BY Grow
<1>2. \A s \in Steps : q.base[s] \in {None, M[s]}
  BY Grow DEF ProcTrue
<1> QED
  BY <1>1, <1>2 DEF ProcTrue

(* A process that is not alive.                                             *)
LEMMA DeadFacts ==
    /\ Fresh \in ChainState /\ Dead \in Process
    /\ \A L : CopyTrue(Fresh, L) /\ ProcTrue(Dead, L)
<1>1. NoSteps \in [Steps -> Nodes \cup {None}] /\ \A s \in Steps : NoSteps[s] = None
  BY DEF NoSteps
<1>2. [l \in Loops |-> 0] \in Iterations
  <2>1. \A l \in Loops : MaxIterations[l] \in Nat
    BY ChainAssumption
  <2> QED
    BY <2>1 DEF Iterations
<1>3. MaxStep \in Nat
  BY ChainAssumption
<1>4. Fresh \in ChainState
  BY <1>1, <1>2, <1>3 DEF Fresh, ChainState, Status
<1>5. Dead \in Process
  <2>1. "idle" \in Pcs /\ [n \in Nodes |-> 0] \in [Nodes -> 0 .. 2]
    BY DEF Pcs
  <2> QED
    BY <1>1, <1>3, <1>4, <2>1, OrderType DEF Dead, Process
<1>6. \A L : CopyTrue(Fresh, L)
  BY <1>1 DEF Fresh, CopyTrue
<1>7. ASSUME NEW L PROVE ProcTrue(Dead, L)
  <2>1. 1 <= Len(Order) + 1
    BY OrderType
  <2>2. Fresh.step = 0
    BY DEF Fresh
  <2> QED
    BY <1>1, <2>1, <2>2, OrderType DEF Dead, ProcTrue, Working, Routed, Loading, Outside
<1> QED
  BY <1>4, <1>5, <1>6, <1>7

-----------------------------------------------------------------------------
(* The three shapes of a step of a process: it writes nothing, it writes    *)
(* its copy and goes on, or it writes a state and ends.                     *)

LEMMA Others ==
    ASSUME NEW p \in Procs, NEW q \in Process, proc \in [Procs -> Process],
           proc' = [proc EXCEPT ![p] = q]
    PROVE  /\ proc' \in [Procs -> Process] /\ proc'[p] = q
           /\ \A r \in Procs : r # p => proc'[r] = proc[r]
OBVIOUS

LEMMA Going ==
    ASSUME NEW p \in Procs, NEW q \in Process, IInv,
           proc' = [proc EXCEPT ![p] = q], opView' = opView,
           Extends(ledger', ledger), ProcTrue(q, ledger'), CopyTrue(q.live, ledger'),
           CopyTrue(db', ledger'), db'.status # "absent"
    PROVE  Copies' /\ Placed'
<1>1. /\ proc \in [Procs -> Process] /\ CopyTrue(db, ledger)
      /\ opView # None => CopyTrue(opView, ledger)
      /\ \A r \in Procs : CopyTrue(proc[r].live, ledger)
      /\ \A r \in Procs : ProcTrue(proc[r], ledger)
  BY DEF IInv, Types, Copies, Placed
<1>2. /\ proc'[p] = q
      /\ \A r \in Procs : r # p => proc'[r] = proc[r]
  BY <1>1, Others
<1>3. \A r \in Procs : CopyTrue(proc'[r].live, ledger') /\ ProcTrue(proc'[r], ledger')
  <2>1. ASSUME NEW r \in Procs, r # p
        PROVE  CopyTrue(proc[r].live, ledger') /\ ProcTrue(proc[r], ledger')
    BY <1>1, GrowCopy, GrowProc
  <2> QED
    BY <1>2, <2>1
<1>4. opView' # None => CopyTrue(opView', ledger')
  BY <1>1, GrowCopy
<1>5. Copies'
  BY <1>3, <1>4 DEF Copies
<1>6. Placed'
  BY <1>3 DEF Placed
<1> QED
  BY <1>5, <1>6


LEMMA Keeps ==
    ASSUME NEW p \in Procs, NEW q \in Process, IInv,
           proc' = [proc EXCEPT ![p] = q],
           UNCHANGED <<db, ledger, opView, stale>>,
           current' \subseteq current \cup {p},
           ProcTrue(q, ledger), CopyTrue(q.live, ledger), db.status # "absent",
           ~stale /\ p \in current' => Holds(q, ledger) /\ db.status # "completed"
    PROVE  Core'
<1>1. Extends(ledger', ledger)
  BY DEF Extends
<1>2. CopyTrue(db', ledger') /\ CopyTrue(q.live, ledger') /\ ProcTrue(q, ledger')
  BY DEF IInv, Copies
<1>3. Copies' /\ Placed'
  BY <1>1, <1>2, Going
<1>4. /\ proc'[p] = q
      /\ \A r \in Procs : r # p => proc'[r] = proc[r]
  BY Others DEF IInv, Types
<1>5. Operator # p
  BY ChainAssumption
<1>6. ASSUME ~stale PROVE
         /\ Exact(db', ledger')
         /\ db'.status = "completed" => current' = {}
         /\ \A r \in current' \cap Procs : Holds(proc'[r], ledger')
         /\ Operator \in current' => Exact(opView', ledger')
  <2>1. /\ Exact(db, ledger)
        /\ db.status = "completed" => current = {}
        /\ \A r \in current \cap Procs : Holds(proc[r], ledger)
        /\ Operator \in current => Exact(opView, ledger)
    BY <1>6 DEF IInv, Latest
  <2> QED
    BY <1>4, <1>5, <1>6, <2>1
<1>7. Latest'
  BY <1>6 DEF Latest
<1>8. db' \in ChainState /\ proc' \in [Procs -> Process]
  BY Others DEF IInv, Types
<1> QED
  BY <1>3, <1>7, <1>8 DEF Core

LEMMA Writes ==
    ASSUME NEW p \in Procs, NEW q \in Process, IInv,
           Commit(p, q), opView' = opView, Extends(ledger', ledger),
           ProcTrue(q, ledger'), CopyTrue(q.live, ledger'), q.live.status # "absent",
           ~stale /\ p \in current => Holds(q, ledger') /\ Exact(q.live, ledger')
                                      /\ q.live.status # "completed"
    PROVE  Core'
<1>1. /\ db' = q.live /\ current' = {p} /\ proc' = [proc EXCEPT ![p] = q]
      /\ ~stale' => ~stale /\ p \in current
  BY DEF Commit, Save
<1>2. Copies' /\ Placed'
  BY <1>1, Going
<1>3. proc'[p] = q
  BY <1>1, Others DEF IInv, Types
<1>4. Operator # p
  BY ChainAssumption
<1>5. Latest'
  BY <1>1, <1>3, <1>4 DEF Latest
<1>6. db' \in ChainState /\ proc' \in [Procs -> Process]
  <2>1. q.live \in ChainState
    BY DEF Process
  <2> QED
    BY <1>1, <2>1, Others DEF IInv, Types
<1> QED
  BY <1>2, <1>5, <1>6 DEF Core

LEMMA Ends ==
    ASSUME NEW p \in Procs, NEW s \in ChainState, IInv,
           Finish(p, s), opView' = opView, ledger' = ledger,
           CopyTrue(s, ledger), s.status # "absent",
           ~stale /\ p \in current => Exact(s, ledger)
    PROVE  Core'
<1>1. /\ db' = s /\ current' = {} /\ proc' = [proc EXCEPT ![p] = Dead]
      /\ ~stale' => ~stale /\ p \in current
  BY DEF Finish, Save
<1>2. Extends(ledger', ledger)
  BY DEF Extends
<1>3. Dead.live = Fresh
  BY DEF Dead
<1>4. Copies' /\ Placed'
  BY <1>1, <1>2, <1>3, DeadFacts, Going
<1>5. Latest'
  BY <1>1 DEF Latest
<1>6. db' \in ChainState /\ proc' \in [Procs -> Process]
  BY <1>1, DeadFacts, Others DEF IInv, Types
<1> QED
  BY <1>4, <1>5, <1>6 DEF Core

(* What the invariant says of one process.                                  *)
LEMMA Here ==
    ASSUME IInv, NEW p \in Procs
    PROVE  /\ proc[p] \in Process /\ proc[p].live \in ChainState
           /\ proc[p].order \in Seq(Nodes) /\ Len(proc[p].order) \in Nat
           /\ proc[p].idx \in Nat \ {0}
           /\ proc[p].step \in 0 .. MaxStep /\ proc[p].next \in 0 .. MaxStep
           /\ ProcTrue(proc[p], ledger) /\ CopyTrue(proc[p].live, ledger)
           /\ ~stale /\ p \in current => Holds(proc[p], ledger) /\ db.status # "completed"
           /\ proc[p].pc # "idle" => db.status # "absent"
           /\ MaxStep \in Nat
<1>1. proc[p] \in Process
  BY DEF IInv, Types
<1>2. /\ proc[p].live \in ChainState
      /\ proc[p].order \in Seq(Nodes) /\ Len(proc[p].order) \in Nat
      /\ proc[p].idx \in Nat \ {0}
      /\ proc[p].step \in 0 .. MaxStep /\ proc[p].next \in 0 .. MaxStep
  BY <1>1 DEF Process
<1>3. ProcTrue(proc[p], ledger) /\ CopyTrue(proc[p].live, ledger)
  BY DEF IInv, Copies, Placed
<1>4. ~stale /\ p \in current => Holds(proc[p], ledger) /\ db.status # "completed"
  BY DEF IInv, Latest
<1>5. proc[p].pc # "idle" => db.status # "absent"
  BY DEF IInv, Placed
<1>6. MaxStep \in Nat
  BY ChainAssumption
<1> QED
  BY <1>1, <1>2, <1>3, <1>4, <1>5, <1>6

(* Working, the node at the position is one of the blueprint.               *)
LEMMA NodeHere ==
    ASSUME IInv, NEW p \in Procs, proc[p].pc \in Working \/ AtNode(p)
    PROVE  Node(p) \in Nodes /\ Node(p) = proc[p].order[proc[p].idx]
           /\ proc[p].idx \in 1 .. Len(proc[p].order)
<1>1. proc[p].idx <= Len(proc[p].order)
  BY Here DEF ProcTrue, AtNode
<1> QED
  BY <1>1, Here DEF Node


-----------------------------------------------------------------------------
(* The steps of the execution loop.                                         *)

LEMMA StatusChange ==
    ASSUME NEW c \in ChainState, NEW st \in Status,
           NEW d, d = [c EXCEPT !.status = st], NEW L
    PROVE  /\ d \in ChainState /\ d.status = st /\ d.step = c.step /\ d.done = c.done
           /\ d.revision = c.revision /\ d.pending = c.pending
           /\ Exact(c, L) => Exact(d, L)
           /\ CopyTrue(c, L) /\ st # "waiting_for_review" => CopyTrue(d, L)
           /\ CopyTrue(c, L) /\ ReviewNode \in Recorded(L) => CopyTrue(d, L)
<1>1. /\ d \in ChainState /\ d.status = st /\ d.step = c.step /\ d.done = c.done
      /\ d.pending = c.pending /\ d.revision = c.revision
  BY DEF ChainState
<1>2. Exact(c, L) => Exact(d, L)
  BY <1>1 DEF Exact
<1>3. /\ CopyTrue(c, L) /\ st # "waiting_for_review" => CopyTrue(d, L)
      /\ CopyTrue(c, L) /\ ReviewNode \in Recorded(L) => CopyTrue(d, L)
  BY <1>1 DEF CopyTrue
<1> QED
  BY <1>1, <1>2, <1>3

LEMMA FailChain ==
    ASSUME IInv, NEW p \in Procs, proc[p].pc \notin {"idle", "resume"}, _fail_chain(p)
    PROVE  Core'
<1> DEFINE s == [proc[p].live EXCEPT !.status = "failed"]
<1>1. "failed" \in Status
  BY DEF Status
<1>2. /\ s \in ChainState /\ s.status = "failed"
      /\ Exact(proc[p].live, ledger) => Exact(s, ledger)
      /\ CopyTrue(s, ledger)
  BY <1>1, Here, StatusChange
<1>3. Finish(p, s) /\ opView' = opView /\ ledger' = ledger
  BY DEF _fail_chain
<1>4. ~stale /\ p \in current => Exact(s, ledger)
  BY <1>2, Here DEF Holds
<1> HIDE DEF s
<1> QED
  BY <1>2, <1>3, <1>4, Ends

LEMMA SkipCompletedStep ==
    ASSUME IInv, NEW p \in Procs, SkipCompleted(p)
    PROVE  Core'
<1> DEFINE q == [proc[p] EXCEPT !.idx = @ + 1]
<1>1. /\ proc[p].pc = "node" /\ proc[p].idx <= Len(proc[p].order)
      /\ UNCHANGED <<db, ledger, opView, stale>> /\ current' = current
  BY DEF SkipCompleted, AtNode
<1>2. proc' = [proc EXCEPT ![p] = q]
  BY Here DEF SkipCompleted, IInv, Types
<1>3. /\ q \in Process /\ q.pc = "node" /\ q.order = proc[p].order
      /\ q.live = proc[p].live /\ q.idx = proc[p].idx + 1 /\ q.mode = proc[p].mode
      /\ q.step = proc[p].step /\ q.next = proc[p].next /\ q.base = proc[p].base
  BY <1>1, Here DEF Process
<1> HIDE DEF q
<1>4. ProcTrue(q, ledger)
  BY <1>1, <1>3, Here DEF ProcTrue, Working, Routed, Loading, Outside
<1>5. ~stale /\ p \in current' => Holds(q, ledger)
  BY <1>1, <1>3, Here DEF Holds
<1> QED
  BY <1>1, <1>2, <1>3, <1>4, <1>5, Here, Keeps

LEMMA InvokeStep ==
    ASSUME IInv, NEW p \in Procs, NEW outcome \in {"commit", "failed"}, Invoke(p, outcome)
    PROVE  Core'
<1> DEFINE q == [proc[p] EXCEPT !.pc = outcome, !.next = @ + 1, !.step = proc[p].next + 1]
<1>1. /\ proc[p].pc = "node" /\ proc[p].idx <= Len(proc[p].order) /\ AtNode(p)
      /\ proc[p].next < MaxStep /\ ~AlreadyDone(p)
      /\ UNCHANGED <<db, ledger, opView, stale>> /\ current' = current
  BY DEF Invoke, AtNode
<1>2. proc' = [proc EXCEPT ![p] = q]
  BY Here DEF Invoke, IInv, Types
<1>3. /\ q \in Process /\ q.pc = outcome /\ q.order = proc[p].order
      /\ q.live = proc[p].live /\ q.idx = proc[p].idx /\ q.mode = proc[p].mode
      /\ q.step = proc[p].next + 1 /\ q.next = proc[p].next + 1 /\ q.base = proc[p].base
      /\ q.step \in Steps
  <2>1. outcome \in Pcs
    BY DEF Pcs
  <2>2. proc[p].next + 1 \in 0 .. MaxStep /\ proc[p].next + 1 \in Steps
    BY <1>1, Here DEF Steps
  <2> QED
    BY <2>1, <2>2, Here DEF Process
<1> HIDE DEF q
<1>4. ProcTrue(q, ledger)
  <2>1. proc[p].live.step <= proc[p].next + 1
    <3>1. proc[p].live.step <= proc[p].next /\ proc[p].live.step \in 0 .. MaxStep
      BY <1>1, Here DEF ProcTrue, Outside, ChainState
    <3> QED
      BY <3>1, Here
  <2> QED
    BY <1>1, <1>3, <2>1, Here DEF ProcTrue, Working, Routed, Loading, Outside
<1>5. ASSUME ~stale, p \in current' PROVE Holds(q, ledger)
  <2>1. Holds(proc[p], ledger)
    BY <1>1, <1>5, Here
  <2>2. ASSUME q.mode = "resume", NEW s \in Steps, q.base[s] # None PROVE s <= q.step
    <3>1. s <= proc[p].step /\ proc[p].step <= proc[p].next
      BY <1>1, <1>3, <2>1, <2>2, Here DEF Holds, ProcTrue
    <3> QED
      BY <1>3, <3>1, Here DEF Steps
  <2>3. ASSUME q.mode = "resume", NEW s \in Steps PROVE q.base[s] # q.order[q.idx]
    <3>1. Node(p) # None /\ Node(p) = q.order[q.idx]
      BY <1>1, <1>3, NodeHere, ChainAssumption
    <3>2. q.base[s] # None => s <= proc[p].step
      BY <1>1, <1>3, <2>1, <2>3 DEF Holds
    <3> QED
      BY <1>1, <1>3, <2>3, <3>1, <3>2 DEF AlreadyDone
  <2> QED
    BY <1>1, <1>3, <2>1, <2>2, <2>3 DEF Holds
<1> QED
  BY <1>1, <1>2, <1>3, <1>4, <1>5, Here, Keeps

LEMMA HandleByRetryStep ==
    ASSUME IInv, NEW p \in Procs, HandleByRetry(p)
    PROVE  Core'
<1> DEFINE q == [proc[p] EXCEPT !.pc = "commit", !.next = @ + 1,
                                !.step = proc[p].next + 1, !.retries[Node(p)] = @ + 1]
<1>1. /\ proc[p].pc = "failed"
      /\ \E limit \in RetryLimits : proc[p].retries[Node(p)] < limit
      /\ proc[p].next < MaxStep
      /\ UNCHANGED <<db, ledger, opView, stale>> /\ current' = current
  BY DEF HandleByRetry
<1>2. Node(p) \in Nodes /\ Node(p) = proc[p].order[proc[p].idx]
  BY <1>1, NodeHere DEF Working
<1>3. proc' = [proc EXCEPT ![p] = q]
  <2>1. proc[p] \in Process /\ proc \in [Procs -> Process]
    BY DEF IInv, Types
  <2>2. [proc EXCEPT ![p] = q] = [proc EXCEPT ![p].pc = "commit", ![p].next = @ + 1,
                            ![p].step = proc[p].next + 1,
                            ![p].retries[Node(p)] = @ + 1]
    BY <2>1 DEF Process
  <2> QED
    BY <2>2 DEF HandleByRetry
<1>4. /\ q \in Process /\ q.pc = "commit" /\ q.order = proc[p].order
      /\ q.live = proc[p].live /\ q.idx = proc[p].idx /\ q.mode = proc[p].mode
      /\ q.step = proc[p].next + 1 /\ q.next = proc[p].next + 1 /\ q.base = proc[p].base
      /\ q.step \in Steps
  <2>1. "commit" \in Pcs
    BY DEF Pcs
  <2>2. proc[p].next + 1 \in 0 .. MaxStep /\ proc[p].next + 1 \in Steps
    BY <1>1, Here DEF Steps
  <2>3. proc[p].retries \in [Nodes -> 0 .. 2]
    BY Here DEF Process
  <2>4. [proc[p].retries EXCEPT ![Node(p)] = @ + 1] \in [Nodes -> 0 .. 2]
    BY <1>1, <1>2, <2>3 DEF RetryLimits
  <2> QED
    BY <2>1, <2>2, <2>4, Here DEF Process
<1> HIDE DEF q
<1>5. ProcTrue(q, ledger)
  <2>1. proc[p].live.step <= proc[p].next + 1
    <3>1. proc[p].live.step <= proc[p].next /\ proc[p].live.step \in 0 .. MaxStep
      BY <1>1, Here DEF ProcTrue, Outside, ChainState
    <3> QED
      BY <3>1, Here
  <2> QED
    BY <1>1, <1>4, <2>1, Here DEF ProcTrue, Working, Routed, Loading, Outside
<1>6. ASSUME ~stale, p \in current' PROVE Holds(q, ledger)
  <2>1. Holds(proc[p], ledger)
    BY <1>1, <1>6, Here
  <2>2. ASSUME q.mode = "resume", NEW s \in Steps, q.base[s] # None PROVE s <= q.step
    <3>1. s <= proc[p].step /\ proc[p].step <= proc[p].next
      BY <1>1, <1>4, <2>1, <2>2, Here DEF Holds, ProcTrue
    <3> QED
      BY <1>4, <3>1, Here DEF Steps
  <2> QED
    BY <1>1, <1>4, <2>1, <2>2 DEF Holds
<1> QED
  BY <1>1, <1>3, <1>4, <1>5, <1>6, Here, Keeps

LEMMA HandleBySkipStep ==
    ASSUME IInv, NEW p \in Procs, HandleBySkip(p)
    PROVE  Core'
<1> DEFINE q == [proc[p] EXCEPT !.pc = "node", !.idx = @ + 1]
<1>1. /\ proc[p].pc = "failed"
      /\ UNCHANGED <<db, ledger, opView, stale>> /\ current' = current
  BY DEF HandleBySkip
<1>2. proc[p].idx <= Len(proc[p].order)
  BY <1>1, Here DEF ProcTrue, Working
<1>3. proc' = [proc EXCEPT ![p] = q]
  BY Here DEF HandleBySkip, IInv, Types
<1>4. /\ q \in Process /\ q.pc = "node" /\ q.order = proc[p].order
      /\ q.live = proc[p].live /\ q.idx = proc[p].idx + 1 /\ q.mode = proc[p].mode
      /\ q.step = proc[p].step /\ q.next = proc[p].next /\ q.base = proc[p].base
  <2>1. "node" \in Pcs /\ proc[p].idx + 1 \in Nat \ {0}
    BY Here DEF Pcs
  <2> QED
    BY <2>1, Here DEF Process
<1> HIDE DEF q
<1>5. ProcTrue(q, ledger)
  BY <1>1, <1>2, <1>4, Here DEF ProcTrue, Working, Routed, Loading, Outside
<1>6. ~stale /\ p \in current' => Holds(q, ledger)
  BY <1>1, <1>4, Here DEF Holds
<1> QED
  BY <1>1, <1>3, <1>4, <1>5, <1>6, Here, Keeps


LEMMA CommitInvocationStep ==
    ASSUME IInv, NEW p \in Procs, CommitInvocation(p)
    PROVE  /\ Core'
           /\ ledger' \in [Steps -> Nodes \cup {None}] /\ Extends(ledger', ledger)
           /\ Node(p) \in Nodes
           /\ \A s \in Steps : ledger'[s] \in {ledger[s], Node(p)}
<1> DEFINE c == proc[p].live
           d == Committed(p)
           q == [proc[p] EXCEPT !.pc = "after", !.live = d]
           k == proc[p].step
           n == Node(p)
<1>1. /\ proc[p].pc = "commit" /\ ledger[k] \in {None, n}
      /\ Commit(p, q) /\ opView' = opView
      /\ ledger' = [ledger EXCEPT ![k] = n]
  BY Zenon DEF CommitInvocation
<1>2. /\ n \in Nodes /\ n # None /\ n = proc[p].order[proc[p].idx]
  BY <1>1, NodeHere, ChainAssumption DEF Working
<1>3. /\ k \in Steps /\ k = proc[p].next /\ c.step <= proc[p].next
  BY <1>1, Here DEF ProcTrue, Outside
<1>4. /\ c \in ChainState /\ c.step \in 0 .. MaxStep
      /\ c.done \in [Steps -> Nodes \cup {None}]
      /\ ledger \in [Steps -> Nodes \cup {None}]
  BY Here DEF ChainState, IInv, Types
<1>5. /\ d \in ChainState /\ d.step = k /\ d.done = [c.done EXCEPT ![k] = n]
      /\ d.status = c.status /\ d.pending = c.pending /\ d.revision = c.revision
  <2>1. d = [c EXCEPT !.step = k, !.done = [c.done EXCEPT ![k] = n]]
    BY <1>4 DEF Committed, ChainState
  <2>2. k \in 0 .. MaxStep /\ [c.done EXCEPT ![k] = n] \in [Steps -> Nodes \cup {None}]
    BY <1>2, <1>4, Here
  <2> HIDE DEF d, c, k, n
  <2> QED
    BY <1>4, <2>1, <2>2 DEF ChainState
<1>6. /\ q \in Process /\ q.pc = "after" /\ q.order = proc[p].order
      /\ q.live = d /\ q.idx = proc[p].idx /\ q.mode = proc[p].mode
      /\ q.step = k /\ q.next = proc[p].next /\ q.base = proc[p].base
  <2>1. "after" \in Pcs
    BY DEF Pcs
  <2> HIDE DEF d
  <2> QED
    BY <1>5, <2>1, Here DEF Process
<1> HIDE DEF d, q, c, k, n
<1>7. /\ ledger' \in [Steps -> Nodes \cup {None}] /\ ledger'[k] = n
      /\ \A s \in Steps : s # k => ledger'[s] = ledger[s]
  BY <1>1, <1>2, <1>3, <1>4
<1>8. Extends(ledger', ledger)
  BY <1>1, <1>3, <1>7 DEF Extends
<1>9. n \in Recorded(ledger')
  BY <1>2, <1>3, <1>7 DEF Recorded
<1>10. CopyTrue(d, ledger')
  <2>1. CopyTrue(c, ledger')
    BY <1>8, Here, GrowCopy DEF c
  <2>2. \A s \in Steps : d.done[s] \in {None, ledger'[s]}
    <3>1. \A s \in Steps : c.done[s] \in {None, ledger'[s]}
      BY <2>1 DEF CopyTrue
    <3> QED
      BY <1>3, <1>4, <1>5, <1>7, <3>1
  <2> QED
    BY <1>5, <2>1, <2>2 DEF CopyTrue
<1>11. ProcTrue(q, ledger')
  <2>1. ProcTrue(proc[p], ledger')
    BY <1>8, Here, GrowProc
  <2>2. d.step <= proc[p].next /\ d.status # "absent"
    <3>1. c.status # "absent"
      BY <1>1, Here DEF ProcTrue, c
    <3> QED
      BY <1>3, <1>5, <3>1 DEF Steps
  <2>3. proc[p].pc \in Working /\ proc[p].pc \notin Outside
    BY <1>1 DEF Working, Outside
  <2>4. q.pc \in Routed /\ q.pc \in Working /\ q.pc \notin Loading
    BY <1>6 DEF Working, Routed, Loading
  <2> QED
    BY <1>2, <1>6, <1>9, <2>1, <2>2, <2>3, <2>4 DEF ProcTrue, k
<1>12. ASSUME ~stale, p \in current
       PROVE  Holds(q, ledger') /\ Exact(d, ledger') /\ d.status # "completed"
  <2>1. Exact(c, ledger) /\ c.status # "completed"
    BY <1>1, <1>12, Here DEF Holds, c
  <2>2. d.done = ledger'
    BY <1>1, <1>5, <2>1 DEF Exact
  <2>3. \A s \in Steps : ledger'[s] # None => s <= d.step
    <3>1. ASSUME NEW s \in Steps, ledger'[s] # None, s # k PROVE s <= k
      <4>1. s <= c.step
        BY <1>7, <2>1, <3>1 DEF Exact
      <4> QED
        BY <1>3, <1>4, <4>1 DEF Steps
    <3>2. k <= k
      BY <1>3 DEF Steps
    <3> QED
      BY <1>5, <3>1, <3>2
  <2>4. Exact(d, ledger')
    BY <1>2, <1>5, <1>7, <2>2, <2>3 DEF Exact
  <2> QED
    BY <1>1, <1>5, <1>6, <1>12, <2>1, <2>4, Here DEF Holds, k
<1>13. d.status # "absent"
  BY <1>1, <1>5, Here DEF ProcTrue, c
<1>14. Core'
  BY <1>1, <1>6, <1>8, <1>10, <1>11, <1>12, <1>13, Writes
<1> QED
  BY <1>2, <1>7, <1>8, <1>14 DEF n

(* A write of the live state as it is, but for its status.                  *)
LEMMA StatusWrite ==
    ASSUME IInv, NEW p \in Procs, NEW q \in Process, NEW st \in Status,
           proc[p].pc \notin {"idle", "resume"}, Commit(p, q),
           opView' = opView, ledger' = ledger,
           q.live = [proc[p].live EXCEPT !.status = st], ProcTrue(q, ledger),
           st \notin {"absent", "completed"},
           st = "waiting_for_review" => ReviewNode \in Recorded(ledger),
           q.pc \notin {"idle", "commit", "failed", "ledger"}, q.mode = proc[p].mode,
           q.base = proc[p].base, q.step = proc[p].step,
           q.pc # "resume" => proc[p].pc # "ledger"
    PROVE  Core'
<1>1. /\ q.live.status = st
      /\ Exact(proc[p].live, ledger) => Exact(q.live, ledger)
      /\ CopyTrue(q.live, ledger)
  BY Here, StatusChange
<1>2. ASSUME ~stale, p \in current
      PROVE  Holds(q, ledger) /\ Exact(q.live, ledger)
  BY <1>1, <1>2, Here DEF Holds
<1>3. Extends(ledger', ledger)
  BY DEF Extends
<1> QED
  BY <1>1, <1>2, <1>3, Writes

LEMMA SemanticFailureStep ==
    ASSUME IInv, NEW p \in Procs, SemanticFailure(p)
    PROVE  Core'
<1> DEFINE q == [proc[p] EXCEPT !.pc = "route", !.live.status = "failed"]
<1>1. proc[p].pc = "after" /\ Commit(p, q) /\ opView' = opView /\ ledger' = ledger
  BY Zenon DEF SemanticFailure
<1>2. "route" \in Pcs /\ "failed" \in Status
  BY DEF Pcs, Status
<1>3. [proc[p].live EXCEPT !.status = "failed"] \in ChainState
  BY <1>2, Here, StatusChange
<1>4. /\ q \in Process /\ q.pc = "route" /\ q.order = proc[p].order
      /\ q.live = [proc[p].live EXCEPT !.status = "failed"]
      /\ q.idx = proc[p].idx /\ q.mode = proc[p].mode
      /\ q.step = proc[p].step /\ q.next = proc[p].next /\ q.base = proc[p].base
  BY <1>2, <1>3, Here DEF Process
<1>5. q.live.status = "failed" /\ q.live.step = proc[p].live.step
  BY <1>2, <1>4, Here, StatusChange
<1> HIDE DEF q
<1>6. ProcTrue(q, ledger)
  BY <1>1, <1>4, <1>5, Here DEF ProcTrue, Working, Routed, Loading, Outside
<1> QED
  BY <1>1, <1>2, <1>4, <1>6, StatusWrite

(* An iteration counted.                                                    *)
LEMMA CountedFacts ==
    ASSUME IInv, NEW p \in Procs, NEW l \in Loops, LoopRequired(p, l),
           ~Exhausted(l, proc[p].live)
    PROVE  /\ proc[p].pc \in {"after", "route"}
           /\ Counted(p, l) \in ChainState
           /\ CopyTrue(Counted(p, l), ledger)
           /\ Exact(proc[p].live, ledger) => Exact(Counted(p, l), ledger)
           /\ Counted(p, l).status = proc[p].live.status
           /\ Counted(p, l).step = proc[p].live.step
           /\ Node(p) = LoopEnd(l) /\ LoopEnd(l) \in Recorded(ledger)
<1> DEFINE c == proc[p].live
           i == [c.iter EXCEPT ![l] = @ + 1]
           d == [c EXCEPT !.iter = i]
<1>1. proc[p].pc \in {"after", "route"} /\ Node(p) = LoopEnd(l)
  BY DEF LoopRequired, Routing, LoopEndingAt
<1>2. LoopEnd(l) \in Recorded(ledger)
  BY <1>1, NodeHere, Here DEF ProcTrue, Routed, Working
<1>3. c \in ChainState /\ c.iter \in Iterations /\ MaxIterations[l] \in Nat
  BY Here, ChainAssumption DEF ChainState
<1>4. i \in Iterations
  <2>1. c.iter \in [Loops -> Nat] /\ c.iter[l] < MaxIterations[l]
    BY <1>3 DEF Iterations, Exhausted
  <2>2. i \in [Loops -> Nat] /\ \A m \in Loops : i[m] <= MaxIterations[m]
    BY <1>3, <2>1 DEF Iterations
  <2> QED
    BY <2>2 DEF Iterations
<1>5. Counted(p, l) = d
  BY <1>3 DEF Counted, ChainState
<1> HIDE DEF c, i
<1>6. /\ d \in ChainState /\ d.status = c.status /\ d.step = c.step /\ d.done = c.done
      /\ d.pending = c.pending /\ d.revision = c.revision
  BY <1>3, <1>4 DEF ChainState
<1> HIDE DEF d
<1>7. CopyTrue(d, ledger) /\ (Exact(c, ledger) => Exact(d, ledger))
  <2>1. CopyTrue(c, ledger)
    BY Here DEF c
  <2> QED
    BY <1>6, <2>1 DEF CopyTrue, Exact
<1> QED
  BY <1>1, <1>2, <1>5, <1>6, <1>7 DEF c

LEMMA PauseStep ==
    ASSUME IInv, NEW p \in Procs, NEW l \in Loops, _pause_for_budget(p, l)
    PROVE  Core'
<1> DEFINE c == Counted(p, l)
           s == [c EXCEPT !.status = "paused_for_budget", !.pending = l]
<1>1. /\ LoopRequired(p, l) /\ ~Exhausted(l, proc[p].live)
      /\ Finish(p, s) /\ opView' = opView /\ ledger' = ledger
  BY Zenon DEF _pause_for_budget
<1>2. /\ c \in ChainState /\ CopyTrue(c, ledger)
      /\ Exact(proc[p].live, ledger) => Exact(c, ledger)
      /\ LoopEnd(l) \in Recorded(ledger) /\ proc[p].pc \in {"after", "route"}
  BY <1>1, CountedFacts
<1>3. "paused_for_budget" \in Status
  BY DEF Status
<1> HIDE DEF c
<1>4. /\ s \in ChainState /\ s.status = "paused_for_budget" /\ s.step = c.step
      /\ s.done = c.done /\ s.pending = l /\ s.revision = c.revision
  BY <1>2, <1>3 DEF ChainState
<1> HIDE DEF s
<1>5. CopyTrue(s, ledger) /\ (Exact(c, ledger) => Exact(s, ledger))
  BY <1>2, <1>4 DEF CopyTrue, Exact
<1>6. ~stale /\ p \in current => Exact(s, ledger)
  BY <1>2, <1>5, Here DEF Holds
<1> QED
  BY <1>1, <1>4, <1>5, <1>6, Ends

LEMMA LoopExitStep ==
    ASSUME IInv, NEW p \in Procs, NEW l \in Loops, LoopExit(p, l)
    PROVE  Core'
<1> DEFINE c == Counted(p, l)
           q == [proc[p] EXCEPT !.pc = "exit", !.live = c]
<1>1. /\ LoopRequired(p, l) /\ ~Exhausted(l, proc[p].live)
      /\ UNCHANGED <<db, ledger, opView, stale>> /\ current' = current
  BY DEF LoopExit
<1>2. /\ c \in ChainState /\ CopyTrue(c, ledger)
      /\ Exact(proc[p].live, ledger) => Exact(c, ledger)
      /\ c.status = proc[p].live.status /\ c.step = proc[p].live.step
      /\ LoopEnd(l) \in Recorded(ledger) /\ proc[p].pc \in {"after", "route"}
      /\ Node(p) = LoopEnd(l)
  BY <1>1, CountedFacts
<1> HIDE DEF c
<1>3. proc' = [proc EXCEPT ![p] = q]
  BY Here DEF LoopExit, IInv, Types, c
<1>4. /\ q \in Process /\ q.pc = "exit" /\ q.order = proc[p].order
      /\ q.live = c /\ q.idx = proc[p].idx /\ q.mode = proc[p].mode
      /\ q.step = proc[p].step /\ q.next = proc[p].next /\ q.base = proc[p].base
  <2>1. "exit" \in Pcs
    BY DEF Pcs
  <2> QED
    BY <1>2, <2>1, Here DEF Process
<1> HIDE DEF q
<1>5. ProcTrue(q, ledger)
  BY <1>2, <1>4, Here DEF ProcTrue, Working, Routed, Loading, Outside
<1>6. ~stale /\ p \in current' => Holds(q, ledger)
  BY <1>1, <1>2, <1>4, Here DEF Holds
<1>7. db.status # "absent"
  BY <1>2, Here
<1> QED
  BY <1>1, <1>2, <1>3, <1>4, <1>5, <1>6, <1>7, Here, Keeps


LEMMA LoopBackStep ==
    ASSUME IInv, NEW p \in Procs, NEW l \in Loops, LoopBack(p, l)
    PROVE  Core'
<1> DEFINE c == Counted(p, l)
           new == rebuild_order_with_loop(proc[p].order, Node(p), LoopTarget(l))
           i == Index(new, LoopTarget(l))
           q == [proc[p] EXCEPT !.pc = "node", !.live = c, !.order = new, !.idx = i]
<1>1. /\ LoopRequired(p, l) /\ ~Exhausted(l, proc[p].live)
      /\ UNCHANGED <<db, ledger, opView, stale>> /\ current' = current
  BY DEF LoopBack
<1>2. /\ c \in ChainState /\ CopyTrue(c, ledger)
      /\ Exact(proc[p].live, ledger) => Exact(c, ledger)
      /\ c.status = proc[p].live.status /\ c.step = proc[p].live.step
      /\ proc[p].pc \in {"after", "route"}
      /\ Node(p) = LoopEnd(l)
  BY <1>1, CountedFacts
<1>3. /\ new \in Seq(Nodes) /\ Nodes \subseteq Range(new) /\ i \in 1 .. Len(new)
  <2>1. LoopTarget(l) \in Nodes /\ Node(p) \in Nodes
    BY <1>2, LoopFacts
  <2>2. proc[p].order \in Seq(Nodes) /\ Nodes \subseteq Range(proc[p].order)
    BY Here DEF ProcTrue
  <2> QED
    BY <2>1, <2>2, RebuiltOrder, Zenon
<1>4. proc' = [proc EXCEPT ![p].pc = "node", ![p].live = c, ![p].order = new, ![p].idx = i]
  BY Zenon DEF LoopBack
<1> HIDE DEF c, new, i
<1>5. proc' = [proc EXCEPT ![p] = q]
  BY <1>4, Here DEF IInv, Types
<1>6. /\ q \in Process /\ q.pc = "node" /\ q.order = new
      /\ q.live = c /\ q.idx = i /\ q.mode = proc[p].mode
      /\ q.step = proc[p].step /\ q.next = proc[p].next /\ q.base = proc[p].base
  <2>1. "node" \in Pcs /\ i \in Nat \ {0}
    BY <1>3 DEF Pcs
  <2> QED
    BY <1>2, <1>3, <2>1, Here DEF Process
<1> HIDE DEF q
<1>7. ProcTrue(q, ledger)
  <2>1. i <= Len(new) + 1
    BY <1>3
  <2> QED
    BY <1>2, <1>3, <1>6, <2>1, Here DEF ProcTrue, Working, Routed, Loading, Outside
<1>8. ~stale /\ p \in current' => Holds(q, ledger)
  BY <1>1, <1>2, <1>6, Here DEF Holds
<1>9. db.status # "absent"
  BY <1>2, Here
<1> QED
  BY <1>1, <1>2, <1>5, <1>6, <1>7, <1>8, <1>9, Here, Keeps

LEMMA AdvanceStep ==
    ASSUME IInv, NEW p \in Procs, Advance(p)
    PROVE  Core'
<1> DEFINE q == [proc[p] EXCEPT !.pc = "node", !.idx = @ + 1]
<1>1. /\ proc[p].pc \in {"after", "route", "exit"}
      /\ Commit(p, q) /\ opView' = opView /\ ledger' = ledger
  BY Zenon DEF Advance, Routing
<1>2. proc[p].idx <= Len(proc[p].order)
  BY <1>1, Here DEF ProcTrue, Working
<1>3. /\ q \in Process /\ q.pc = "node" /\ q.order = proc[p].order
      /\ q.live = proc[p].live /\ q.idx = proc[p].idx + 1 /\ q.mode = proc[p].mode
      /\ q.step = proc[p].step /\ q.next = proc[p].next /\ q.base = proc[p].base
  <2>1. "node" \in Pcs /\ proc[p].idx + 1 \in Nat \ {0}
    BY Here DEF Pcs
  <2> QED
    BY <2>1, Here DEF Process
<1> HIDE DEF q
<1>4. ProcTrue(q, ledger)
  BY <1>1, <1>2, <1>3, Here DEF ProcTrue, Working, Routed, Loading, Outside
<1>5. ~stale /\ p \in current =>
         Holds(q, ledger) /\ Exact(q.live, ledger) /\ q.live.status # "completed"
  BY <1>1, <1>3, Here DEF Holds
<1>6. Extends(ledger', ledger) /\ q.live.status # "absent"
  BY <1>1, <1>3, Here DEF Extends, ProcTrue
<1> QED
  BY <1>1, <1>3, <1>4, <1>5, <1>6, Here, Writes

LEMMA CompleteStep ==
    ASSUME IInv, NEW p \in Procs, Complete(p)
    PROVE  Core'
<1> DEFINE s == [proc[p].live EXCEPT !.status = "completed"]
<1>1. /\ proc[p].pc = "node" /\ Finish(p, s) /\ opView' = opView /\ ledger' = ledger
  BY Zenon DEF Complete
<1>2. "completed" \in Status
  BY DEF Status
<1>3. /\ s \in ChainState /\ s.status = "completed"
      /\ Exact(proc[p].live, ledger) => Exact(s, ledger)
      /\ CopyTrue(s, ledger)
  BY <1>2, Here, StatusChange
<1>4. ~stale /\ p \in current => Exact(s, ledger)
  BY <1>1, <1>3, Here DEF Holds
<1> HIDE DEF s
<1> QED
  BY <1>1, <1>3, <1>4, Ends

-----------------------------------------------------------------------------
(* The review, and the end of a process that writes nothing.                *)

LEMMA RequestReviewStep ==
    ASSUME IInv, NEW p \in Procs, RequestReview(p)
    PROVE  Core'
<1> DEFINE q == [proc[p] EXCEPT !.pc = "review", !.live.status = "waiting_for_review"]
<1>1. /\ proc[p].pc \in {"after", "route", "exit"} /\ Node(p) = ReviewNode
      /\ Commit(p, q) /\ opView' = opView /\ ledger' = ledger
  BY Zenon DEF RequestReview, Routing
<1>2. "review" \in Pcs /\ "waiting_for_review" \in Status
  BY DEF Pcs, Status
<1>3. [proc[p].live EXCEPT !.status = "waiting_for_review"] \in ChainState
  BY <1>2, Here, StatusChange
<1>4. /\ q \in Process /\ q.pc = "review" /\ q.order = proc[p].order
      /\ q.live = [proc[p].live EXCEPT !.status = "waiting_for_review"]
      /\ q.idx = proc[p].idx /\ q.mode = proc[p].mode
      /\ q.step = proc[p].step /\ q.next = proc[p].next /\ q.base = proc[p].base
  BY <1>2, <1>3, Here DEF Process
<1>5. q.live.status = "waiting_for_review" /\ q.live.step = proc[p].live.step
  BY <1>2, <1>4, Here, StatusChange
<1> HIDE DEF q
<1>6. /\ proc[p].order[proc[p].idx] = ReviewNode /\ ReviewNode \in Recorded(ledger)
  BY <1>1, Here DEF ProcTrue, Routed, Node
<1>7. ProcTrue(q, ledger)
  BY <1>1, <1>4, <1>5, <1>6, Here DEF ProcTrue, Working, Routed, Loading, Outside
<1> QED
  BY <1>1, <1>2, <1>4, <1>6, <1>7, StatusWrite

LEMMA ReviewApprovedStep ==
    ASSUME IInv, NEW p \in Procs, ReviewApproved(p)
    PROVE  Core'
<1> DEFINE q == [proc[p] EXCEPT !.pc = "node", !.idx = @ + 1, !.live.status = "running"]
<1>1. /\ proc[p].pc = "review"
      /\ Commit(p, q) /\ opView' = opView /\ ledger' = ledger
  BY Zenon DEF ReviewApproved
<1>2. "node" \in Pcs /\ "running" \in Status /\ proc[p].idx + 1 \in Nat \ {0}
  BY Here DEF Pcs, Status
<1>3. [proc[p].live EXCEPT !.status = "running"] \in ChainState
  BY <1>2, Here, StatusChange
<1>4. /\ q \in Process /\ q.pc = "node" /\ q.order = proc[p].order
      /\ q.live = [proc[p].live EXCEPT !.status = "running"]
      /\ q.idx = proc[p].idx + 1 /\ q.mode = proc[p].mode
      /\ q.step = proc[p].step /\ q.next = proc[p].next /\ q.base = proc[p].base
  BY <1>2, <1>3, Here DEF Process
<1>5. q.live.status = "running" /\ q.live.step = proc[p].live.step
  BY <1>2, <1>4, Here, StatusChange
<1> HIDE DEF q
<1>6. proc[p].idx <= Len(proc[p].order)
  BY <1>1, Here DEF ProcTrue, Working
<1>7. ProcTrue(q, ledger)
  <2>1. q.idx <= Len(q.order) + 1
    BY <1>4, <1>6, Here
  <2> QED
    BY <1>1, <1>4, <1>5, <2>1, Here DEF ProcTrue, Working, Routed, Loading, Outside
<1> QED
  BY <1>1, <1>2, <1>4, <1>7, StatusWrite

LEMMA ReviewRevisedStep ==
    ASSUME IInv, NEW p \in Procs, ReviewRevised(p)
    PROVE  Core'
<1> DEFINE new == rebuild_order_with_loop(proc[p].order, Node(p), RevisionTarget)
           i == Index(new, RevisionTarget)
           q == [proc[p] EXCEPT !.pc = "node", !.order = new, !.idx = i,
                                !.live.status = "running"]
<1>1. /\ proc[p].pc = "review"
      /\ Commit(p, q) /\ opView' = opView /\ ledger' = ledger
  BY Zenon DEF ReviewRevised
<1>2. /\ new \in Seq(Nodes) /\ Nodes \subseteq Range(new) /\ i \in 1 .. Len(new)
  <2>1. RevisionTarget \in Nodes /\ Node(p) \in Nodes
    BY <1>1, NodeHere, ChainAssumption DEF Working
  <2>2. proc[p].order \in Seq(Nodes) /\ Nodes \subseteq Range(proc[p].order)
    BY Here DEF ProcTrue
  <2> QED
    BY <2>1, <2>2, RebuiltOrder, Zenon
<1> HIDE DEF new, i
<1>3. "node" \in Pcs /\ "running" \in Status /\ i \in Nat \ {0} /\ i <= Len(new) + 1
  BY <1>2 DEF Pcs, Status
<1>4. [proc[p].live EXCEPT !.status = "running"] \in ChainState
  BY <1>3, Here, StatusChange
<1>5. /\ q \in Process /\ q.pc = "node" /\ q.order = new
      /\ q.live = [proc[p].live EXCEPT !.status = "running"]
      /\ q.idx = i /\ q.mode = proc[p].mode
      /\ q.step = proc[p].step /\ q.next = proc[p].next /\ q.base = proc[p].base
  BY <1>2, <1>3, <1>4, Here DEF Process
<1>6. q.live.status = "running" /\ q.live.step = proc[p].live.step
  BY <1>3, <1>5, Here, StatusChange
<1> HIDE DEF q
<1>7. ProcTrue(q, ledger)
  BY <1>1, <1>2, <1>3, <1>5, <1>6, Here DEF ProcTrue, Working, Routed, Loading, Outside
<1> QED
  BY <1>1, <1>3, <1>5, <1>7, StatusWrite

(* A crash, or a pause for review.                                          *)
LEMMA DiesStep ==
    ASSUME IInv, NEW p \in Procs, proc[p].pc # "idle",
           proc' = [proc EXCEPT ![p] = Dead], current' = current \ {p},
           UNCHANGED <<db, ledger, opView, stale>>
    PROVE  Core'
<1>1. Dead.live = Fresh
  BY DEF Dead
<1> QED
  BY <1>1, DeadFacts, Here, Keeps


-----------------------------------------------------------------------------
(* The start of a run, and resume.                                          *)

LEMMA StartRunStep ==
    ASSUME IInv, NEW p \in Procs, StartRun(p)
    PROVE  Core'
<1> DEFINE d == [Fresh EXCEPT !.status = "running"]
           q == [Dead EXCEPT !.pc = "node", !.live = d]
<1>1. /\ db.status = "absent" /\ db' = d /\ proc' = [proc EXCEPT ![p] = q]
      /\ current' = {p} /\ UNCHANGED <<ledger, opView, stale>>
  BY DEF StartRun
<1>2. "running" \in Status /\ "node" \in Pcs
  BY DEF Status, Pcs
<1>3. ledger = NoSteps /\ \A r \in Procs : proc[r].pc = "idle"
  BY <1>1 DEF IInv, Placed
<1>4. /\ d \in ChainState /\ d.status = "running" /\ d.step = 0 /\ d.done = NoSteps
      /\ CopyTrue(d, ledger)
  <2>1. Fresh.step = 0 /\ Fresh.done = NoSteps
    BY DEF Fresh
  <2> QED
    BY <1>2, <2>1, DeadFacts, StatusChange
<1> HIDE DEF d
<1>5. /\ q \in Process /\ q.pc = "node" /\ q.order = Order /\ q.live = d /\ q.idx = 1
      /\ q.mode = "run" /\ q.step = 0 /\ q.next = 0 /\ q.base = NoSteps
  <2>1. /\ Dead.order = Order /\ Dead.idx = 1 /\ Dead.mode = "run"
        /\ Dead.step = 0 /\ Dead.next = 0 /\ Dead.base = NoSteps
    BY DEF Dead
  <2> QED
    BY <1>2, <1>4, <2>1, DeadFacts DEF Process
<1> HIDE DEF q
<1>6. ProcTrue(q, ledger)
  <2>1. 1 <= Len(Order) + 1 /\ Nodes \subseteq Range(Order)
    BY OrderType
  <2>2. \A s \in Steps : NoSteps[s] = None
    BY DEF NoSteps
  <2> QED
    BY <1>4, <1>5, <2>1, <2>2 DEF ProcTrue, Working, Routed, Loading, Outside
<1>7. Exact(d, ledger)
  BY <1>3, <1>4 DEF Exact, NoSteps
<1>8. Holds(q, ledger)
  BY <1>4, <1>5, <1>7 DEF Holds
<1>9. Copies' /\ Placed'
  <2>1. Extends(ledger', ledger)
    BY <1>1 DEF Extends
  <2> QED
    BY <1>1, <1>4, <1>5, <1>6, <2>1, Going
<1>10. proc' \in [Procs -> Process] /\ proc'[p] = q
  BY <1>1, <1>5, Others DEF IInv, Types
<1>11. Operator # p
  BY ChainAssumption
<1>12. Latest'
  BY <1>1, <1>4, <1>7, <1>8, <1>10, <1>11 DEF Latest
<1> QED
  BY <1>1, <1>4, <1>9, <1>10, <1>12 DEF Core

LEMMA ResumeStep ==
    ASSUME IInv, NEW p \in Procs, Resume(p)
    PROVE  Core'
<1> DEFINE q == [proc[p] EXCEPT !.pc = "resume"]
<1>1. /\ proc[p].pc = "idle" /\ db.status \notin {"absent", "completed"}
      /\ UNCHANGED <<db, ledger, opView, stale>> /\ current' = current \cup {p}
  BY DEF Resume, Born, Resumable
<1>2. proc' = [proc EXCEPT ![p] = q]
  BY Here DEF Resume, IInv, Types
<1>3. /\ q \in Process /\ q.pc = "resume" /\ q.order = proc[p].order
      /\ q.live = proc[p].live /\ q.idx = proc[p].idx /\ q.mode = proc[p].mode
      /\ q.step = proc[p].step /\ q.next = proc[p].next /\ q.base = proc[p].base
  <2>1. "resume" \in Pcs
    BY DEF Pcs
  <2> QED
    BY <2>1, Here DEF Process
<1> HIDE DEF q
<1>4. ProcTrue(q, ledger)
  BY <1>1, <1>3, Here DEF ProcTrue, Working, Routed, Loading, Outside
<1>5. Holds(q, ledger)
  BY <1>3 DEF Holds
<1> QED
  BY <1>1, <1>2, <1>3, <1>4, <1>5, Here, Keeps

(* The row, loaded.                                                         *)
LEMMA RowFacts ==
    ASSUME IInv
    PROVE  /\ db \in ChainState /\ CopyTrue(db, ledger) /\ db.step \in 0 .. MaxStep
           /\ ~stale => Exact(db, ledger)
BY DEF IInv, Types, Copies, Latest, ChainState

LEMMA LoadStateStep ==
    ASSUME IInv, NEW p \in Procs, LoadState(p)
    PROVE  Core'
<1> DEFINE q == [Dead EXCEPT !.pc = "ledger", !.mode = "resume", !.live = db,
                             !.step = db.step, !.next = db.step]
<1>1. /\ proc[p].pc = "resume" /\ proc' = [proc EXCEPT ![p] = q]
      /\ UNCHANGED <<db, ledger, opView, stale>> /\ current' = current
  BY Zenon DEF LoadState
<1>2. /\ q \in Process /\ q.pc = "ledger" /\ q.order = Order
      /\ q.live = db /\ q.idx = 1 /\ q.mode = "resume"
      /\ q.step = db.step /\ q.next = db.step /\ q.base = NoSteps
  <2>1. "ledger" \in Pcs
    BY DEF Pcs
  <2>2. /\ Dead.order = Order /\ Dead.idx = 1 /\ Dead.base = NoSteps
    BY DEF Dead
  <2> QED
    BY <2>1, <2>2, DeadFacts, RowFacts DEF Process
<1> HIDE DEF q
<1>3. db.status # "absent" /\ (p \in current /\ ~stale => db.status # "completed")
  BY <1>1, Here
<1>4. ProcTrue(q, ledger)
  <2>1. 1 <= Len(Order) + 1 /\ Nodes \subseteq Range(Order)
    BY OrderType
  <2>2. \A s \in Steps : NoSteps[s] = None
    BY DEF NoSteps
  <2>3. db.step <= db.step
    BY RowFacts
  <2> QED
    BY <1>2, <1>3, <2>1, <2>2, <2>3 DEF ProcTrue, Working, Routed, Loading, Outside
<1>5. ~stale /\ p \in current' => Holds(q, ledger)
  BY <1>1, <1>2, <1>3, RowFacts DEF Holds
<1> QED
  BY <1>1, <1>2, <1>3, <1>4, <1>5, RowFacts, Keeps

LEMMA ReadLedgerStep ==
    ASSUME IInv, NEW p \in Procs, ReadLedger(p)
    PROVE  Core'
<1> DEFINE q == [proc[p] EXCEPT !.pc = "loaded", !.base = ledger]
<1>1. /\ proc[p].pc = "ledger"
      /\ UNCHANGED <<db, ledger, opView, stale>> /\ current' = current
  BY DEF ReadLedger
<1>2. proc' = [proc EXCEPT ![p] = q]
  BY Here DEF ReadLedger, IInv, Types
<1>3. /\ q \in Process /\ q.pc = "loaded" /\ q.order = proc[p].order
      /\ q.live = proc[p].live /\ q.idx = proc[p].idx /\ q.mode = proc[p].mode
      /\ q.step = proc[p].step /\ q.next = proc[p].next /\ q.base = ledger
  <2>1. "loaded" \in Pcs /\ ledger \in [Steps -> Nodes \cup {None}]
    BY DEF Pcs, IInv, Types
  <2> QED
    BY <2>1, Here DEF Process
<1> HIDE DEF q
<1>4. ProcTrue(q, ledger)
  BY <1>1, <1>3, Here DEF ProcTrue, Working, Routed, Loading, Outside
<1>5. ASSUME ~stale, p \in current' PROVE Holds(q, ledger)
  <2>1. Exact(proc[p].live, ledger) /\ proc[p].live.status # "completed"
    BY <1>1, <1>5, Here DEF Holds
  <2>2. proc[p].step = proc[p].live.step
    BY <1>1, Here DEF ProcTrue, Loading
  <2> QED
    BY <1>3, <2>1, <2>2 DEF Holds, Exact
<1>6. db.status # "absent"
  BY <1>1, Here
<1> QED
  BY <1>1, <1>2, <1>3, <1>4, <1>5, <1>6, Here, Keeps

LEMMA ResumeCheckpointStep ==
    ASSUME IInv, NEW p \in Procs, ResumeCheckpoint(p)
    PROVE  Core'
<1> DEFINE x == IF proc[p].live.status = "waiting_for_review"
                THEN "resume_review" ELSE "cursor"
           q == [proc[p] EXCEPT !.pc = x]
<1>1. proc[p].pc = "loaded" /\ Commit(p, q) /\ opView' = opView /\ ledger' = ledger
  BY Zenon DEF ResumeCheckpoint
<1>2. /\ x \in Pcs /\ x \in {"resume_review", "cursor"}
      /\ x = "resume_review" => proc[p].live.status = "waiting_for_review"
  BY DEF Pcs
<1> HIDE DEF x
<1>3. /\ q \in Process /\ q.pc = x /\ q.order = proc[p].order
      /\ q.live = proc[p].live /\ q.idx = proc[p].idx /\ q.mode = proc[p].mode
      /\ q.step = proc[p].step /\ q.next = proc[p].next /\ q.base = proc[p].base
  BY <1>2, Here DEF Process
<1> HIDE DEF q
<1>4. x = "resume_review" => ReviewNode \in Recorded(ledger)
  BY <1>2, Here DEF CopyTrue
<1>5. ProcTrue(q, ledger)
  BY <1>1, <1>2, <1>3, <1>4, Here DEF ProcTrue, Working, Routed, Loading, Outside
<1>6. ~stale /\ p \in current =>
         Holds(q, ledger) /\ Exact(q.live, ledger) /\ q.live.status # "completed"
  BY <1>1, <1>2, <1>3, Here DEF Holds
<1>7. Extends(ledger', ledger) /\ q.live.status # "absent"
  BY <1>1, <1>3, Here DEF Extends, ProcTrue
<1> QED
  BY <1>1, <1>3, <1>5, <1>6, <1>7, Here, Writes

LEMMA ResumeApprovedStep ==
    ASSUME IInv, NEW p \in Procs, ResumeApproved(p)
    PROVE  Core'
<1> DEFINE q == [proc[p] EXCEPT !.pc = "cursor", !.live.status = "running"]
<1>1. /\ proc[p].pc = "resume_review"
      /\ Commit(p, q) /\ opView' = opView /\ ledger' = ledger
  BY Zenon DEF ResumeApproved
<1>2. "cursor" \in Pcs /\ "running" \in Status
  BY DEF Pcs, Status
<1>3. [proc[p].live EXCEPT !.status = "running"] \in ChainState
  BY <1>2, Here, StatusChange
<1>4. /\ q \in Process /\ q.pc = "cursor" /\ q.order = proc[p].order
      /\ q.live = [proc[p].live EXCEPT !.status = "running"]
      /\ q.idx = proc[p].idx /\ q.mode = proc[p].mode
      /\ q.step = proc[p].step /\ q.next = proc[p].next /\ q.base = proc[p].base
  BY <1>2, <1>3, Here DEF Process
<1>5. q.live.status = "running" /\ q.live.step = proc[p].live.step
  BY <1>2, <1>4, Here, StatusChange
<1> HIDE DEF q
<1>6. ProcTrue(q, ledger)
  BY <1>1, <1>4, <1>5, Here DEF ProcTrue, Working, Routed, Loading, Outside
<1> QED
  BY <1>1, <1>2, <1>4, <1>6, StatusWrite


LEMMA ResumeRevisedStep ==
    ASSUME IInv, NEW p \in Procs, ResumeRevised(p)
    PROVE  Core'
<1> DEFINE c == proc[p].live
           d == [c EXCEPT !.status = "running", !.revision = RevisionTarget]
           q == [proc[p] EXCEPT !.pc = "cursor", !.live = d]
<1>1. /\ proc[p].pc = "resume_review"
      /\ Commit(p, [proc[p] EXCEPT !.pc = "cursor", !.live.status = "running",
                                   !.live.revision = RevisionTarget])
      /\ opView' = opView /\ ledger' = ledger
  BY Zenon DEF ResumeRevised
<1>2. [proc[p] EXCEPT !.pc = "cursor", !.live.status = "running",
                      !.live.revision = RevisionTarget] = q
  BY Here DEF Process, ChainState
<1>3. "cursor" \in Pcs /\ "running" \in Status /\ RevisionTarget \in Nodes
  BY ChainAssumption DEF Pcs, Status
<1>4. /\ d \in ChainState /\ d.status = "running" /\ d.step = c.step /\ d.done = c.done
      /\ d.pending = c.pending /\ d.revision = RevisionTarget
  BY <1>3, Here DEF ChainState
<1> HIDE DEF d
<1>5. /\ q \in Process /\ q.pc = "cursor" /\ q.order = proc[p].order
      /\ q.live = d /\ q.idx = proc[p].idx /\ q.mode = proc[p].mode
      /\ q.step = proc[p].step /\ q.next = proc[p].next /\ q.base = proc[p].base
  BY <1>3, <1>4, Here DEF Process
<1> HIDE DEF q
<1>6. ReviewNode \in Recorded(ledger)
  BY <1>1, Here DEF ProcTrue
<1>7. CopyTrue(d, ledger) /\ (Exact(c, ledger) => Exact(d, ledger))
  <2>1. CopyTrue(c, ledger)
    BY Here
  <2> QED
    BY <1>4, <1>6, <2>1 DEF CopyTrue, Exact
<1>8. ProcTrue(q, ledger)
  BY <1>1, <1>4, <1>5, Here DEF ProcTrue, Working, Routed, Loading, Outside
<1>9. ~stale /\ p \in current =>
         Holds(q, ledger) /\ Exact(q.live, ledger) /\ q.live.status # "completed"
  BY <1>1, <1>4, <1>5, <1>7, Here DEF Holds
<1>10. Extends(ledger', ledger)
  BY <1>1 DEF Extends
<1> QED
  BY <1>1, <1>2, <1>4, <1>5, <1>7, <1>8, <1>9, <1>10, Writes

LEMMA StartIndexIs ==
    ASSUME IInv, NEW p \in Procs
    PROVE  StartIndex(p) \in 1 .. Len(Order) + 1
<1>1. proc[p].base \in [Steps -> Nodes \cup {None}]
  BY Here DEF Process
<1>2. ASSUME LastNode(p) # None PROVE LastNode(p) \in Nodes
  <2>1. proc[p].step \in Steps /\ LastNode(p) = proc[p].base[proc[p].step]
    BY <1>2, Here DEF LastNode, Steps
  <2> QED
    BY <1>1, <1>2, <2>1
<1>3. LastNode(p) # None => Index(Order, LastNode(p)) + 1 \in 1 .. Len(Order) + 1
  BY <1>2, OrderType
<1>4. 1 \in 1 .. Len(Order) + 1
  BY OrderType
<1> QED
  BY <1>3, <1>4 DEF StartIndex

LEMMA ResumeCursorStep ==
    ASSUME IInv, NEW p \in Procs, ResumeCursor(p)
    PROVE  Core'
<1> DEFINE c == proc[p].live
           target == c.revision
<1>1. proc[p].pc = "cursor" /\ opView' = opView /\ ledger' = ledger
  BY DEF ResumeCursor
<1>2. proc[p].order = Order /\ c.status # "absent" /\ c.step <= proc[p].next
  BY <1>1, Here DEF ProcTrue, Loading, Outside
<1>3. "pending" \in Pcs /\ Len(Order) \in Nat /\ Nodes \subseteq Range(Order)
  BY OrderType DEF Pcs
<1>4. CASE target = None
  <2> DEFINE q == [proc[p] EXCEPT !.pc = "pending", !.idx = StartIndex(p)]
  <2>1. /\ proc' = [proc EXCEPT ![p].pc = "pending", ![p].idx = StartIndex(p)]
        /\ UNCHANGED <<db, current, stale>>
    BY <1>4 DEF ResumeCursor
  <2>2. proc' = [proc EXCEPT ![p] = q]
    BY <2>1, Here DEF IInv, Types
  <2>3. StartIndex(p) \in Nat \ {0} /\ StartIndex(p) <= Len(Order) + 1
    BY <1>3, StartIndexIs
  <2>4. /\ q \in Process /\ q.pc = "pending" /\ q.order = Order
        /\ q.live = c /\ q.idx = StartIndex(p) /\ q.mode = proc[p].mode
        /\ q.step = proc[p].step /\ q.next = proc[p].next /\ q.base = proc[p].base
    BY <1>2, <1>3, <2>3, Here DEF Process
  <2> HIDE DEF q
  <2>5. ProcTrue(q, ledger)
    BY <1>2, <1>3, <2>3, <2>4, Here DEF ProcTrue, Working, Routed, Loading, Outside
  <2>6. ~stale /\ p \in current' => Holds(q, ledger)
    BY <1>1, <2>1, <2>4, Here DEF Holds
  <2>7. db.status # "absent"
    BY <1>1, Here
  <2> QED
    BY <1>1, <2>1, <2>2, <2>4, <2>5, <2>6, <2>7, Here, Keeps
<1>5. CASE target # None
  <2> DEFINE new == rebuild_order_with_loop(Order, ReviewNode, target)
             i == Index(new, target)
             d == [c EXCEPT !.revision = None]
             q == [proc[p] EXCEPT !.pc = "pending", !.order = new, !.idx = i, !.live = d]
  <2>1. Commit(p, [proc[p] EXCEPT !.pc = "pending", !.order = new, !.idx = i,
                                  !.live.revision = None])
    BY <1>5, Zenon DEF ResumeCursor
  <2>2. /\ new \in Seq(Nodes) /\ Nodes \subseteq Range(new) /\ i \in 1 .. Len(new)
    <3>1. target \in Nodes
      BY <1>5, Here DEF ChainState
    <3>2. ReviewNode \in Nodes
      BY <1>5, Here DEF CopyTrue, Recorded
    <3>3. Order \in Seq(Nodes)
      BY OrderType
    <3> QED
      BY <1>3, <3>1, <3>2, <3>3, RebuiltOrder, Zenon
  <2> HIDE DEF new, i
  <2>3. [proc[p] EXCEPT !.pc = "pending", !.order = new, !.idx = i,
                        !.live.revision = None] = q
    BY Here DEF Process, ChainState
  <2>4. /\ d \in ChainState /\ d.status = c.status /\ d.step = c.step
        /\ d.done = c.done /\ d.pending = c.pending /\ d.revision = None
    BY Here DEF ChainState
  <2> HIDE DEF d
  <2>5. i \in Nat \ {0} /\ i <= Len(new) + 1
    BY <2>2
  <2>6. /\ q \in Process /\ q.pc = "pending" /\ q.order = new
        /\ q.live = d /\ q.idx = i /\ q.mode = proc[p].mode
        /\ q.step = proc[p].step /\ q.next = proc[p].next /\ q.base = proc[p].base
    BY <1>3, <2>2, <2>4, <2>5, Here DEF Process
  <2> HIDE DEF q
  <2>7. CopyTrue(d, ledger) /\ (Exact(c, ledger) => Exact(d, ledger))
    <3>1. CopyTrue(c, ledger)
      BY Here
    <3> QED
      BY <2>4, <3>1 DEF CopyTrue, Exact
  <2>8. ProcTrue(q, ledger)
    BY <1>2, <2>2, <2>4, <2>5, <2>6, Here DEF ProcTrue, Working, Routed, Loading, Outside
  <2>9. ~stale /\ p \in current =>
           Holds(q, ledger) /\ Exact(q.live, ledger) /\ q.live.status # "completed"
    BY <1>1, <2>4, <2>6, <2>7, Here DEF Holds
  <2>10. Extends(ledger', ledger)
    BY <1>1 DEF Extends
  <2> QED
    BY <1>1, <1>2, <2>1, <2>3, <2>4, <2>6, <2>7, <2>8, <2>9, <2>10, Writes
<1> QED
  BY <1>4, <1>5

LEMMA ResumePendingLoopStep ==
    ASSUME IInv, NEW p \in Procs, ResumePendingLoop(p)
    PROVE  Core'
<1> DEFINE c == proc[p].live
           l == c.pending
<1>1. proc[p].pc = "pending" /\ opView' = opView /\ ledger' = ledger
  BY DEF ResumePendingLoop
<1>2. c.status # "absent" /\ c.step <= proc[p].next
  BY <1>1, Here DEF ProcTrue, Outside
<1>3. "node" \in Pcs
  BY DEF Pcs
<1>4. CASE l = None
  <2> DEFINE q == [proc[p] EXCEPT !.pc = "node"]
  <2>1. /\ proc' = [proc EXCEPT ![p].pc = "node"]
        /\ UNCHANGED <<db, current, stale>>
    BY <1>4 DEF ResumePendingLoop
  <2>2. proc' = [proc EXCEPT ![p] = q]
    BY <2>1, Here DEF IInv, Types
  <2>3. /\ q \in Process /\ q.pc = "node" /\ q.order = proc[p].order
        /\ q.live = c /\ q.idx = proc[p].idx /\ q.mode = proc[p].mode
        /\ q.step = proc[p].step /\ q.next = proc[p].next /\ q.base = proc[p].base
    BY <1>3, Here DEF Process
  <2> HIDE DEF q
  <2>4. ProcTrue(q, ledger)
    BY <1>2, <2>3, Here DEF ProcTrue, Working, Routed, Loading, Outside
  <2>5. ~stale /\ p \in current' => Holds(q, ledger)
    BY <1>1, <2>1, <2>3, Here DEF Holds
  <2>6. db.status # "absent"
    BY <1>1, Here
  <2> QED
    BY <1>1, <2>1, <2>2, <2>3, <2>4, <2>5, <2>6, Here, Keeps
<1>5. CASE l # None
  <2> DEFINE new == rebuild_order_with_loop(proc[p].order, LoopEnd(l), LoopTarget(l))
             i == Index(new, LoopTarget(l))
             d == [c EXCEPT !.pending = None]
             q == [proc[p] EXCEPT !.pc = "node", !.order = new, !.idx = i, !.live = d]
  <2>1. Commit(p, [proc[p] EXCEPT !.pc = "node", !.order = new, !.idx = i,
                                  !.live.pending = None])
    BY <1>5, Zenon DEF ResumePendingLoop
  <2>2. /\ new \in Seq(Nodes) /\ Nodes \subseteq Range(new) /\ i \in 1 .. Len(new)
    <3>1. l \in Loops
      BY <1>5, Here DEF ChainState
    <3>2. LoopEnd(l) \in Nodes /\ LoopTarget(l) \in Nodes
      BY <3>1, LoopFacts
    <3>3. proc[p].order \in Seq(Nodes) /\ Nodes \subseteq Range(proc[p].order)
      BY Here DEF ProcTrue
    <3> QED
      BY <3>2, <3>3, RebuiltOrder, Zenon
  <2> HIDE DEF new, i
  <2>3. [proc[p] EXCEPT !.pc = "node", !.order = new, !.idx = i,
                        !.live.pending = None] = q
    BY Here DEF Process, ChainState
  <2>4. /\ d \in ChainState /\ d.status = c.status /\ d.step = c.step
        /\ d.done = c.done /\ d.pending = None /\ d.revision = c.revision
    BY Here DEF ChainState
  <2> HIDE DEF d
  <2>5. i \in Nat \ {0} /\ i <= Len(new) + 1
    BY <2>2
  <2>6. /\ q \in Process /\ q.pc = "node" /\ q.order = new
        /\ q.live = d /\ q.idx = i /\ q.mode = proc[p].mode
        /\ q.step = proc[p].step /\ q.next = proc[p].next /\ q.base = proc[p].base
    BY <1>3, <2>2, <2>4, <2>5, Here DEF Process
  <2> HIDE DEF q
  <2>7. CopyTrue(d, ledger) /\ (Exact(c, ledger) => Exact(d, ledger))
    <3>1. CopyTrue(c, ledger)
      BY Here
    <3> QED
      BY <2>4, <3>1 DEF CopyTrue, Exact
  <2>8. ProcTrue(q, ledger)
    BY <1>2, <2>2, <2>4, <2>5, <2>6, Here DEF ProcTrue, Working, Routed, Loading, Outside
  <2>9. ~stale /\ p \in current =>
           Holds(q, ledger) /\ Exact(q.live, ledger) /\ q.live.status # "completed"
    BY <1>1, <2>4, <2>6, <2>7, Here DEF Holds
  <2>10. Extends(ledger', ledger)
    BY <1>1 DEF Extends
  <2> QED
    BY <1>1, <1>2, <2>1, <2>3, <2>4, <2>6, <2>7, <2>8, <2>9, <2>10, Writes
<1> QED
  BY <1>4, <1>5


-----------------------------------------------------------------------------
(* The operators.                                                           *)

LEMMA ApproveBudgetStep ==
    ASSUME IInv, NEW p \in Procs, ApproveBudget(p)
    PROVE  Core'
<1> DEFINE q == [Dead EXCEPT !.pc = "approve", !.live = db]
<1>1. /\ db.status = "paused_for_budget" /\ proc' = [proc EXCEPT ![p] = q]
      /\ UNCHANGED <<db, ledger, opView, stale>> /\ current' = current \cup {p}
  BY Zenon DEF ApproveBudget
<1>2. /\ q \in Process /\ q.pc = "approve" /\ q.order = Order
      /\ q.live = db /\ q.idx = 1 /\ q.mode = "run"
      /\ q.step = 0 /\ q.next = 0 /\ q.base = NoSteps
  <2>1. "approve" \in Pcs
    BY DEF Pcs
  <2>2. /\ Dead.order = Order /\ Dead.idx = 1 /\ Dead.base = NoSteps
        /\ Dead.mode = "run" /\ Dead.step = 0 /\ Dead.next = 0
    BY DEF Dead
  <2> QED
    BY <2>1, <2>2, DeadFacts, RowFacts DEF Process
<1> HIDE DEF q
<1>3. ProcTrue(q, ledger)
  <2>1. 1 <= Len(Order) + 1 /\ Nodes \subseteq Range(Order)
    BY OrderType
  <2>2. \A s \in Steps : NoSteps[s] = None
    BY DEF NoSteps
  <2> QED
    BY <1>1, <1>2, <2>1, <2>2 DEF ProcTrue, Working, Routed, Loading, Outside
<1>4. ~stale /\ p \in current' => Holds(q, ledger)
  BY <1>1, <1>2, RowFacts DEF Holds
<1> QED
  BY <1>1, <1>2, <1>3, <1>4, RowFacts, Keeps

LEMMA BudgetApprovedStep ==
    ASSUME IInv, NEW p \in Procs, BudgetApproved(p)
    PROVE  Core'
<1> DEFINE q == [proc[p] EXCEPT !.pc = "resume", !.live.status = "running"]
<1>1. /\ proc[p].pc = "approve"
      /\ Commit(p, q) /\ opView' = opView /\ ledger' = ledger
  BY Zenon DEF BudgetApproved
<1>2. "resume" \in Pcs /\ "running" \in Status
  BY DEF Pcs, Status
<1>3. [proc[p].live EXCEPT !.status = "running"] \in ChainState
  BY <1>2, Here, StatusChange
<1>4. /\ q \in Process /\ q.pc = "resume" /\ q.order = proc[p].order
      /\ q.live = [proc[p].live EXCEPT !.status = "running"]
      /\ q.idx = proc[p].idx /\ q.mode = proc[p].mode
      /\ q.step = proc[p].step /\ q.next = proc[p].next /\ q.base = proc[p].base
  BY <1>2, <1>3, Here DEF Process
<1> HIDE DEF q
<1>5. ProcTrue(q, ledger)
  BY <1>1, <1>4, Here DEF ProcTrue, Working, Routed, Loading, Outside
<1> QED
  BY <1>1, <1>2, <1>4, <1>5, StatusWrite

LEMMA OperatorLoadStep ==
    ASSUME IInv, OperatorLoad
    PROVE  Core' /\ opView' \in ChainState \cup {None}
<1>1. /\ db.status \notin {"absent", "completed"} /\ opView' = db
      /\ current' = current \cup {Operator} /\ UNCHANGED <<db, ledger, proc, stale>>
  BY DEF OperatorLoad
<1>2. Copies'
  BY <1>1 DEF IInv, Copies
<1>3. Placed'
  BY <1>1 DEF IInv, Placed
<1>4. ASSUME ~stale PROVE
         /\ Exact(db', ledger')
         /\ db'.status = "completed" => current' = {}
         /\ \A r \in current' \cap Procs : Holds(proc'[r], ledger')
         /\ Operator \in current' => Exact(opView', ledger')
  <2>1. /\ Exact(db, ledger)
        /\ \A r \in current \cap Procs : Holds(proc[r], ledger)
    BY <1>4 DEF IInv, Latest
  <2>2. Operator \notin Procs
    BY ChainAssumption
  <2> QED
    BY <1>1, <2>1, <2>2
<1>5. Latest'
  BY <1>1, <1>4 DEF Latest
<1> QED
  BY <1>1, <1>2, <1>3, <1>5 DEF Core, IInv, Types

LEMMA OperatorWriteStep ==
    ASSUME IInv, OperatorWrite
    PROVE  Core' /\ opView' \in ChainState \cup {None}
<1>1. PICK st \in {"cancelled", "failed"} : Save(Operator, [opView EXCEPT !.status = st])
  BY DEF OperatorWrite
<1> DEFINE s == [opView EXCEPT !.status = st]
<1>2. /\ opView # None /\ opView \in ChainState /\ opView' = None /\ current' = {}
      /\ ledger' = ledger /\ proc' = proc /\ db' = s
      /\ ~stale' => ~stale /\ Operator \in current
  BY <1>1 DEF OperatorWrite, Save, IInv, Types
<1>3. /\ s \in ChainState /\ s.status = st /\ CopyTrue(s, ledger)
      /\ Exact(opView, ledger) => Exact(s, ledger)
  <2>1. st \in Status /\ CopyTrue(opView, ledger)
    BY <1>2 DEF Status, IInv, Copies
  <2> QED
    BY <1>2, <2>1, StatusChange
<1> HIDE DEF s
<1>4. Copies'
  BY <1>2, <1>3 DEF IInv, Copies
<1>5. Placed'
  BY <1>2, <1>3 DEF IInv, Placed
<1>6. Latest'
  <2>1. ~stale' => Exact(opView, ledger)
    BY <1>2 DEF IInv, Latest
  <2> QED
    BY <1>2, <1>3, <2>1 DEF Latest
<1> QED
  BY <1>2, <1>3, <1>4, <1>5, <1>6 DEF Core, IInv, Types


-----------------------------------------------------------------------------
(* Every step.                                                              *)

Turn(p) == StartRun(p) \/ Execute(p) \/ Review(p) \/ Recover(p) \/ Crash(p)

LEMMA TurnCore ==
    ASSUME IInv, NEW p \in Procs, Turn(p)
    PROVE  Core'
<1>1. CASE StartRun(p)
  BY <1>1, StartRunStep
<1>2. CASE Execute(p)
  <2>1. CASE SkipCompleted(p)
    BY <2>1, SkipCompletedStep
  <2>2. CASE Refuse(p) \/ HandleFailed(p) \/ CommitRefused(p) \/ ReportRejected(p)
    <3>1. _fail_chain(p) /\ proc[p].pc \in {"node", "failed", "commit", "after"}
      BY <2>2, Zenon DEF Refuse, HandleFailed, CommitRefused, ReportRejected, AtNode
    <3>2. proc[p].pc \notin {"idle", "resume"}
      BY <3>1
    <3> QED
      BY <3>1, <3>2, FailChain
  <2>3. CASE \E outcome \in {"commit", "failed"} : Invoke(p, outcome)
    BY <2>3, InvokeStep
  <2>4. CASE HandleByRetry(p)
    BY <2>4, HandleByRetryStep
  <2>5. CASE HandleBySkip(p)
    BY <2>5, HandleBySkipStep
  <2>6. CASE CommitInvocation(p)
    BY <2>6, CommitInvocationStep
  <2>7. CASE SemanticFailure(p)
    BY <2>7, SemanticFailureStep
  <2>8. CASE \E l \in Loops : _pause_for_budget(p, l) \/ LoopBack(p, l) \/ LoopExit(p, l)
    BY <2>8, PauseStep, LoopBackStep, LoopExitStep
  <2>9. CASE Advance(p)
    BY <2>9, AdvanceStep
  <2>10. CASE Complete(p)
    BY <2>10, CompleteStep
  <2> QED
    BY <1>2, <2>1, <2>2, <2>3, <2>4, <2>5, <2>6, <2>7, <2>8, <2>9, <2>10, Zenon DEF Execute
<1>3. CASE Review(p)
  <2>1. CASE RequestReview(p)
    BY <2>1, RequestReviewStep
  <2>2. CASE PausedForReview(p)
    BY <2>2, DiesStep DEF PausedForReview
  <2>3. CASE ReviewFails(p)
    BY <2>3, FailChain DEF ReviewFails
  <2>4. CASE ReviewApproved(p)
    BY <2>4, ReviewApprovedStep
  <2>5. CASE ReviewRevised(p)
    BY <2>5, ReviewRevisedStep
  <2> QED
    BY <1>3, <2>1, <2>2, <2>3, <2>4, <2>5 DEF Review
<1>4. CASE Recover(p)
  <2>1. CASE ResumeRefused(p)
    BY <2>1, FailChain DEF ResumeRefused
  <2> QED
    BY <1>4, <2>1, ResumeStep, LoadStateStep, ReadLedgerStep, ResumeCheckpointStep,
       ResumeApprovedStep, ResumeRevisedStep, ResumeCursorStep, ResumePendingLoopStep,
       ApproveBudgetStep, BudgetApprovedStep, Zenon DEF Recover
<1>5. CASE Crash(p)
  BY <1>5, DiesStep DEF Crash
<1> QED
  BY <1>1, <1>2, <1>3, <1>4, <1>5 DEF Turn

LEMMA TurnFrame ==
    ASSUME NEW p \in Procs, Turn(p)
    PROVE  /\ opView' = opView /\ operations' = operations
           /\ ledger' = ledger \/ CommitInvocation(p)
           /\ skipped' = skipped \/ HandleBySkip(p)
           /\ lives' = lives \/ (lives' = lives + 1 /\ lives < MaxLives)
           /\ revisions' = revisions
              \/ (revisions' = revisions + 1 /\ revisions < MaxRevisions)
           /\ current' \in {current, {p}, {}, current \ {p}, current \cup {p}}
           /\ stale' = stale \/ stale' = (stale \/ p \notin current)
           /\ \/ owed' = owed \/ owed' = owed \ {Node(p)}
              \/ owed' = owed \cup {RevisionTarget}
              \/ \E l \in Loops : owed' = owed \cup {LoopTarget(l)}
<1> USE DEF Turn, StartRun, Execute, Review, Recover, Crash, SkipCompleted, Refuse,
            Invoke, HandleByRetry, HandleBySkip, HandleFailed, CommitInvocation,
            CommitRefused, ReportRejected, SemanticFailure, _pause_for_budget,
            LoopBack, LoopExit, Advance, Complete, RequestReview, PausedForReview,
            ReviewFails, ReviewApproved, ReviewRevised, Resume, LoadState, ReadLedger,
            ResumeCheckpoint, ResumeRefused, ResumeApproved, ResumeRevised,
            ResumeCursor, ResumePendingLoop, ApproveBudget, BudgetApproved,
            _fail_chain, Finish, Commit, Save, Born
<1>1. opView' = opView /\ operations' = operations
  BY Zenon
<1>2. ledger' = ledger \/ CommitInvocation(p)
  BY Zenon
<1>3. skipped' = skipped \/ HandleBySkip(p)
  BY Zenon
<1>4. lives' = lives \/ (lives' = lives + 1 /\ lives < MaxLives)
  BY Zenon
<1>5. revisions' = revisions \/ (revisions' = revisions + 1 /\ revisions < MaxRevisions)
  BY Zenon
<1>6. current' \in {current, {p}, {}, current \ {p}, current \cup {p}}
  BY Zenon
<1>7. stale' = stale \/ stale' = (stale \/ p \notin current)
  BY Zenon
<1>8. \/ owed' = owed \/ owed' = owed \ {Node(p)}
      \/ owed' = owed \cup {RevisionTarget}
      \/ \E l \in Loops : owed' = owed \cup {LoopTarget(l)}
  BY Zenon
<1> QED
  BY <1>1, <1>2, <1>3, <1>4, <1>5, <1>6, <1>7, <1>8, Zenon


LEMMA InitIInv ==
    ASSUME Init
    PROVE  IInv
<1> USE DEF Init
<1>1. {MaxStep, MaxLives, MaxOperations, MaxRevisions} \subseteq Nat
  BY ChainAssumption
<1>2. Fresh.status = "absent" /\ Fresh.step = 0 /\ Fresh.done = NoSteps /\ Dead.pc = "idle"
      /\ Dead.live = Fresh
  BY DEF Fresh, Dead
<1>3. Types
  <2>1. db \in ChainState /\ proc \in [Procs -> Process]
    BY DeadFacts
  <2>2. ledger \in [Steps -> Nodes \cup {None}]
    BY DEF NoSteps
  <2>3. stale \in BOOLEAN
    BY Zenon
  <2> QED
    BY <1>1, <2>1, <2>2, <2>3 DEF Types
<1>4. Copies
  BY <1>2, DeadFacts DEF Copies
<1>5. Placed
  BY <1>2, DeadFacts DEF Placed
<1>6. Latest
  BY <1>2 DEF Latest, Exact, NoSteps
<1> QED
  BY <1>3, <1>4, <1>5, <1>6 DEF IInv

LEMMA StepIInv ==
    ASSUME IInv, [Next]_vars
    PROVE  IInv'
<1>0. {MaxStep, MaxLives, MaxOperations, MaxRevisions} \subseteq Nat
  BY ChainAssumption
<1>1. ASSUME NEW p \in Procs, Turn(p) PROVE IInv'
  <2>1. Core'
    BY <1>1, TurnCore
  <2>2. ledger' \in [Steps -> Nodes \cup {None}]
    BY <1>1, TurnFrame, CommitInvocationStep DEF IInv, Types
  <2>3. opView' \in ChainState \cup {None} /\ operations' \in 0 .. MaxOperations
    BY <1>1, TurnFrame DEF IInv, Types
  <2>4. current' \subseteq Procs \cup {Operator}
    BY <1>1, TurnFrame DEF IInv, Types
  <2>5. stale' \in BOOLEAN
    <3>1. stale' = stale \/ stale' = (stale \/ p \notin current)
      BY <1>1, TurnFrame
    <3>2. stale \in BOOLEAN
      BY DEF IInv, Types
    <3> QED
      BY <3>1, <3>2, Zenon
  <2>6. skipped' \subseteq Nodes
    <3>1. CASE HandleBySkip(p)
      <4>1. Node(p) \in Nodes
        BY <3>1, NodeHere DEF HandleBySkip, Working
      <4> QED
        BY <3>1, <4>1 DEF HandleBySkip, IInv, Types
    <3> QED
      BY <1>1, <3>1, TurnFrame DEF IInv, Types
  <2>7. owed' \subseteq Nodes
    <3>1. RevisionTarget \in Nodes /\ \A l \in Loops : LoopTarget(l) \in Nodes
      BY ChainAssumption, LoopFacts
    <3> QED
      BY <1>1, <3>1, TurnFrame DEF IInv, Types
  <2>8. lives' \in 0 .. MaxLives
    BY <1>0, <1>1, TurnFrame DEF IInv, Types
  <2>9. revisions' \in 0 .. MaxRevisions
    BY <1>0, <1>1, TurnFrame DEF IInv, Types
  <2> QED
    BY <2>1, <2>2, <2>3, <2>4, <2>5, <2>6, <2>7, <2>8, <2>9 DEF Core, IInv, Types
<1>2. CASE OperatorLoad
  <2>1. Core' /\ opView' \in ChainState \cup {None}
    BY <1>2, OperatorLoadStep
  <2>2. operations' \in 0 .. MaxOperations
    BY <1>0, <1>2 DEF OperatorLoad, IInv, Types
  <2>3. /\ current' \subseteq Procs \cup {Operator}
        /\ UNCHANGED <<ledger, stale, skipped, owed, lives, revisions>>
    BY <1>2 DEF OperatorLoad, IInv, Types
  <2> QED
    BY <2>1, <2>2, <2>3 DEF Core, IInv, Types
<1>3. CASE OperatorWrite
  <2>1. Core' /\ opView' \in ChainState \cup {None}
    BY <1>3, OperatorWriteStep
  <2>2. stale' \in BOOLEAN
    <3>1. stale' = (stale \/ Operator \notin current)
      BY <1>3, Zenon DEF OperatorWrite, Save
    <3> QED
      BY <3>1, Zenon
  <2>3. /\ current' = {}
        /\ UNCHANGED <<ledger, skipped, owed, lives, operations, revisions>>
    BY <1>3 DEF OperatorWrite
  <2> QED
    BY <2>1, <2>2, <2>3 DEF Core, IInv, Types
<1>4. CASE UNCHANGED vars
  <2> USE <1>4 DEF vars
  <2>1. Types' /\ Copies'
    BY DEF IInv, Types, Copies
  <2>2. Placed' /\ Latest'
    BY DEF IInv, Placed, Latest
  <2> QED
    BY <2>1, <2>2 DEF IInv
<1> QED
  BY <1>1, <1>2, <1>3, <1>4, Zenon DEF Next, Turn

(* The inductive invariant: what a copy of the state claims the ledger      *)
(* records, where a process is says what it has recorded, and a copy that   *)
(* nobody has written past agrees with the ledger exactly.                  *)
THEOREM Inductive == Spec => []IInv
<1>1. Init => IInv
  BY InitIInv
<1>2. IInv /\ [Next]_vars => IInv'
  BY StepIInv
<1> QED
  BY <1>1, <1>2, PTL DEF Spec

(* Type correctness of the execution loop and resume: in particular the     *)
(* position stays in the rewritten order (rebuild_order_with_loop always    *)
(* yields an order that holds the target), no loop iterates beyond its      *)
(* max_iterations in any copy, and no retry counter passes its limit.       *)
THEOREM TypeCorrect == Spec => []TypeOK
<1>1. ASSUME IInv PROVE TypeOK
  <2> USE <1>1
  <2>1. ASSUME NEW p \in Procs
        PROVE  /\ proc[p].pc \in Pcs
               /\ proc[p].mode \in {"run", "resume"}
               /\ proc[p].order \in Seq(Nodes)
               /\ proc[p].idx \in 1 .. Len(proc[p].order) + 1
               /\ proc[p].step <= proc[p].next
               /\ proc[p].next \in 0 .. MaxStep
               /\ proc[p].retries \in [Nodes -> 0 .. 2]
               /\ proc[p].base \in [Steps -> Nodes \cup {None}]
    <3>1. proc[p].idx \in 1 .. Len(proc[p].order) + 1 /\ proc[p].step <= proc[p].next
      BY Here DEF ProcTrue
    <3> QED
      BY <3>1, Here DEF Process
  <2>2. {db} \cup {proc[p].live : p \in Procs} \subseteq ChainState
    BY Here DEF IInv, Types
  <2> QED
    BY <2>1, <2>2 DEF TypeOK, IInv, Types
<1> QED
  BY <1>1, Inductive, PTL

(* commit_invocation_success writes the state row and the ledger row        *)
(* together, and a refused ledger row rolls both back: no copy of the       *)
(* state, however old, lists a completed step the ledger does not have.     *)
THEOREM DoneRecorded == Spec => []DoneInLedger
<1>1. IInv => DoneInLedger
  BY DEF IInv, Copies, CopyTrue, DoneInLedger
<1> QED
  BY <1>1, Inductive, PTL

(* The cursor that resume starts from: as long as no writer was stale, the  *)
(* row lists exactly the committed steps and its step is the last of them.  *)
THEOREM CursorTrue == Spec => []CursorTruth
<1>1. IInv => CursorTruth
  BY DEF IInv, Latest, Exact, CursorTruth
<1> QED
  BY <1>1, Inductive, PTL

(* Resume's promise of no duplicate invocation: a resumed process that      *)
(* nobody has written past, in a run without stale writes, calls no node    *)
(* that was in the ledger when it resumed, retries of a failed call         *)
(* included.                                                                *)
THEOREM NoDuplicates == Spec => []NoDuplicateInvocation
<1>1. ASSUME IInv PROVE NoDuplicateInvocation
  <2>1. ASSUME NEW p \in current \cap Procs, ~stale, proc[p].mode = "resume",
               proc[p].pc \in {"commit", "failed"}
        PROVE  Node(p) \notin Range(proc[p].base)
    <3>1. \A s \in Steps : proc[p].base[s] # proc[p].order[proc[p].idx]
      BY <1>1, <2>1, Here DEF Holds
    <3>2. DOMAIN proc[p].base = Steps
      BY <1>1, Here DEF Process
    <3> QED
      BY <3>1, <3>2 DEF Node, Range
  <2> QED
    BY <2>1 DEF NoDuplicateInvocation
<1> QED
  BY <1>1, Inductive, PTL

(* Only a stale writer can take a run out of completed: resume refuses      *)
(* completed runs, an operator's load does too, and the write that          *)
(* completes a run leaves no process that is up to date.                    *)
THEOREM CompletedFinal == Spec => FinalUnlessStale
<1>1. ASSUME IInv, [Next]_vars
      PROVE  [db.status = "completed" /\ ~stale' => db'.status = "completed"]_vars
  <2>1. SUFFICES ASSUME db.status = "completed", ~stale' PROVE db'.status = "completed"
    OBVIOUS
  <2>2. ASSUME NEW p \in Procs, Turn(p)
        PROVE  db' = db \/ stale' = (stale \/ p \notin current) \/ db.status = "absent"
    BY <2>2, Zenon
       DEF Turn, StartRun, Execute, Review, Recover, Crash, SkipCompleted, Refuse,
            Invoke, HandleByRetry, HandleBySkip, HandleFailed, CommitInvocation,
            CommitRefused, ReportRejected, SemanticFailure, _pause_for_budget,
            LoopBack, LoopExit, Advance, Complete, RequestReview, PausedForReview,
            ReviewFails, ReviewApproved, ReviewRevised, Resume, LoadState, ReadLedger,
            ResumeCheckpoint, ResumeRefused, ResumeApproved, ResumeRevised,
            ResumeCursor, ResumePendingLoop, ApproveBudget, BudgetApproved,
            _fail_chain, Finish, Commit, Save, Born
  <2>3. ~stale => current = {}
    BY <1>1, <2>1 DEF IInv, Latest
  <2>4. db' = db \/ ~(stale' = FALSE)
    <3>1. CASE \E p \in Procs : Turn(p)
      BY <2>1, <2>2, <2>3, <3>1
    <3>2. CASE OperatorLoad
      BY <3>2 DEF OperatorLoad
    <3>3. CASE OperatorWrite
      BY <2>3, <3>3 DEF OperatorWrite, Save
    <3>4. CASE UNCHANGED vars
      BY <3>4 DEF vars
    <3> QED
      BY <1>1, <3>1, <3>2, <3>3, <3>4, Zenon DEF Next, Turn
  <2>5. stale' \in BOOLEAN
    BY <1>1, StepIInv DEF IInv, Types
  <2> QED
    BY <2>1, <2>4, <2>5
<1> QED
  BY <1>1, Inductive, PTL DEF Spec, FinalUnlessStale


-----------------------------------------------------------------------------
(* How a step moves its process in its order.                               *)

Apart(p) == \A r \in Procs : r # p => proc'[r] = proc[r]
Stays(p) == proc'[p].order = proc[p].order /\ proc'[p].idx = proc[p].idx
Passes(p) == proc'[p].order = proc[p].order /\ proc'[p].idx = proc[p].idx + 1
Restarts(p) == proc'[p].order = Order /\ proc'[p].idx = 1
Jumps(p, order, from, target) ==
    /\ proc'[p].order = rebuild_order_with_loop(order, from, target)
    /\ proc'[p].idx = Index(proc'[p].order, target)

(* A copy says completed only if the state it was made from does.           *)
Honest(p) ==
    /\ proc'[p].live.status = "completed" =>
          "completed" \in {proc[p].live.status, db.status}
    /\ db'.status = "completed" =>
          Complete(p) \/ "completed" \in {proc[p].live.status, db.status}

LEMMA StayMoves ==
    ASSUME IInv, NEW p \in Procs,
           \/ \E outcome \in {"commit", "failed"} : Invoke(p, outcome)
           \/ HandleByRetry(p) \/ CommitInvocation(p) \/ SemanticFailure(p)
           \/ \E l \in Loops : LoopExit(p, l)
           \/ RequestReview(p) \/ Resume(p) \/ ReadLedger(p) \/ ResumeCheckpoint(p)
           \/ ResumeApproved(p) \/ ResumeRevised(p) \/ BudgetApproved(p)
           \/ ResumePendingLoop(p) /\ proc[p].live.pending = None
    PROVE  Apart(p) /\ Stays(p) /\ Honest(p)
<1>0. proc \in [Procs -> Process] /\ proc[p] \in Process
  BY DEF IInv, Types
<1> USE <1>0 DEF Apart, Stays, Honest, Process, ChainState, Commit, Save
<1>1. ASSUME NEW outcome \in {"commit", "failed"}, Invoke(p, outcome)
      PROVE  Apart(p) /\ Stays(p) /\ Honest(p)
  BY <1>1 DEF Invoke
<1>2. ASSUME HandleByRetry(p) PROVE Apart(p) /\ Stays(p) /\ Honest(p)
  BY <1>2 DEF HandleByRetry
<1>3. ASSUME CommitInvocation(p) PROVE Apart(p) /\ Stays(p) /\ Honest(p)
  BY <1>3 DEF CommitInvocation, Committed
<1>4. ASSUME SemanticFailure(p) PROVE Apart(p) /\ Stays(p) /\ Honest(p)
  BY <1>4 DEF SemanticFailure
<1>5. ASSUME NEW l \in Loops, LoopExit(p, l) PROVE Apart(p) /\ Stays(p) /\ Honest(p)
  BY <1>5 DEF LoopExit, Counted
<1>6. ASSUME RequestReview(p) PROVE Apart(p) /\ Stays(p) /\ Honest(p)
  BY <1>6 DEF RequestReview
<1>7. ASSUME Resume(p) PROVE Apart(p) /\ Stays(p) /\ Honest(p)
  BY <1>7 DEF Resume
<1>8. ASSUME ReadLedger(p) PROVE Apart(p) /\ Stays(p) /\ Honest(p)
  BY <1>8 DEF ReadLedger
<1>9. ASSUME ResumeCheckpoint(p) PROVE Apart(p) /\ Stays(p) /\ Honest(p)
  BY <1>9 DEF ResumeCheckpoint
<1>10. ASSUME ResumeApproved(p) PROVE Apart(p) /\ Stays(p) /\ Honest(p)
  BY <1>10 DEF ResumeApproved
<1>11. ASSUME ResumeRevised(p) PROVE Apart(p) /\ Stays(p) /\ Honest(p)
  BY <1>11 DEF ResumeRevised
<1>12. ASSUME BudgetApproved(p) PROVE Apart(p) /\ Stays(p) /\ Honest(p)
  BY <1>12 DEF BudgetApproved
<1>13. ASSUME ResumePendingLoop(p), proc[p].live.pending = None
       PROVE  Apart(p) /\ Stays(p) /\ Honest(p)
  <2>1. proc' = [proc EXCEPT ![p].pc = "node"] /\ db' = db
    BY <1>13, Zenon DEF ResumePendingLoop
  <2> QED
    BY <2>1
<1> QED
  BY <1>1, <1>2, <1>3, <1>4, <1>5, <1>6, <1>7, <1>8, <1>9, <1>10, <1>11, <1>12, <1>13, Zenon

LEMMA PassMoves ==
    ASSUME IInv, NEW p \in Procs,
           SkipCompleted(p) \/ HandleBySkip(p) \/ Advance(p) \/ ReviewApproved(p)
    PROVE  /\ Apart(p) /\ Passes(p) /\ Honest(p)
           /\ Node(p) \in Nodes /\ Node(p) = proc[p].order[proc[p].idx]
           /\ Node(p) \in Handled'
<1>0. proc \in [Procs -> Process] /\ proc[p] \in Process
  BY DEF IInv, Types
<1>1. proc[p].pc \in Working \/ AtNode(p)
  BY Zenon DEF SkipCompleted, HandleBySkip, Advance, ReviewApproved, Routing, Working
<1>2. Node(p) \in Nodes /\ Node(p) = proc[p].order[proc[p].idx] /\ Node(p) # None
  BY <1>1, NodeHere, ChainAssumption
<1> USE <1>0 DEF Apart, Passes, Honest
<1>3. CASE SkipCompleted(p)
  <2>1. Apart(p) /\ Passes(p) /\ Honest(p)
    BY <1>3 DEF SkipCompleted, Process, ChainState
  <2>2. PICK s \in Steps : proc[p].base[s] = Node(p)
    BY <1>3 DEF SkipCompleted, AlreadyDone
  <2>3. ledger[s] = Node(p) /\ ledger' = ledger
    BY <1>2, <1>3, <2>2, Here DEF ProcTrue, SkipCompleted
  <2> QED
    BY <1>2, <2>1, <2>3 DEF Handled, Recorded
<1>4. CASE HandleBySkip(p)
  <2>1. Apart(p) /\ Passes(p) /\ Honest(p)
    BY <1>4 DEF HandleBySkip, Process, ChainState
  <2>2. Node(p) \in skipped'
    BY <1>4 DEF HandleBySkip
  <2> QED
    BY <1>2, <2>1, <2>2 DEF Handled
<1>5. CASE Advance(p) \/ ReviewApproved(p)
  <2>1. Apart(p) /\ Passes(p) /\ Honest(p)
    <3>1. CASE Advance(p)
      BY <3>1 DEF Advance, Commit, Save, Process, ChainState
    <3>2. CASE ReviewApproved(p)
      BY <3>2 DEF ReviewApproved, Commit, Save, Process, ChainState
    <3> QED
      BY <1>5, <3>1, <3>2
  <2>2. proc[p].pc \in Routed /\ ledger' = ledger
    BY <1>5, Zenon DEF Advance, ReviewApproved, Routing, Routed
  <2>3. Node(p) \in Recorded(ledger)
    BY <1>2, <2>2, Here DEF ProcTrue
  <2> QED
    BY <1>2, <2>1, <2>2, <2>3 DEF Handled
<1> QED
  BY <1>3, <1>4, <1>5


LEMMA RestartMoves ==
    ASSUME IInv, NEW p \in Procs,
           \/ StartRun(p) \/ LoadState(p) \/ ApproveBudget(p) \/ Crash(p)
           \/ PausedForReview(p) \/ _fail_chain(p) \/ Complete(p)
           \/ \E l \in Loops : _pause_for_budget(p, l)
    PROVE  Apart(p) /\ Restarts(p) /\ Honest(p)
<1>0. /\ proc \in [Procs -> Process] /\ proc[p] \in Process
      /\ proc[p].live \in ChainState
  BY Here DEF IInv, Types
<1>1. /\ Dead.order = Order /\ Dead.idx = 1 /\ Dead.live = Fresh
      /\ Fresh.status = "absent" /\ Dead \in Process /\ Fresh \in ChainState
  BY DeadFacts DEF Dead, Fresh
<1>2. ASSUME NEW q, proc' = [proc EXCEPT ![p] = q], q.order = Order, q.idx = 1,
             q.live.status = "completed" => db.status = "completed",
             db'.status = "completed" => db.status = "completed" \/ Complete(p)
      PROVE  Apart(p) /\ Restarts(p) /\ Honest(p)
  BY <1>0, <1>2 DEF Apart, Restarts, Honest
<1>3. CASE Crash(p) \/ PausedForReview(p)
  <2>1. proc' = [proc EXCEPT ![p] = Dead] /\ db' = db
    BY <1>3, Zenon DEF Crash, PausedForReview
  <2> QED
    BY <1>1, <1>2, <2>1
<1>4. CASE _fail_chain(p)
  <2>1. proc' = [proc EXCEPT ![p] = Dead] /\ db' = [proc[p].live EXCEPT !.status = "failed"]
    BY <1>4, Zenon DEF _fail_chain, Finish, Save
  <2>2. db'.status = "failed"
    BY <1>0, <2>1 DEF ChainState
  <2> QED
    BY <1>1, <1>2, <2>1, <2>2
<1>5. CASE Complete(p)
  <2>1. proc' = [proc EXCEPT ![p] = Dead]
    BY <1>5, Zenon DEF Complete, Finish
  <2> QED
    BY <1>1, <1>2, <1>5, <2>1
<1>6. ASSUME NEW l \in Loops, _pause_for_budget(p, l)
      PROVE  Apart(p) /\ Restarts(p) /\ Honest(p)
  <2>1. /\ proc' = [proc EXCEPT ![p] = Dead]
        /\ db' = [Counted(p, l) EXCEPT !.status = "paused_for_budget", !.pending = l]
        /\ LoopRequired(p, l) /\ ~Exhausted(l, proc[p].live)
    BY <1>6, Zenon DEF _pause_for_budget, Finish, Save
  <2>2. db'.status = "paused_for_budget"
    <3>1. Counted(p, l) \in ChainState
      BY <2>1, CountedFacts
    <3> QED
      BY <2>1, <3>1 DEF ChainState
  <2> QED
    BY <1>1, <1>2, <2>1, <2>2
<1>7. CASE StartRun(p)
  <2> DEFINE d == [Fresh EXCEPT !.status = "running"]
             q == [Dead EXCEPT !.pc = "node", !.live = d]
  <2>1. proc' = [proc EXCEPT ![p] = q] /\ db' = d
    BY <1>7 DEF StartRun
  <2>2. d.status = "running"
    BY <1>1 DEF ChainState
  <2>3. q.live = d /\ q.order = Order /\ q.idx = 1
    BY <1>1 DEF Process
  <2> HIDE DEF d, q
  <2> QED
    BY <1>2, <2>1, <2>2, <2>3
<1>8. CASE LoadState(p)
  <2> DEFINE q == [Dead EXCEPT !.pc = "ledger", !.mode = "resume", !.live = db,
                               !.step = db.step, !.next = db.step]
  <2>1. proc' = [proc EXCEPT ![p] = q] /\ db' = db
    BY <1>8, Zenon DEF LoadState
  <2>2. q.live = db /\ q.order = Order /\ q.idx = 1
    BY <1>1 DEF Process
  <2> HIDE DEF q
  <2> QED
    BY <1>2, <2>1, <2>2
<1>9. CASE ApproveBudget(p)
  <2> DEFINE q == [Dead EXCEPT !.pc = "approve", !.live = db]
  <2>1. proc' = [proc EXCEPT ![p] = q] /\ db' = db
    BY <1>9, Zenon DEF ApproveBudget
  <2>2. q.live = db /\ q.order = Order /\ q.idx = 1
    BY <1>1 DEF Process
  <2> HIDE DEF q
  <2> QED
    BY <1>2, <2>1, <2>2
<1> QED
  BY <1>3, <1>4, <1>5, <1>6, <1>7, <1>8, <1>9

LEMMA JumpMoves ==
    ASSUME IInv, NEW p \in Procs,
           \/ \E l \in Loops : LoopBack(p, l)
           \/ ReviewRevised(p)
           \/ ResumeCursor(p) /\ proc[p].live.revision # None
           \/ ResumePendingLoop(p) /\ proc[p].live.pending # None
    PROVE  /\ Apart(p) /\ Honest(p)
           /\ \/ \E l \in Loops : /\ Jumps(p, proc[p].order, LoopEnd(l), LoopTarget(l))
                                  /\ LoopEnd(l) \in Recorded(ledger)
              \/ /\ ReviewNode \in Recorded(ledger)
                 /\ \/ Jumps(p, proc[p].order, ReviewNode, RevisionTarget)
                    \/ Jumps(p, Order, ReviewNode, RevisionTarget)
<1>0. /\ proc \in [Procs -> Process] /\ proc[p] \in Process
      /\ proc[p].live \in ChainState
  BY Here DEF IInv, Types
<1>1. ASSUME NEW l \in Loops, LoopBack(p, l)
      PROVE  /\ Apart(p) /\ Honest(p)
             /\ Jumps(p, proc[p].order, LoopEnd(l), LoopTarget(l))
             /\ LoopEnd(l) \in Recorded(ledger)
  <2> DEFINE new == rebuild_order_with_loop(proc[p].order, Node(p), LoopTarget(l))
             i == Index(new, LoopTarget(l))
             c == Counted(p, l)
  <2>1. /\ proc' = [proc EXCEPT ![p].pc = "node", ![p].live = c, ![p].order = new, ![p].idx = i]
        /\ db' = db /\ LoopRequired(p, l) /\ ~Exhausted(l, proc[p].live)
    BY <1>1, Zenon DEF LoopBack
  <2>2. Node(p) = LoopEnd(l) /\ LoopEnd(l) \in Recorded(ledger)
        /\ c.status = proc[p].live.status
    BY <2>1, CountedFacts
  <2> HIDE DEF new, i, c
  <2>3. proc'[p].order = new /\ proc'[p].idx = i /\ proc'[p].live = c /\ Apart(p)
    BY <1>0, <2>1 DEF Process, Apart
  <2> QED
    BY <2>1, <2>2, <2>3 DEF Jumps, Honest, new, i
<1>2. ASSUME ReviewRevised(p)
      PROVE  /\ Apart(p) /\ Honest(p)
             /\ Jumps(p, proc[p].order, ReviewNode, RevisionTarget)
             /\ ReviewNode \in Recorded(ledger)
  <2> DEFINE new == rebuild_order_with_loop(proc[p].order, Node(p), RevisionTarget)
             i == Index(new, RevisionTarget)
             q == [proc[p] EXCEPT !.pc = "node", !.order = new, !.idx = i,
                                  !.live.status = "running"]
  <2>1. proc' = [proc EXCEPT ![p] = q] /\ db' = q.live /\ proc[p].pc = "review"
    BY <1>2, Zenon DEF ReviewRevised, Commit, Save
  <2>2. Node(p) = ReviewNode /\ ReviewNode \in Recorded(ledger)
    BY <2>1, Here DEF ProcTrue, Routed, Node
  <2> HIDE DEF new, i
  <2>3. q.order = new /\ q.idx = i /\ q.live.status = "running"
    BY <1>0 DEF Process, ChainState
  <2> HIDE DEF q
  <2>4. proc'[p] = q /\ Apart(p)
    BY <1>0, <2>1 DEF Apart
  <2> QED
    BY <2>1, <2>2, <2>3, <2>4 DEF Jumps, Honest, new, i
<1>3. ASSUME ResumeCursor(p), proc[p].live.revision # None
      PROVE  /\ Apart(p) /\ Honest(p)
             /\ Jumps(p, Order, ReviewNode, RevisionTarget)
             /\ ReviewNode \in Recorded(ledger)
  <2> DEFINE new == rebuild_order_with_loop(Order, ReviewNode, proc[p].live.revision)
             i == Index(new, proc[p].live.revision)
             q == [proc[p] EXCEPT !.pc = "pending", !.order = new, !.idx = i,
                                  !.live.revision = None]
  <2>1. proc' = [proc EXCEPT ![p] = q] /\ db' = q.live
    BY <1>3, Zenon DEF ResumeCursor, Commit, Save
  <2>2. proc[p].live.revision = RevisionTarget /\ ReviewNode \in Recorded(ledger)
    BY <1>3, Here DEF CopyTrue
  <2> HIDE DEF new, i
  <2>3. q.order = new /\ q.idx = i /\ q.live.status = proc[p].live.status
    BY <1>0 DEF Process, ChainState
  <2> HIDE DEF q
  <2>4. proc'[p] = q /\ Apart(p)
    BY <1>0, <2>1 DEF Apart
  <2> QED
    BY <2>1, <2>2, <2>3, <2>4 DEF Jumps, Honest, new, i
<1>4. ASSUME ResumePendingLoop(p), proc[p].live.pending # None
      PROVE  /\ Apart(p) /\ Honest(p) /\ proc[p].live.pending \in Loops
             /\ Jumps(p, proc[p].order, LoopEnd(proc[p].live.pending),
                      LoopTarget(proc[p].live.pending))
             /\ LoopEnd(proc[p].live.pending) \in Recorded(ledger)
  <2> DEFINE l == proc[p].live.pending
             new == rebuild_order_with_loop(proc[p].order, LoopEnd(l), LoopTarget(l))
             i == Index(new, LoopTarget(l))
             q == [proc[p] EXCEPT !.pc = "node", !.order = new, !.idx = i,
                                  !.live.pending = None]
  <2>1. proc' = [proc EXCEPT ![p] = q] /\ db' = q.live
    BY <1>4, Zenon DEF ResumePendingLoop, Commit, Save
  <2>2. l \in Loops /\ LoopEnd(l) \in Recorded(ledger)
    BY <1>0, <1>4, Here DEF CopyTrue, ChainState
  <2> HIDE DEF new, i
  <2>3. q.order = new /\ q.idx = i /\ q.live.status = proc[p].live.status
    BY <1>0 DEF Process, ChainState
  <2> HIDE DEF q
  <2>4. proc'[p] = q /\ Apart(p)
    BY <1>0, <2>1 DEF Apart
  <2> QED
    BY <2>1, <2>2, <2>3, <2>4 DEF Jumps, Honest, new, i
<1> QED
  BY <1>1, <1>2, <1>3, <1>4

LEMMA CursorMoves ==
    ASSUME IInv, NEW p \in Procs, ResumeCursor(p), proc[p].live.revision = None
    PROVE  /\ Apart(p) /\ Honest(p)
           /\ proc'[p].order = Order /\ proc'[p].idx = StartIndex(p)
<1>1. /\ proc' = [proc EXCEPT ![p].pc = "pending", ![p].idx = StartIndex(p)]
      /\ db' = db /\ proc[p].pc = "cursor"
  BY Zenon DEF ResumeCursor
<1>2. proc \in [Procs -> Process] /\ proc[p] \in Process /\ proc[p].order = Order
  BY <1>1, Here DEF IInv, Types, ProcTrue, Loading
<1>3. /\ Apart(p) /\ proc'[p].order = Order /\ proc'[p].idx = StartIndex(p)
      /\ proc'[p].live = proc[p].live
  BY <1>1, <1>2 DEF Apart, Process
<1> QED
  BY <1>1, <1>3 DEF Honest


-----------------------------------------------------------------------------
(* A blueprint that leads back.                                             *)

Closed == \A n \in Recorded(ledger), m \in Nodes : Upto(m, n) => m \in Handled

LEMMA HandledGrows ==
    ASSUME IInv, NEW p \in Procs, Turn(p)
    PROVE  Handled \subseteq Handled'
<1>1. skipped \subseteq skipped'
  <2>1. CASE HandleBySkip(p)
    BY <2>1 DEF HandleBySkip
  <2> QED
    BY <2>1, TurnFrame
<1>2. Recorded(ledger) \subseteq Recorded(ledger')
  <2>1. CASE CommitInvocation(p)
    BY <2>1, CommitInvocationStep, Grow
  <2> QED
    BY <2>1, TurnFrame
<1> QED
  BY <1>1, <1>2 DEF Handled

(* A node is called only when everything before it has been handled.        *)
LEMMA ClosedStep ==
    ASSUME IInv, Finishable, NEW p \in Procs, Turn(p)
    PROVE  Closed'
<1>1. Handled \subseteq Handled'
  BY HandledGrows
<1>2. CASE ledger' = ledger
  BY <1>1, <1>2 DEF Closed, Finishable
<1>3. CASE CommitInvocation(p)
  <2>1. /\ Node(p) \in Nodes /\ Node(p) = proc[p].order[proc[p].idx]
        /\ proc[p].idx \in 1 .. Len(proc[p].order)
    BY <1>3, NodeHere DEF CommitInvocation, Working
  <2>2. \A s \in Steps : ledger'[s] \in {ledger[s], Node(p)}
    BY <1>3, CommitInvocationStep
  <2>3. Recorded(ledger') \subseteq Recorded(ledger) \cup {Node(p)}
    BY <2>2 DEF Recorded
  <2>4. Node(p) \in Handled'
    <3>1. proc[p].step \in Steps
      BY <1>3, Here DEF CommitInvocation, ProcTrue
    <3>2. ledger'[proc[p].step] = Node(p)
      BY <1>3, <3>1 DEF CommitInvocation, IInv, Types
    <3> QED
      BY <2>1, <3>1, <3>2 DEF Handled, Recorded
  <2>5. ASSUME NEW m \in Nodes, Upto(m, Node(p)) PROVE m \in Handled'
    <3>1. PICK k \in 1 .. proc[p].idx : proc[p].order[k] = m
      BY <2>1, <2>5 DEF Finishable, Progress, Downward
    <3>2. CASE k = proc[p].idx
      BY <2>1, <2>4, <3>1, <3>2
    <3>3. CASE k # proc[p].idx
      <4>1. k \in 1 .. proc[p].idx - 1
        BY <2>1, <3>3
      <4> QED
        BY <1>1, <3>1, <4>1 DEF Finishable, Progress
    <3> QED
      BY <3>2, <3>3
  <2> QED
    BY <1>1, <2>3, <2>5 DEF Closed, Finishable
<1> QED
  BY <1>2, <1>3, TurnFrame

(* A jump back lands where everything before has been handled.              *)
LEMMA JumpProgress ==
    ASSUME Backward, IInv, Finishable, NEW p \in Procs, Turn(p),
           NEW order \in Seq(Nodes), Nodes \subseteq Range(order), Downward(order),
           NEW from \in Recorded(ledger), NEW target \in Nodes, Upto(target, from),
           \A l \in LoopOf(target) : \A n \in Range(Path[l]) : Upto(n, from),
           Jumps(p, order, from, target)
    PROVE  /\ Downward(proc'[p].order)
           /\ \A j \in 1 .. proc'[p].idx - 1 : proc'[p].order[j] \in Handled'
<1>1. from \in Nodes
  BY DEF Recorded
<1> DEFINE new == rebuild_order_with_loop(order, from, target)
<1>2. /\ Downward(new)
      /\ \A j \in 1 .. Index(new, target) - 1 : new[j] \in Nodes /\ Upto(new[j], from)
  BY <1>1, RebuiltBackward, Zenon
<1>3. proc'[p].order = new /\ proc'[p].idx = Index(new, target)
  BY DEF Jumps
<1> HIDE DEF new
<1>4. Handled \subseteq Handled'
  BY HandledGrows
<1> QED
  BY <1>2, <1>3, <1>4 DEF Finishable

LEMMA ProgressStep ==
    ASSUME Backward, IInv, Finishable, NEW p \in Procs, Turn(p)
    PROVE  /\ Apart(p) /\ Honest(p) /\ Downward(proc'[p].order)
           /\ \A j \in 1 .. proc'[p].idx - 1 : proc'[p].order[j] \in Handled'
<1>1. Handled \subseteq Handled'
  BY HandledGrows
<1>2. /\ Downward(proc[p].order)
      /\ \A j \in 1 .. proc[p].idx - 1 : proc[p].order[j] \in Handled
  BY DEF Finishable, Progress
<1>3. ASSUME Stays(p), Apart(p), Honest(p)
      PROVE  /\ Apart(p) /\ Honest(p) /\ Downward(proc'[p].order)
             /\ \A j \in 1 .. proc'[p].idx - 1 : proc'[p].order[j] \in Handled'
  BY <1>1, <1>2, <1>3 DEF Stays
<1>4. ASSUME SkipCompleted(p) \/ HandleBySkip(p) \/ Advance(p) \/ ReviewApproved(p)
      PROVE  /\ Apart(p) /\ Honest(p) /\ Downward(proc'[p].order)
             /\ \A j \in 1 .. proc'[p].idx - 1 : proc'[p].order[j] \in Handled'
  <2>1. /\ Apart(p) /\ Passes(p) /\ Honest(p)
        /\ Node(p) = proc[p].order[proc[p].idx] /\ Node(p) \in Handled'
    BY <1>4, PassMoves
  <2>2. \A j \in 1 .. (proc[p].idx + 1) - 1 : j = proc[p].idx \/ j \in 1 .. proc[p].idx - 1
    BY Here
  <2> QED
    BY <1>1, <1>2, <2>1, <2>2 DEF Passes
<1>5. ASSUME Apart(p), Restarts(p), Honest(p)
      PROVE  /\ Apart(p) /\ Honest(p) /\ Downward(proc'[p].order)
             /\ \A j \in 1 .. proc'[p].idx - 1 : proc'[p].order[j] \in Handled'
  BY <1>5, OrderDownward DEF Restarts
<1>6. ASSUME \/ \E l \in Loops : LoopBack(p, l)
             \/ ReviewRevised(p)
             \/ ResumeCursor(p) /\ proc[p].live.revision # None
             \/ ResumePendingLoop(p) /\ proc[p].live.pending # None
      PROVE  /\ Apart(p) /\ Honest(p) /\ Downward(proc'[p].order)
             /\ \A j \in 1 .. proc'[p].idx - 1 : proc'[p].order[j] \in Handled'
  <2>1. /\ Apart(p) /\ Honest(p)
        /\ \/ \E l \in Loops : /\ Jumps(p, proc[p].order, LoopEnd(l), LoopTarget(l))
                               /\ LoopEnd(l) \in Recorded(ledger)
           \/ /\ ReviewNode \in Recorded(ledger)
              /\ \/ Jumps(p, proc[p].order, ReviewNode, RevisionTarget)
                 \/ Jumps(p, Order, ReviewNode, RevisionTarget)
    BY <1>6, JumpMoves
  <2>2. proc[p].order \in Seq(Nodes) /\ Nodes \subseteq Range(proc[p].order)
    BY Here DEF ProcTrue
  <2>3. ASSUME NEW l \in Loops, Jumps(p, proc[p].order, LoopEnd(l), LoopTarget(l)),
               LoopEnd(l) \in Recorded(ledger)
        PROVE  /\ Downward(proc'[p].order)
               /\ \A j \in 1 .. proc'[p].idx - 1 : proc'[p].order[j] \in Handled'
    <3>1. LoopTarget(l) \in Nodes /\ LoopOf(LoopTarget(l)) = {l}
      BY LoopFacts
    <3>2. \A m \in LoopOf(LoopTarget(l)) : \A n \in Range(Path[m]) : Upto(n, LoopEnd(l))
      BY <3>1 DEF Backward
    <3>3. Upto(LoopTarget(l), LoopEnd(l))
      <4>1. LoopTarget(l) \in Range(Path[l])
        BY <3>1 DEF LoopOf
      <4> QED
        BY <4>1 DEF Backward
    <3> QED
      BY <1>2, <2>2, <2>3, <3>1, <3>2, <3>3, JumpProgress, Zenon
  <2>4. ASSUME ReviewNode \in Recorded(ledger)
        PROVE  /\ RevisionTarget \in Nodes /\ Upto(RevisionTarget, ReviewNode)
               /\ \A l \in LoopOf(RevisionTarget) : \A n \in Range(Path[l]) : Upto(n, ReviewNode)
    <3>1. ReviewNode \in Nodes /\ RevisionTarget \in Nodes
      BY <2>4, ChainAssumption DEF Recorded
    <3>2. ASSUME NEW l \in LoopOf(RevisionTarget), NEW n \in Range(Path[l])
          PROVE  Upto(n, ReviewNode)
      <4>1. l \in Loops
        BY DEF LoopOf
      <4>2. Upto(n, LoopEnd(l)) /\ Upto(LoopEnd(l), ReviewNode)
        BY <3>1, <4>1 DEF Backward
      <4>3. n \in Nodes /\ LoopEnd(l) \in Nodes
        <5>1. Path[l] \in Seq(Nodes) /\ LoopEnd(l) \in Nodes
          BY <4>1, LoopFacts
        <5>2. PICK k \in 1 .. Len(Path[l]) : Path[l][k] = n
          BY <5>1, RangeIs
        <5> QED
          BY <5>1, <5>2
      <4> QED
        BY <3>1, <4>2, <4>3, UptoOrder
    <3> QED
      BY <3>1, <3>2 DEF Backward
  <2>5. ASSUME ReviewNode \in Recorded(ledger),
               Jumps(p, proc[p].order, ReviewNode, RevisionTarget)
        PROVE  /\ Downward(proc'[p].order)
               /\ \A j \in 1 .. proc'[p].idx - 1 : proc'[p].order[j] \in Handled'
    BY <1>2, <2>2, <2>4, <2>5, JumpProgress, Zenon
  <2>6. ASSUME ReviewNode \in Recorded(ledger),
               Jumps(p, Order, ReviewNode, RevisionTarget)
        PROVE  /\ Downward(proc'[p].order)
               /\ \A j \in 1 .. proc'[p].idx - 1 : proc'[p].order[j] \in Handled'
    <3>1. Order \in Seq(Nodes) /\ Nodes \subseteq Range(Order)
      BY OrderType
    <3> QED
      BY <2>4, <2>6, <3>1, OrderDownward, JumpProgress, Zenon
  <2> QED
    BY <2>1, <2>3, <2>5, <2>6
<1>7. ASSUME ResumeCursor(p), proc[p].live.revision = None
      PROVE  /\ Apart(p) /\ Honest(p) /\ Downward(proc'[p].order)
             /\ \A j \in 1 .. proc'[p].idx - 1 : proc'[p].order[j] \in Handled'
  <2>1. /\ Apart(p) /\ Honest(p)
        /\ proc'[p].order = Order /\ proc'[p].idx = StartIndex(p)
    BY <1>7, CursorMoves
  <2>2. ASSUME NEW j \in 1 .. StartIndex(p) - 1 PROVE Order[j] \in Handled
    <3>1. LastNode(p) # None /\ StartIndex(p) = Index(Order, LastNode(p)) + 1
      BY <2>2 DEF StartIndex
    <3>2. proc[p].step \in Steps /\ LastNode(p) = proc[p].base[proc[p].step]
      BY <3>1, Here DEF LastNode, Steps
    <3>3. LastNode(p) = ledger[proc[p].step]
      BY <3>1, <3>2, Here DEF ProcTrue
    <3>4. LastNode(p) \in Recorded(ledger) /\ LastNode(p) \in Nodes
      BY <3>1, <3>2, <3>3 DEF Recorded, IInv, Types
    <3>5. /\ Order \in Seq(Nodes) /\ \E k \in 1 .. Len(Order) : Order[k] = LastNode(p)
          /\ Index(Order, LastNode(p)) \in 1 .. Len(Order)
      BY <3>4, OrderType
    <3>6. j \in 1 .. Index(Order, LastNode(p)) /\ j \in 1 .. Len(Order)
      BY <3>1, <3>5
    <3>7. Upto(Order[j], LastNode(p))
      BY <3>4, <3>5, <3>6, OrderDownward, BeforeFirst, Zenon
    <3>8. Order[j] \in Nodes
      BY <3>5, <3>6
    <3> QED
      BY <3>4, <3>7, <3>8 DEF Finishable
  <2> QED
    BY <1>1, <2>1, <2>2, OrderDownward
<1>8. CASE StartRun(p) \/ Crash(p)
  BY <1>5, <1>8, RestartMoves
<1>9. CASE Execute(p)
  BY <1>3, <1>4, <1>5, <1>6, <1>9, StayMoves, RestartMoves, Zenon
     DEF Execute, Refuse, HandleFailed, CommitRefused, ReportRejected
<1>10. CASE Review(p)
  BY <1>3, <1>4, <1>5, <1>6, <1>10, StayMoves, RestartMoves, Zenon DEF Review, ReviewFails
<1>11. CASE Recover(p)
  BY <1>3, <1>5, <1>6, <1>7, <1>11, StayMoves, RestartMoves, Zenon DEF Recover, ResumeRefused
<1> QED
  BY <1>8, <1>9, <1>10, <1>11, Zenon DEF Turn


(* A process is through only when every node has been handled.              *)
LEMMA CompleteAll ==
    ASSUME IInv, Finishable, NEW p \in Procs, Complete(p)
    PROVE  Nodes \subseteq Handled
<1>1. proc[p].idx = Len(proc[p].order) + 1
  BY Here DEF Complete, ProcTrue
<1>2. ASSUME NEW n \in Nodes PROVE n \in Handled
  <2>1. PICK k \in 1 .. Len(proc[p].order) : proc[p].order[k] = n
    BY Here, RangeIs DEF ProcTrue
  <2>2. k \in 1 .. proc[p].idx - 1
    BY <1>1, Here
  <2> QED
    BY <2>1, <2>2 DEF Finishable, Progress
<1> QED
  BY <1>2

LEMMA StepFinishable ==
    ASSUME Backward, IInv, Finishable, [Next]_vars
    PROVE  Finishable'
<1>1. ASSUME NEW p \in Procs, Turn(p) PROVE Finishable'
  <2>1. Closed' /\ Handled \subseteq Handled' /\ opView' = opView
    BY <1>1, ClosedStep, HandledGrows, TurnFrame
  <2>2. /\ Apart(p) /\ Honest(p) /\ Downward(proc'[p].order)
        /\ \A j \in 1 .. proc'[p].idx - 1 : proc'[p].order[j] \in Handled'
    BY <1>1, ProgressStep
  <2>3. "completed" \in {proc[p].live.status, db.status} => Nodes \subseteq Handled'
    BY <2>1 DEF Finishable, Progress
  <2>4. proc'[p].live.status = "completed" => Nodes \subseteq Handled'
    BY <2>2, <2>3 DEF Honest
  <2>5. db'.status = "completed" => Nodes \subseteq Handled'
    BY <2>1, <2>2, <2>3, CompleteAll DEF Honest
  <2>6. ASSUME NEW r \in Procs PROVE Progress(proc'[r], Handled')
    <3>1. CASE r = p
      BY <2>2, <2>4, <3>1 DEF Progress
    <3>2. CASE r # p
      <4>1. proc'[r] = proc[r] /\ Progress(proc[r], Handled)
        BY <2>2, <3>2 DEF Apart, Finishable
      <4> QED
        BY <2>1, <4>1 DEF Progress
    <3> QED
      BY <3>1, <3>2
  <2>7. opView' # None /\ opView'.status = "completed" => Nodes \subseteq Handled'
    BY <2>1 DEF Finishable
  <2> QED
    BY <2>1, <2>5, <2>6, <2>7 DEF Finishable, Closed
<1>2. CASE OperatorLoad
  <2>1. opView' = db /\ UNCHANGED <<db, ledger, proc, skipped>>
    BY <1>2 DEF OperatorLoad
  <2>2. Handled' = Handled
    BY <2>1 DEF Handled
  <2> QED
    BY <2>1, <2>2 DEF Finishable
<1>3. CASE OperatorWrite
  <2>1. opView' = None /\ UNCHANGED <<ledger, proc, skipped>>
    BY <1>3 DEF OperatorWrite
  <2>2. Handled' = Handled
    BY <2>1 DEF Handled
  <2>3. db'.status # "completed"
    <3>1. opView \in ChainState
      BY <1>3 DEF OperatorWrite, IInv, Types
    <3> QED
      BY <1>3, <3>1 DEF OperatorWrite, Save, ChainState
  <2> QED
    BY <2>1, <2>2, <2>3 DEF Finishable
<1>4. CASE UNCHANGED vars
  <2>1. UNCHANGED <<db, ledger, proc, opView, skipped>>
    BY <1>4 DEF vars
  <2>2. Handled' = Handled
    BY <2>1 DEF Handled
  <2> QED
    BY <2>1, <2>2 DEF Finishable
<1> QED
  BY <1>1, <1>2, <1>3, <1>4, Zenon DEF Next, Turn

LEMMA InitFinishable ==
    ASSUME Init
    PROVE  Finishable
<1>1. /\ Dead.order = Order /\ Dead.idx = 1 /\ Dead.live = Fresh
      /\ Fresh.status = "absent"
  BY DEF Dead, Fresh
<1>2. Recorded(ledger) = {}
  <2>1. None \notin Nodes
    BY ChainAssumption
  <2> QED
    BY <2>1 DEF Init, Recorded, NoSteps
<1>3. \A p \in Procs : Progress(proc[p], Handled)
  BY <1>1, OrderDownward DEF Init, Progress
<1> QED
  BY <1>1, <1>2, <1>3 DEF Init, Finishable

(* A blueprint whose loops and revision lead back completes only when each  *)
(* of its nodes has a ledger row or was skipped on purpose: however often   *)
(* the order is rewritten, wherever a crash leaves the cursor, whatever     *)
(* processes resume at the same time, and even when the row is overwritten  *)
(* from stale copies.                                                       *)
THEOREM CompletedWhole ==
    ASSUME Backward
    PROVE  Spec => []CompletedRanAll
<1>1. Init => Finishable
  BY InitFinishable
<1>2. IInv /\ Finishable /\ [Next]_vars => Finishable'
  BY StepFinishable
<1>3. IInv /\ Finishable => CompletedRanAll
  <2>1. ASSUME IInv, Finishable, db.status = "completed", NEW n \in Nodes
        PROVE  n \in Range(ledger) \cup skipped
    <3>1. n \in Recorded(ledger) \/ n \in skipped
      BY <2>1 DEF Finishable, Handled
    <3>2. DOMAIN ledger = Steps
      BY <2>1 DEF IInv, Types
    <3> QED
      BY <3>1, <3>2 DEF Recorded, Range
  <2> QED
    BY <2>1 DEF CompletedRanAll
<1> QED
  BY <1>1, <1>2, <1>3, Inductive, PTL DEF Spec

-----------------------------------------------------------------------------
=============================================================================
