---------------------------- MODULE ScriptSchedProof ----------------------------
(***************************************************************************)
(* Proofs about ScriptSched for any nodes, budget, limits and bounds.      *)
(* While no two passes overlap (corrupt says they did, and the behaviour   *)
(* ends), a pass owns the interpreter and a script is loaded; a node that  *)
(* is allocated is in one place.                                           *)
(***************************************************************************)
EXTENDS ScriptSched, SequenceTheorems, TLAPS

Kinds == {"press", "release", "debug", "fault"}
Runners == {"dpc", "input", "load"}

Occurs(seq, n) == \E i \in DOMAIN seq : seq[i] = n
Distinct(seq) == \A i, j \in DOMAIN seq : seq[i] = seq[j] => i = j
Sorted(seq, w) == \A i, j \in DOMAIN seq : i < j => w[seq[i]] <= w[seq[j]]

--------------------------------------------------------------------------------
(* The lists *)

LEMMA InsertShape ==
    ASSUME NEW S, NEW seq \in Seq(S), NEW at \in 1..Len(seq) + 1, NEW x \in S
    PROVE  LET r == InsertAt(seq, at, x) IN
           /\ r \in Seq(S) /\ Len(r) = Len(seq) + 1
           /\ \A i \in 1..Len(seq) + 1 :
                 r[i] = IF i < at THEN seq[i] ELSE IF i = at THEN x ELSE seq[i - 1]
<1> DEFINE a == SubSeq(seq, 1, at - 1)
           b == SubSeq(seq, at, Len(seq))
           c == a \o <<x>>
<1>1. /\ a \in Seq(S) /\ Len(a) = at - 1 /\ \A i \in 1..at - 1 : a[i] = seq[i]
  BY SubSeqProperties
<1>2. /\ b \in Seq(S) /\ Len(b) = Len(seq) - at + 1
      /\ \A i \in 1..Len(seq) - at + 1 : b[i] = seq[at + i - 1]
  BY SubSeqProperties
<1> HIDE DEF a, b
<1>3. /\ <<x>> \in Seq(S) /\ Len(<<x>>) = 1 /\ <<x>>[1] = x
  OBVIOUS
<1>4. c \in Seq(S) /\ Len(c) = Len(a) + 1
  BY <1>1, <1>3, ConcatProperties
<1>5. \A i \in 1..at : c[i] = IF i < at THEN seq[i] ELSE x
  <2>1. \A i \in 1..Len(a) + Len(<<x>>) : c[i] = IF i <= Len(a) THEN a[i] ELSE <<x>>[i - Len(a)]
    BY <1>1, <1>3, ConcatProperties
  <2> HIDE DEF c
  <2> QED
    BY <1>1, <1>3, <2>1
<1> HIDE DEF c
<1>6. c \o b \in Seq(S) /\ Len(c \o b) = Len(seq) + 1
  <2>1. c \o b \in Seq(S) /\ Len(c \o b) = Len(c) + Len(b)
    BY <1>2, <1>4, ConcatProperties, Zenon
  <2> QED
    BY <1>1, <1>2, <1>4, <2>1
<1>7. \A i \in 1..Len(seq) + 1 :
         (c \o b)[i] = IF i < at THEN seq[i] ELSE IF i = at THEN x ELSE seq[i - 1]
  <2>1. \A i \in 1..Len(c) + Len(b) : (c \o b)[i] = IF i <= Len(c) THEN c[i] ELSE b[i - Len(c)]
    BY <1>2, <1>4, ConcatProperties, Zenon
  <2> QED
    BY <1>1, <1>2, <1>4, <1>5, <2>1
<1> QED
  BY <1>6, <1>7 DEF InsertAt, a, b, c

LEMMA RemoveShape ==
    ASSUME NEW S, NEW seq \in Seq(S), NEW k \in 1..Len(seq)
    PROVE  LET r == RemoveAt(seq, k) IN
           /\ r \in Seq(S) /\ Len(r) = Len(seq) - 1
           /\ \A i \in 1..Len(seq) - 1 : r[i] = IF i < k THEN seq[i] ELSE seq[i + 1]
<1> DEFINE a == SubSeq(seq, 1, k - 1)
           b == SubSeq(seq, k + 1, Len(seq))
<1>1. /\ a \in Seq(S) /\ Len(a) = k - 1 /\ \A i \in 1..k - 1 : a[i] = seq[i]
  BY SubSeqProperties
<1>2. /\ b \in Seq(S) /\ Len(b) = Len(seq) - k
      /\ \A i \in 1..Len(seq) - k : b[i] = seq[k + i]
  <2>1. /\ b \in Seq(S)
        /\ Len(b) = IF k + 1 <= Len(seq) THEN Len(seq) - (k + 1) + 1 ELSE 0
        /\ \A i \in 1..Len(seq) - (k + 1) + 1 : b[i] = seq[(k + 1) + i - 1]
    BY SubSeqProperties
  <2> HIDE DEF b
  <2> QED
    BY <2>1
<1> HIDE DEF a, b
<1>3. a \o b \in Seq(S) /\ Len(a \o b) = Len(seq) - 1
  <2>1. a \o b \in Seq(S) /\ Len(a \o b) = Len(a) + Len(b)
    BY <1>1, <1>2, ConcatProperties, Zenon
  <2> QED
    BY <1>1, <1>2, <2>1
<1>4. \A i \in 1..Len(seq) - 1 : (a \o b)[i] = IF i < k THEN seq[i] ELSE seq[i + 1]
  <2>1. \A i \in 1..Len(a) + Len(b) : (a \o b)[i] = IF i <= Len(a) THEN a[i] ELSE b[i - Len(a)]
    BY <1>1, <1>2, ConcatProperties, Zenon
  <2> DEFINE c == a \o b
  <2> HIDE DEF c
  <2>2. ASSUME NEW i \in 1..Len(seq) - 1
        PROVE  c[i] = IF i < k THEN seq[i] ELSE seq[i + 1]
    <3>1. CASE i < k
      <4>1. c[i] = a[i] /\ i \in 1..k - 1
        BY <1>1, <1>2, <2>1, <3>1 DEF c
      <4> QED
        BY <1>1, <3>1, <4>1
    <3>2. CASE i >= k
      <4>1. c[i] = b[i - (k - 1)]
        BY <1>1, <1>2, <2>1, <3>2 DEF c
      <4>2. i - (k - 1) \in 1..Len(seq) - k
        BY <3>2
      <4>3. b[i - (k - 1)] = seq[k + (i - (k - 1))] /\ k + (i - (k - 1)) = i + 1
        BY <1>2, <4>2
      <4> QED
        BY <3>2, <4>1, <4>3
    <3> QED
      BY <3>1, <3>2
  <2> QED
    BY <2>2 DEF c
<1> QED
  BY <1>3, <1>4 DEF RemoveAt, a, b

LEMMA ConsShape ==
    ASSUME NEW S, NEW seq \in Seq(S), NEW x \in S
    PROVE  LET r == <<x>> \o seq IN
           /\ r \in Seq(S) /\ Len(r) = Len(seq) + 1
           /\ \A i \in 1..Len(seq) + 1 : r[i] = IF i = 1 THEN x ELSE seq[i - 1]
<1>1. <<x>> \in Seq(S) /\ Len(<<x>>) = 1 /\ <<x>>[1] = x
  OBVIOUS
<1> QED
  BY <1>1, ConcatProperties

(* A list with x put in somewhere. *)
Longer(seq, r, at, x) ==
    /\ at \in 1..Len(seq) + 1 /\ Len(r) = Len(seq) + 1
    /\ \A i \in 1..Len(seq) + 1 :
          r[i] = IF i < at THEN seq[i] ELSE IF i = at THEN x ELSE seq[i - 1]

LEMMA LongerHolds ==
    ASSUME NEW S, NEW seq \in Seq(S), NEW r \in Seq(S), NEW at, NEW x, Longer(seq, r, at, x)
    PROVE  /\ \A n : Occurs(r, n) <=> Occurs(seq, n) \/ n = x
           /\ Distinct(seq) /\ ~Occurs(seq, x) => Distinct(r)
<1>1. /\ DOMAIN seq = 1..Len(seq) /\ DOMAIN r = 1..Len(seq) + 1 /\ Len(seq) \in Nat
      /\ at \in DOMAIN r /\ r[at] = x
  BY DEF Longer
<1>2. \A i \in DOMAIN r : i < at => i \in DOMAIN seq /\ r[i] = seq[i]
  BY <1>1 DEF Longer
<1>3. \A i \in DOMAIN r : i > at => i - 1 \in DOMAIN seq /\ r[i] = seq[i - 1]
  BY <1>1 DEF Longer
<1>4. \A i \in DOMAIN seq : (i < at /\ i \in DOMAIN r /\ r[i] = seq[i])
                               \/ (i + 1 > at /\ i + 1 \in DOMAIN r /\ r[i + 1] = seq[i])
  BY <1>1 DEF Longer
<1>5. ASSUME NEW n
      PROVE  Occurs(r, n) <=> Occurs(seq, n) \/ n = x
  <2>1. Occurs(r, n) => Occurs(seq, n) \/ n = x
    BY <1>1, <1>2, <1>3 DEF Occurs
  <2>2. Occurs(seq, n) \/ n = x => Occurs(r, n)
    BY <1>1, <1>4 DEF Occurs
  <2> QED
    BY <2>1, <2>2
<1>6. ASSUME Distinct(seq), ~Occurs(seq, x), NEW i \in DOMAIN r, NEW j \in DOMAIN r, r[i] = r[j]
      PROVE  i = j
  BY <1>1, <1>2, <1>3, <1>6 DEF Distinct, Occurs
<1> QED
  BY <1>5, <1>6 DEF Distinct

LEMMA RemoveHolds ==
    ASSUME NEW S, NEW seq \in Seq(S), NEW k \in 1..Len(seq), Distinct(seq)
    PROVE  LET r == RemoveAt(seq, k) IN
           /\ r \in Seq(S) /\ Len(r) = Len(seq) - 1 /\ Distinct(r) /\ seq[k] \in S
           /\ \A n : Occurs(r, n) <=> Occurs(seq, n) /\ n # seq[k]
           /\ \A w : Sorted(seq, w) => Sorted(r, w)
<1> DEFINE r == RemoveAt(seq, k)
<1>1. /\ r \in Seq(S) /\ Len(r) = Len(seq) - 1
      /\ \A i \in 1..Len(seq) - 1 : r[i] = IF i < k THEN seq[i] ELSE seq[i + 1]
  BY RemoveShape
<1> HIDE DEF r
<1>2. DOMAIN r = 1..Len(seq) - 1 /\ DOMAIN seq = 1..Len(seq) /\ Len(seq) \in Nat
  BY <1>1
<1>3. \A i \in DOMAIN r : (i < k /\ i \in DOMAIN seq /\ r[i] = seq[i])
                             \/ (i >= k /\ i + 1 \in DOMAIN seq /\ r[i] = seq[i + 1])
  BY <1>1, <1>2
<1>4. \A i \in DOMAIN seq : i = k \/ (i < k /\ i \in DOMAIN r /\ r[i] = seq[i])
                             \/ (i > k /\ i - 1 \in DOMAIN r /\ r[i - 1] = seq[i])
  BY <1>1, <1>2
<1>5. ASSUME NEW n
      PROVE  Occurs(r, n) <=> Occurs(seq, n) /\ n # seq[k]
  <2>1. Occurs(r, n) => Occurs(seq, n) /\ n # seq[k]
    BY <1>2, <1>3 DEF Occurs, Distinct
  <2>2. Occurs(seq, n) /\ n # seq[k] => Occurs(r, n)
    BY <1>4 DEF Occurs
  <2> QED
    BY <2>1, <2>2
<1>6. Distinct(r)
  BY <1>2, <1>3 DEF Distinct
<1>7. ASSUME NEW w, Sorted(seq, w), NEW i \in DOMAIN r, NEW j \in DOMAIN r, i < j
      PROVE  w[r[i]] <= w[r[j]]
  BY <1>2, <1>3, <1>7 DEF Sorted
<1> QED
  BY <1>1, <1>5, <1>6, <1>7 DEF r, Sorted

LEMMA TailHolds ==
    ASSUME NEW S, NEW seq \in Seq(S), seq # <<>>, Distinct(seq)
    PROVE  LET r == Tail(seq) IN
           /\ r \in Seq(S) /\ Len(r) = Len(seq) - 1 /\ Distinct(r) /\ Head(seq) \in S
           /\ \A n : Occurs(r, n) <=> Occurs(seq, n) /\ n # Head(seq)
           /\ \A w : Sorted(seq, w) => Sorted(r, w)
<1> DEFINE r == Tail(seq)
<1>1. /\ r \in Seq(S) /\ Len(r) = Len(seq) - 1 /\ Head(seq) = seq[1] /\ Head(seq) \in S
      /\ \A i \in 1..Len(r) : r[i] = seq[i + 1]
  BY HeadTailProperties
<1> HIDE DEF r
<1>2. /\ DOMAIN r = 1..Len(seq) - 1 /\ DOMAIN seq = 1..Len(seq) /\ Len(seq) \in Nat
      /\ 1 \in DOMAIN seq
  BY <1>1
<1>3. \A i \in DOMAIN r : i + 1 \in DOMAIN seq /\ i + 1 # 1 /\ r[i] = seq[i + 1] /\ i \in Nat
  BY <1>1, <1>2
<1>4. \A i \in DOMAIN seq : i = 1 \/ (i - 1 \in DOMAIN r /\ r[i - 1] = seq[i])
  BY <1>1, <1>2
<1>5. ASSUME NEW n
      PROVE  Occurs(r, n) <=> Occurs(seq, n) /\ n # Head(seq)
  <2>1. Occurs(r, n) => Occurs(seq, n) /\ n # Head(seq)
    BY <1>1, <1>2, <1>3 DEF Occurs, Distinct
  <2>2. Occurs(seq, n) /\ n # Head(seq) => Occurs(r, n)
    BY <1>1, <1>4 DEF Occurs
  <2> QED
    BY <2>1, <2>2
<1>6. Distinct(r)
  BY <1>3 DEF Distinct
<1>7. ASSUME NEW w, Sorted(seq, w), NEW i \in DOMAIN r, NEW j \in DOMAIN r, i < j
      PROVE  w[r[i]] <= w[r[j]]
  BY <1>3, <1>7 DEF Sorted
<1> QED
  BY <1>1, <1>5, <1>6, <1>7 DEF r, Sorted

(* core_sched_queue keeps the list sorted by the time put in. *)
LEMMA QueueHolds ==
    ASSUME NEW seq \in Seq(Nodes), NEW x \in Nodes, NEW w \in [Nodes -> Nat], NEW v \in Nat,
           NEW at \in 1..Len(seq) + 1, FirstLater(seq, x, [w EXCEPT ![x] = v], at),
           Distinct(seq), Sorted(seq, w), ~Occurs(seq, x)
    PROVE  LET r == InsertAt(seq, at, x) IN
           /\ r \in Seq(Nodes) /\ Len(r) = Len(seq) + 1 /\ Distinct(r)
           /\ \A n : Occurs(r, n) <=> Occurs(seq, n) \/ n = x
           /\ Sorted(r, [w EXCEPT ![x] = v])
<1> DEFINE r == InsertAt(seq, at, x)
           u == [w EXCEPT ![x] = v]
<1>1. r \in Seq(Nodes) /\ Longer(seq, r, at, x)
  BY InsertShape DEF Longer
<1> HIDE DEF r
<1>2. Distinct(r) /\ \A n : Occurs(r, n) <=> Occurs(seq, n) \/ n = x
  BY <1>1, LongerHolds
<1>3. /\ \A i \in DOMAIN seq : u[seq[i]] = w[seq[i]] /\ w[seq[i]] \in Nat
      /\ u[x] \in Nat
  BY DEF Occurs
<1>4. /\ \A j \in 1..at - 1 : u[x] >= u[seq[j]]
      /\ at <= Len(seq) => u[x] < u[seq[at]]
  BY DEF FirstLater
<1> HIDE DEF u
<1>5. /\ DOMAIN seq = 1..Len(seq) /\ DOMAIN r = 1..Len(seq) + 1 /\ Len(seq) \in Nat
      /\ at \in DOMAIN r /\ r[at] = x
  BY <1>1 DEF Longer
<1>6. \A i \in DOMAIN r : i < at => i \in DOMAIN seq /\ r[i] = seq[i]
  BY <1>1, <1>5 DEF Longer
<1>7. \A i \in DOMAIN r : i > at => i - 1 \in DOMAIN seq /\ i - 1 >= at /\ r[i] = seq[i - 1]
  BY <1>1, <1>5 DEF Longer
<1>8. ASSUME NEW i \in DOMAIN r, NEW j \in DOMAIN r, i < j
      PROVE  u[r[i]] <= u[r[j]]
  <2>1. CASE j < at
    BY <1>3, <1>5, <1>6, <1>8, <2>1 DEF Sorted
  <2>2. CASE j = at
    BY <1>4, <1>3, <1>5, <1>6, <1>8, <2>2
  <2>3. CASE i = at
    <3>1. at # Len(seq) + 1 /\ at \in DOMAIN seq
      BY <1>5, <1>8, <2>3
    <3>2. u[seq[at]] <= u[seq[j - 1]]
      BY <1>3, <1>5, <1>7, <1>8, <2>3, <3>1 DEF Sorted
    <3>3. r[j] = seq[j - 1] /\ r[i] = x /\ j - 1 \in DOMAIN seq
      BY <1>5, <1>7, <1>8, <2>3
    <3> QED
      BY <1>3, <1>4, <3>1, <3>2, <3>3
  <2>4. CASE i < at /\ j > at
    BY <1>3, <1>5, <1>6, <1>7, <2>4 DEF Sorted
  <2>5. CASE i > at
    <3>1. j > at /\ i - 1 < j - 1
      BY <1>5, <1>8, <2>5
    <3>2. /\ i - 1 \in DOMAIN seq /\ r[i] = seq[i - 1]
          /\ j - 1 \in DOMAIN seq /\ r[j] = seq[j - 1]
      BY <1>7, <2>5, <3>1
    <3> QED
      BY <1>3, <3>1, <3>2 DEF Sorted
  <2> QED
    BY <1>5, <1>8, <2>1, <2>2, <2>3, <2>4, <2>5
<1> QED
  BY <1>1, <1>2, <1>8 DEF r, u, Sorted, Longer

LEMMA ConsHolds ==
    ASSUME NEW S, NEW seq \in Seq(S), NEW x \in S, Distinct(seq), ~Occurs(seq, x)
    PROVE  LET r == <<x>> \o seq IN
           /\ r \in Seq(S) /\ Distinct(r)
           /\ \A n : Occurs(r, n) <=> Occurs(seq, n) \/ n = x
<1> DEFINE r == <<x>> \o seq
<1>1. r \in Seq(S) /\ Longer(seq, r, 1, x)
  BY ConsShape DEF Longer
<1> HIDE DEF r
<1>2. Distinct(r) /\ \A n : Occurs(r, n) <=> Occurs(seq, n) \/ n = x
  BY <1>1, LongerHolds
<1> QED
  BY <1>1, <1>2 DEF r

--------------------------------------------------------------------------------
(* The invariant *)

Shape(w) ==
    /\ DOMAIN w = {"at", "now", "t", "left", "next"}
    /\ w.now \in Nat /\ w.t \in Nodes \cup {None} /\ w.next \in {"idle", "tick"}

Types ==
    /\ ready \in Seq(Nodes) /\ pool \in Seq(Nodes) /\ alloc \subseteq Nodes
    /\ wake \in [Nodes -> Nat] /\ slot \in Nodes \cup {None} /\ events \in Seq(Kinds)
    /\ clock \in Nat /\ tick \in Nat /\ pending \in Nat \cup {None}
    /\ DOMAIN th = Procs /\ \A p \in Procs : Shape(th[p])

(***************************************************************************)
(* Where a process may be with a node in hand.                             *)
(***************************************************************************)
Where(p) ==
    /\ th[p].at \in {"exec", "fault", "free"} => th[p].t \in Nodes
    /\ th[p].at \notin {"exec", "fault", "faulted", "free"} => th[p].t = None
    /\ th[p].at = "free" => p = "client"
    /\ p \notin Runners => ~InPass(p)

(***************************************************************************)
(* One pass at a time, and only over a loaded script.                      *)
(***************************************************************************)
Control ==
    /\ \A p \in Procs : Where(p) /\ (InPass(p) => loaded)
    /\ \A p, q \in Procs : InPass(p) /\ InPass(q) => p = q

InHand(n) == \E p \in Procs : th[p].t = n

(* A node is allocated when some place has it, and one place has it. *)
Place(n) ==
    /\ n \in alloc <=> Occurs(ready, n) \/ Occurs(pool, n) \/ slot = n \/ InHand(n)
    /\ Occurs(ready, n) => ~Occurs(pool, n) /\ slot # n /\ ~InHand(n)
    /\ Occurs(pool, n) => slot # n /\ ~InHand(n)
    /\ slot = n => ~InHand(n)
    /\ \A p, q \in Procs : th[p].t = n /\ th[q].t = n => p = q

Placed ==
    /\ \A n \in Nodes : Place(n)
    /\ Distinct(ready) /\ Distinct(pool)

Counted == thread_count = Len(ready)

Keys == ~loaded => ~held

(***************************************************************************)
(* A fault in the slot that nobody has announced is being announced; one   *)
(* that replaced another needs no announcement.                            *)
(***************************************************************************)
Told == told \/ lost \/ Occurs(events, "fault")
Announced ==
    /\ slot # None => Told \/ \E p \in Procs : th[p].at = "faulted"
    /\ \A p \in Procs : th[p].at = "faulted" /\ th[p].t # None /\ slot # None => Told

Whole == Control /\ Placed /\ Counted /\ Keys /\ Announced

Inv ==
    /\ Types /\ Sorted(ready, wake)
    /\ ~corrupt => Whole
--------------------------------------------------------------------------------
(* A process that moves *)

Moved(p, pc, t) ==
    /\ DOMAIN th' = Procs /\ Shape(th'[p]) /\ th'[p].at = pc /\ th'[p].t = t
    /\ \A q \in Procs : q # p => th'[q] = th[q]

LEMMA GotoMoves ==
    ASSUME Types, NEW p \in Procs, NEW pc, Goto(p, pc)
    PROVE  Moved(p, pc, th[p].t)
BY DEF Types, Shape, Goto, Moved

LEMMA HandMoves ==
    ASSUME Types, NEW p \in Procs, NEW pc, NEW t \in Nodes \cup {None}, Hand(p, pc, t)
    PROVE  Moved(p, pc, t)
<1>1. /\ DOMAIN th' = Procs /\ \A q \in Procs : q # p => th'[q] = th[q]
      /\ th'[p] = [[th[p] EXCEPT !.at = pc] EXCEPT !.t = t]
  BY DEF Types, Hand
<1> DEFINE w == [th[p] EXCEPT !.at = pc]
<1>2. Shape(w) /\ w.at = pc
  BY DEF Types, Shape
<1> HIDE DEF w
<1>3. th'[p] = [w EXCEPT !.t = t]
  BY <1>1 DEF w
<1> QED
  BY <1>1, <1>2, <1>3 DEF Moved, Shape

(* A place and a time. *)
LEMMA TimeMoves ==
    ASSUME Types, NEW p \in Procs, NEW pc, NEW now \in Nat,
           th' = [th EXCEPT ![p].at = pc, ![p].now = now]
    PROVE  Moved(p, pc, th[p].t)
<1>1. /\ DOMAIN th' = Procs /\ \A q \in Procs : q # p => th'[q] = th[q]
      /\ th'[p] = [[th[p] EXCEPT !.at = pc] EXCEPT !.now = now]
  BY DEF Types
<1> DEFINE w == [th[p] EXCEPT !.at = pc]
<1>2. Shape(w) /\ w.at = pc /\ w.t = th[p].t
  BY DEF Types, Shape
<1> HIDE DEF w
<1>3. th'[p] = [w EXCEPT !.now = now]
  BY <1>1 DEF w
<1> QED
  BY <1>1, <1>2, <1>3 DEF Moved, Shape

LEMMA IdleShape == Shape(Idle) /\ Idle.at = "idle" /\ Idle.t = None
  BY DEF Idle, Shape

LEMMA ReturnMoves ==
    ASSUME Types, NEW p \in Procs, Return(p)
    PROVE  Moved(p, th[p].next, None) /\ th[p].next \in {"idle", "tick"}
<1>1. th' = [th EXCEPT ![p] = [Idle EXCEPT !.at = th[p].next]]
  BY DEF Return
<1>2. Shape(Idle) /\ Idle.t = None
  BY IdleShape
<1>3. DOMAIN th = Procs /\ Shape(th[p])
  BY DEF Types
<1> QED
  BY <1>1, <1>2, <1>3 DEF Moved, Shape

(* Where a process that moves may go. *)
Fits(p, pc, t) ==
    /\ pc \in {"exec", "fault", "free"} => t \in Nodes
    /\ pc \notin {"exec", "fault", "faulted", "free"} => t = None
    /\ pc = "free" => p = "client"

LEMMA MoveControl ==
    ASSUME Control, NEW p \in Procs, NEW pc, NEW t, Moved(p, pc, t), Fits(p, pc, t),
           loaded => loaded', pc \in PassAt => InPass(p)
    PROVE  Control'
<1>1. \A q \in Procs : InPass(q)' => InPass(q)
  BY DEF InPass, Moved
<1>2. ASSUME NEW q \in Procs
      PROVE  Where(q)'
  <2>1. CASE q = p
    <3>1. InPass(p)' => p \in Runners
      BY <1>1 DEF Control, Where
    <3> QED
      BY <2>1, <3>1 DEF Where, Moved, Fits
  <2>2. CASE q # p
    <3>1. th'[q] = th[q] /\ Where(q)
      BY <2>2 DEF Control, Moved
    <3> QED
      BY <3>1 DEF Where, InPass
  <2> QED
    BY <2>1, <2>2
<1> QED
  BY <1>1, <1>2 DEF Control

LEMMA MoveHands ==
    ASSUME Placed, NEW p \in Procs, NEW pc, NEW t, Moved(p, pc, t), NEW n \in Nodes
    PROVE  /\ InHand(n)' <=> t = n \/ (InHand(n) /\ th[p].t # n)
           /\ (t = n => ~InHand(n) \/ th[p].t = n) =>
                 \A q, r \in Procs : th'[q].t = n /\ th'[r].t = n => q = r
<1>1. \A q, r \in Procs : th[q].t = n /\ th[r].t = n => q = r
  BY DEF Placed, Place
<1> QED
  BY <1>1 DEF Moved, InHand

(* A process that moves with what it has in hand. *)
LEMMA MovePlaced ==
    ASSUME Placed, NEW p \in Procs, NEW pc, Moved(p, pc, th[p].t),
           UNCHANGED <<ready, pool, slot, alloc>>
    PROVE  Placed'
<1>1. ASSUME NEW n \in Nodes
      PROVE  Place(n)'
  <2>1. InHand(n)' <=> InHand(n)
    BY MoveHands DEF InHand
  <2>2. \A q, r \in Procs : th'[q].t = n /\ th'[r].t = n => q = r
    BY MoveHands
  <2> QED
    BY <2>1, <2>2 DEF Placed, Place, Occurs
<1> QED
  BY <1>1 DEF Placed, Distinct

LEMMA MoveAnnounced ==
    ASSUME Announced, NEW p \in Procs, NEW pc, NEW t, Moved(p, pc, t),
           UNCHANGED <<slot, told, lost, events>>, th[p].at # "faulted", pc # "faulted"
    PROVE  Announced'
<1>1. Told' <=> Told
  BY Zenon DEF Told, Occurs
<1>2. \A q \in Procs : th'[q].at = "faulted" => th[q].at = "faulted" /\ th'[q].t = th[q].t
  BY DEF Moved
<1>3. (\E q \in Procs : th[q].at = "faulted") => \E q \in Procs : th'[q].at = "faulted"
  BY DEF Moved
<1> QED
  BY <1>1, <1>2, <1>3 DEF Announced

(* A process that moves and touches no list, no fault and no key. *)
LEMMA QuietMove ==
    ASSUME Inv, ~corrupt, NEW p \in Procs, NEW pc, NEW t, Moved(p, pc, t), t = th[p].t,
           Fits(p, pc, t), pc \in PassAt => InPass(p),
           UNCHANGED <<loaded, list, fault, held>>, th[p].at # "faulted", pc # "faulted",
           clock' \in Nat, tick' \in Nat, pending' \in Nat \cup {None}
    PROVE  Inv'
<1>1. /\ Types /\ Sorted(ready, wake) /\ Control /\ Placed /\ Counted /\ Keys /\ Announced
      /\ UNCHANGED <<ready, pool, alloc, wake, thread_count, slot, events, told, lost>>
  BY DEF Inv, Whole, list, fault
<1>2. Types'
  BY <1>1 DEF Types, Moved
<1>3. Sorted(ready, wake)'
  BY <1>1 DEF Sorted
<1>4. Control' /\ Placed' /\ Announced'
  BY <1>1, MoveControl, MovePlaced, MoveAnnounced
<1>5. Counted' /\ Keys'
  BY <1>1 DEF Counted, Keys
<1> QED
  BY <1>2, <1>3, <1>4, <1>5 DEF Inv, Whole

(* No process moves, and no list, fault or key is touched. *)
LEMMA QuietStep ==
    ASSUME Inv, UNCHANGED <<loaded, list, fault, held, th, corrupt>>,
           clock' \in Nat, tick' \in Nat, pending' \in Nat \cup {None}
    PROVE  Inv'
<1>1. UNCHANGED <<ready, pool, alloc, wake, thread_count, slot, events, told, lost>>
  BY DEF list, fault
<1>2. Types' /\ Sorted(ready, wake)'
  BY <1>1 DEF Inv, Types, Sorted
<1>3. ASSUME ~corrupt'
      PROVE  Whole'
  <2>1. Whole
    BY <1>3 DEF Inv
  <2>2. Control'
    BY <2>1 DEF Whole, Control, Where, InPass
  <2>3. Placed' /\ Counted'
    BY <1>1, <2>1 DEF Whole, Placed, Place, Occurs, InHand, Distinct, Counted
  <2>4. Keys'
    BY <2>1 DEF Whole, Keys
  <2>5. Told' <=> Told
    BY <1>1, Zenon DEF Told, Occurs
  <2>6. Announced'
    BY <1>1, <2>1, <2>5 DEF Whole, Announced
  <2> QED
    BY <2>2, <2>3, <2>4, <2>6 DEF Whole
<1> QED
  BY <1>2, <1>3 DEF Inv

LEMMA NoneIsNoNode == None \notin Nodes /\ None \notin Nat /\ EventMax \in Nat \ {0}
BY SchedConstants

--------------------------------------------------------------------------------
(* Steps of a pass that touch no list *)

LEMMA EnterKeeps ==
    ASSUME Inv, ~corrupt, NEW p \in Runners, Enter(p)
    PROVE  Inv'
<1>0. /\ Types /\ p \in Procs /\ th[p].at = "enter" /\ th[p].t = None /\ Shape(th[p])
      /\ UNCHANGED <<loaded, list, fault, held>>
  BY DEF Inv, Whole, Types, Control, Where, Runners, Procs, Enter, At
<1>1. clock' \in Nat /\ tick' \in Nat /\ pending' \in Nat \cup {None}
  BY <1>0 DEF Enter, clockVars, Types, Shape
<1>2. CASE Goto(p, "latch")
  BY <1>0, <1>1, <1>2, GotoMoves, QuietMove DEF Fits, PassAt
<1>3. CASE Return(p)
  BY <1>0, <1>1, <1>3, ReturnMoves, QuietMove DEF Fits, PassAt
<1> QED
  BY <1>2, <1>3 DEF Enter

(* A pass that starts alone and with a script is the pass. *)
LEMMA LatchKeeps ==
    ASSUME Inv, ~corrupt, NEW p \in Runners, Latch(p)
    PROVE  Inv'
<1>0. /\ Types /\ Whole /\ p \in Procs /\ th[p].at = "latch" /\ th[p].t = None
      /\ UNCHANGED <<loaded, ready, pool, alloc, wake, thread_count, slot, events, told, lost,
                     held, clock, tick, pending>>
  BY DEF Inv, Whole, Control, Where, Runners, Procs, Latch, At, list, fault, clockVars
<1>1. Moved(p, "sweep", None)
  BY <1>0, GotoMoves DEF Latch
<1>2. Types' /\ Sorted(ready, wake)'
  BY <1>0, <1>1 DEF Inv, Types, Moved, Sorted
<1>3. ASSUME ~corrupt'
      PROVE  Whole'
  <2>1. loaded /\ \A q \in Procs : q # p => ~InPass(q)
    <3>1. corrupt' = (~loaded \/ \E q \in Procs \ {p} : InPass(q))
      BY DEF Latch
    <3>2. ~(~loaded \/ \E q \in Procs \ {p} : InPass(q))
      BY <1>3, <3>1, Zenon
    <3> QED
      BY <3>2
  <2>2. \A q \in Procs : q # p => ~InPass(q)'
    BY <1>1, <2>1 DEF InPass, Moved
  <2>3. ASSUME NEW q \in Procs
        PROVE  Where(q)'
    <3>1. q # p => Where(q) /\ th'[q] = th[q]
      BY <1>0, <1>1 DEF Whole, Control, Moved
    <3>2. q # p => Where(q)'
      BY <3>1 DEF Where, InPass
    <3>3. Where(p)'
      BY <1>1 DEF Where, Moved
    <3> QED
      BY <3>2, <3>3
  <2>4. Control'
    BY <1>0, <2>1, <2>2, <2>3 DEF Control
  <2>5. Placed' /\ Announced'
    BY <1>0, <1>1, MovePlaced, MoveAnnounced DEF Whole
  <2> QED
    BY <1>0, <2>4, <2>5 DEF Whole, Counted, Keys
<1> QED
  BY <1>2, <1>3 DEF Inv

LEMMA PendKeeps ==
    ASSUME Inv, ~corrupt, NEW p \in Runners, Pend(p)
    PROVE  Inv'
<1>0. /\ Types /\ p \in Procs /\ th[p].at = "pend" /\ th[p].t = None
      /\ UNCHANGED <<loaded, list, fault, held>>
  BY DEF Inv, Whole, Types, Control, Where, Runners, Procs, Pend, At
<1>1. clock' \in Nat /\ tick' \in Nat /\ pending' \in Nat \cup {None}
  BY <1>0 DEF Pend, clockVars, Types, Shape
<1>2. \/ Moved(p, "stop", None) \/ Moved(p, "sweep", None)
  <2>1. CASE pending = None
    BY <1>0, <2>1, TimeMoves DEF Pend
  <2>2. CASE pending # None
    BY <1>0, <2>2, TimeMoves DEF Pend, Types
  <2> QED
    BY <2>1, <2>2
<1> QED
  BY <1>0, <1>1, <1>2, QuietMove DEF Fits, PassAt, InPass

LEMMA StopKeeps ==
    ASSUME Inv, ~corrupt, NEW p \in Runners, Stop(p)
    PROVE  Inv'
<1>0. /\ Types /\ p \in Procs /\ th[p].at = "stop" /\ th[p].t = None
      /\ UNCHANGED <<loaded, list, fault, held>>
  BY DEF Inv, Whole, Types, Control, Where, Runners, Procs, Stop, At
<1>1. clock' \in Nat /\ tick' \in Nat /\ pending' \in Nat \cup {None}
  BY <1>0 DEF Stop, clockVars, Types
<1>2. Moved(p, "arm", None)
  BY <1>0, GotoMoves DEF Stop
<1> QED
  BY <1>0, <1>1, <1>2, QuietMove DEF Fits, PassAt

LEMMA ArmKeeps ==
    ASSUME Inv, ~corrupt, NEW p \in Runners, Arm(p) \/ KeSetTimer(p)
    PROVE  Inv'
<1>0. /\ Types /\ p \in Procs /\ th[p].at \in {"arm", "setTimer"} /\ th[p].t = None
      /\ UNCHANGED <<loaded, list, fault, held>>
  BY DEF Inv, Whole, Types, Control, Where, Runners, Procs, Arm, KeSetTimer, At
<1>1. clock' \in Nat /\ tick' \in Nat /\ pending' \in Nat \cup {None}
  BY <1>0 DEF Arm, KeSetTimer, pass, Types
<1>2. CASE Return(p)
  BY <1>0, <1>1, <1>2, ReturnMoves, QuietMove DEF Fits, PassAt
<1>3. CASE ~Return(p)
  <2>1. /\ ready # <<>>
        /\ th' = [th EXCEPT ![p].at = "setTimer", ![p].now = wake[Head(ready)]]
    BY <1>3 DEF Arm, KeSetTimer
  <2>2. wake[Head(ready)] \in Nat
    BY <1>0, <2>1, HeadTailProperties DEF Types
  <2>3. Moved(p, "setTimer", None)
    BY <1>0, <2>1, <2>2, TimeMoves
  <2> QED
    BY <1>0, <1>1, <2>3, QuietMove DEF Fits, PassAt
<1> QED
  BY <1>2, <1>3
--------------------------------------------------------------------------------
(* Steps that move nodes *)

(* Each place of n after p has moved with t in hand. *)
After(n, p, t) ==
    LET h == t = n \/ (InHand(n) /\ th[p].t # n) IN
    /\ n \in alloc' <=> Occurs(ready', n) \/ Occurs(pool', n) \/ slot' = n \/ h
    /\ Occurs(ready', n) => ~Occurs(pool', n) /\ slot' # n /\ ~h
    /\ Occurs(pool', n) => slot' # n /\ ~h
    /\ slot' = n => ~h
    /\ t = n => ~InHand(n) \/ th[p].t = n

LEMMA PlaceStep ==
    ASSUME Placed, NEW p \in Procs, NEW pc, NEW t, Moved(p, pc, t),
           Distinct(ready'), Distinct(pool'), \A n \in Nodes : After(n, p, t)
    PROVE  Placed'
<1>1. ASSUME NEW n \in Nodes
      PROVE  Place(n)'
  <2>1. /\ InHand(n)' <=> t = n \/ (InHand(n) /\ th[p].t # n)
        /\ \A q, r \in Procs : th'[q].t = n /\ th'[r].t = n => q = r
    BY MoveHands DEF After
  <2>2. After(n, p, t)
    OBVIOUS
  <2> QED
    BY <2>1, <2>2 DEF After, Place
<1> QED
  BY <1>1 DEF Placed

(* A step of a process that unloads nothing and leaves the keys to a script. *)
LEMMA NodeStep ==
    ASSUME Inv, ~corrupt, NEW p \in Procs, NEW pc, NEW t, Moved(p, pc, t),
           Fits(p, pc, t), pc \in PassAt => InPass(p),
           loaded => loaded', loaded \/ held' = held, UNCHANGED <<clock, tick, pending>>,
           ready' \in Seq(Nodes), pool' \in Seq(Nodes), alloc' \subseteq Nodes,
           wake' \in [Nodes -> Nat], slot' \in Nodes \cup {None}, events' \in Seq(Kinds),
           Sorted(ready', wake'), Distinct(ready'), Distinct(pool'), thread_count' = Len(ready'),
           \A n \in Nodes : After(n, p, t), Announced'
    PROVE  Inv'
<1>1. Types /\ Control /\ Placed /\ Keys
  BY DEF Inv, Whole
<1>2. Types'
  BY <1>1 DEF Types, Moved
<1>3. Control' /\ Placed'
  BY <1>1, MoveControl, PlaceStep
<1>4. Counted' /\ Keys'
  BY <1>1 DEF Counted, Keys
<1> QED
  BY <1>2, <1>3, <1>4 DEF Inv, Whole

LEMMA StayMoves ==
    ASSUME Types, NEW p \in Procs, th' = th
    PROVE  Moved(p, th[p].at, th[p].t)
BY DEF Types, Moved

LEMMA KeepAnnounced ==
    ASSUME Announced, NEW p \in Procs, NEW pc, NEW t, Moved(p, pc, t), slot' = slot,
           Told => Told', th[p].at # "faulted", pc # "faulted"
    PROVE  Announced'
<1>1. \A q \in Procs : th'[q].at = "faulted" => th[q].at = "faulted" /\ th'[q].t = th[q].t
  BY DEF Moved
<1>2. (\E q \in Procs : th[q].at = "faulted") => \E q \in Procs : th'[q].at = "faulted"
  BY DEF Moved
<1> QED
  BY <1>1, <1>2 DEF Announced

LEMMA AllocHolds ==
    ASSUME Types, Placed, NEW n \in Nodes, ThreadAlloc(n)
    PROVE  /\ pool' \in Seq(Nodes) /\ Distinct(pool') /\ alloc' = alloc \cup {n}
           /\ \A m : Occurs(pool', m) <=> Occurs(pool, m) /\ m # n
           /\ ~Occurs(ready, n) /\ slot # n /\ ~InHand(n)
<1>1. Place(n) /\ pool \in Seq(Nodes) /\ Distinct(pool)
  BY DEF Types, Placed
<1>2. CASE pool # <<>> /\ n = Head(pool) /\ pool' = Tail(pool) /\ alloc' = alloc
  <2>1. /\ pool' \in Seq(Nodes) /\ Distinct(pool')
        /\ \A m : Occurs(pool', m) <=> Occurs(pool, m) /\ m # n
    BY <1>1, <1>2, TailHolds
  <2>2. Occurs(pool, n)
    BY <1>1, <1>2, HeadTailProperties DEF Occurs
  <2> QED
    BY <1>1, <1>2, <2>1, <2>2 DEF Place
<1>3. CASE n \in Nodes \ alloc /\ alloc' = alloc \cup {n} /\ pool' = pool
  <2>1. ~Occurs(pool, n) /\ ~Occurs(ready, n) /\ slot # n /\ ~InHand(n)
    BY <1>1, <1>3 DEF Place
  <2>2. \A m : Occurs(pool, m) => m # n
    BY <2>1, Zenon
  <2> QED
    BY <1>1, <1>3, <2>1, <2>2
<1> QED
  BY <1>2, <1>3 DEF ThreadAlloc

LEMMA EnqueueHolds ==
    ASSUME NEW seq \in Seq(Nodes), Distinct(seq), wake \in [Nodes -> Nat], Sorted(seq, wake),
           NEW x \in Nodes, ~Occurs(seq, x), NEW v \in Nat, Enqueue(seq, x, [wake EXCEPT ![x] = v])
    PROVE  /\ ready' \in Seq(Nodes) /\ Len(ready') = Len(seq) + 1 /\ Distinct(ready')
           /\ \A n : Occurs(ready', n) <=> Occurs(seq, n) \/ n = x
           /\ Sorted(ready', wake') /\ wake' \in [Nodes -> Nat]
<1> DEFINE u == [wake EXCEPT ![x] = v]
<1>1. wake' = u /\ u \in [Nodes -> Nat]
  BY DEF Enqueue
<1>2. PICK at \in 1..Len(seq) + 1 : FirstLater(seq, x, u, at) /\ ready' = InsertAt(seq, at, x)
  BY DEF Enqueue
<1> QED
  BY <1>1, <1>2, QueueHolds

LEMMA TailOccurs ==
    ASSUME NEW S, NEW seq \in Seq(S), NEW e, Occurs(seq, e)
    PROVE  seq # <<>> /\ (Head(seq) = e \/ Occurs(Tail(seq), e))
<1>1. PICK i \in 1..Len(seq) : seq[i] = e
  BY DEF Occurs
<1>2. /\ seq # <<>> /\ Head(seq) = seq[1] /\ DOMAIN Tail(seq) = 1..Len(seq) - 1
      /\ \A j \in 1..Len(seq) - 1 : Tail(seq)[j] = seq[j + 1]
  <2>1. seq # <<>>
    OBVIOUS
  <2>2. /\ Head(seq) = seq[1] /\ Len(Tail(seq)) = Len(seq) - 1 /\ Tail(seq) \in Seq(S)
        /\ \A j \in 1..Len(Tail(seq)) : Tail(seq)[j] = seq[j + 1]
    BY <2>1, HeadTailProperties
  <2> QED
    BY <2>1, <2>2
<1>3. CASE i = 1
  BY <1>1, <1>2, <1>3
<1>4. CASE i # 1
  <2>1. i - 1 \in DOMAIN Tail(seq) /\ Tail(seq)[i - 1] = e
    BY <1>1, <1>2, <1>4
  <2> QED
    BY <1>2, <2>1 DEF Occurs
<1> QED
  BY <1>3, <1>4

(* A queued event keeps a fault among the events, or lost. *)
LEMMA PostHolds ==
    ASSUME events \in Seq(Kinds), NEW e \in Kinds, PostEvent(e)
    PROVE  /\ events' \in Seq(Kinds)
           /\ e = "fault" => Occurs(events', "fault")
           /\ Occurs(events, "fault") => Occurs(events', "fault") \/ lost'
           /\ lost => lost'
<1> DEFINE s == IF Len(events) >= EventMax THEN Tail(events) ELSE events
           r == Append(s, e)
<1>1. Len(events) >= EventMax => events # <<>> /\ Len(events) \in Nat
  BY NoneIsNoNode
<1>2. s \in Seq(Kinds)
  BY <1>1
<1>3. /\ events' = r
      /\ lost' = (lost \/ (Len(events) >= EventMax /\ Head(events) = "fault"))
  BY DEF PostEvent
<1>4. ASSUME Occurs(events, "fault")
      PROVE  Occurs(s, "fault") \/ (Len(events) >= EventMax /\ Head(events) = "fault")
  <2>2. CASE ~(Len(events) >= EventMax)
    BY <1>4, <2>2
  <2>3. CASE Len(events) >= EventMax
    BY <1>4, <2>3, TailOccurs
  <2> QED
    BY <2>2, <2>3
<1> HIDE DEF s
<1>5. /\ r \in Seq(Kinds) /\ DOMAIN r = 1..Len(s) + 1 /\ r[Len(s) + 1] = e
      /\ DOMAIN s = 1..Len(s) /\ Len(s) \in Nat /\ \A i \in DOMAIN s : r[i] = s[i]
  BY <1>2, AppendProperties
<1>6. /\ e = "fault" => Occurs(r, "fault")
      /\ Occurs(s, "fault") => Occurs(r, "fault")
  BY <1>5 DEF Occurs
<1>7. lost => lost'
  BY <1>3, Zenon
<1>8. Len(events) >= EventMax /\ Head(events) = "fault" => lost'
  BY <1>3, Zenon
<1> QED
  BY <1>3, <1>4, <1>5, <1>6, <1>7, <1>8
(* What a pass that runs a thread keeps. *)
ExecKeeps(p) ==
    /\ th[p].at = "exec" /\ th[p].t \in Nodes /\ InPass(p)
    /\ UNCHANGED <<loaded, held, clock, tick, pending, slot>>

LEMMA SpendFacts ==
    ASSUME Inv, ~corrupt, NEW p \in Runners, Spend(p)
    PROVE  ExecKeeps(p) /\ (UNCHANGED <<events, lost>> => (Told => Told'))
<1>1. /\ p \in Procs /\ th[p].at = "exec" /\ told' = told
      /\ UNCHANGED <<loaded, held, clock, tick, pending, slot>>
  BY DEF Spend, At, clockVars, Runners, Procs
<1>2. th[p].t \in Nodes /\ InPass(p)
  BY <1>1 DEF Inv, Whole, Control, Where, InPass, PassAt
<1>3. ASSUME events' = events, lost' = lost
      PROVE  Told => Told'
  BY <1>1, <1>3, Zenon DEF Told, Occurs
<1> QED
  BY <1>1, <1>2, <1>3 DEF ExecKeeps

(* The node in hand of a pass is in no list. *)
LEMMA HandIsApart ==
    ASSUME Placed, NEW p \in Procs, th[p].t \in Nodes
    PROVE  LET t == th[p].t IN
           t \in alloc /\ ~Occurs(ready, t) /\ ~Occurs(pool, t) /\ slot # t /\ InHand(t)
BY DEF Placed, Place, InHand

LEMMA PostKeeps ==
    ASSUME Inv, ~corrupt, NEW p \in Runners, Post(p)
    PROVE  Inv'
<1>1. Spend(p) /\ UNCHANGED <<list, th>>
  BY DEF Post
<1>2. /\ Types /\ Whole /\ p \in Procs /\ ExecKeeps(p) /\ Sorted(ready, wake)
      /\ UNCHANGED <<ready, pool, wake, thread_count, alloc>>
  BY <1>1, SpendFacts DEF Inv, Runners, Procs, list
<1>3. Moved(p, "exec", th[p].t)
  BY <1>1, <1>2, StayMoves DEF ExecKeeps
<1>4. events' \in Seq(Kinds) /\ (Told => Told')
  <2>1. CASE UNCHANGED <<events, lost>>
    BY <1>1, <1>2, <2>1, SpendFacts DEF Types
  <2>2. ASSUME NEW e \in {"press", "release", "debug"}, PostEvent(e)
        PROVE  events' \in Seq(Kinds) /\ (Told => Told')
    <3>1. /\ events' \in Seq(Kinds) /\ lost => lost'
          /\ Occurs(events, "fault") => Occurs(events', "fault") \/ lost'
      BY <1>2, <2>2, PostHolds DEF Types, Kinds
    <3>2. told' = told
      BY <1>1 DEF Spend
    <3>3. events' \in Seq(Kinds)
      BY <1>2, <2>2, PostHolds DEF Types, Kinds
    <3>4. lost => lost'
      BY <2>2 DEF PostEvent
    <3>5. Told => Told'
      BY <3>1, <3>2, <3>4, Zenon DEF Told
    <3> QED
      BY <3>3, <3>5
  <2> QED
    BY <2>1, <2>2 DEF Post
<1>5. Announced'
  BY <1>2, <1>3, <1>4, KeepAnnounced DEF Whole, ExecKeeps
<1>6. \A n \in Nodes : After(n, p, th[p].t)
  BY <1>2 DEF Whole, Placed, Place, After, ExecKeeps, InHand
<1> QED
  BY <1>2, <1>3, <1>4, <1>5, <1>6, NodeStep
     DEF Whole, Placed, Counted, Fits, ExecKeeps, Types

LEMMA ForkKeeps ==
    ASSUME Inv, ~corrupt, NEW p \in Runners, Fork(p)
    PROVE  Inv'
<1>1. Spend(p) /\ UNCHANGED <<events, lost, th>> /\ thread_count' = thread_count + 1
  BY DEF Fork
<1>2. Types /\ Whole /\ p \in Procs /\ ExecKeeps(p) /\ Sorted(ready, wake) /\ (Told => Told')
  BY <1>1, SpendFacts DEF Inv, Runners, Procs
<1>3. Moved(p, "exec", th[p].t)
  BY <1>1, <1>2, StayMoves DEF ExecKeeps
<1>4. PICK n \in Nodes : /\ ThreadAlloc(n)
                         /\ Enqueue(ready, n, [wake EXCEPT ![n] = wake[th[p].t]])
  BY DEF Fork
<1>5. /\ pool' \in Seq(Nodes) /\ Distinct(pool') /\ alloc' = alloc \cup {n}
      /\ \A m : Occurs(pool', m) <=> Occurs(pool, m) /\ m # n
      /\ ~Occurs(ready, n) /\ slot # n /\ ~InHand(n)
  BY <1>2, <1>4, AllocHolds DEF Whole
<1>6. /\ ready' \in Seq(Nodes) /\ Len(ready') = Len(ready) + 1 /\ Distinct(ready')
      /\ \A m : Occurs(ready', m) <=> Occurs(ready, m) \/ m = n
      /\ Sorted(ready', wake') /\ wake' \in [Nodes -> Nat]
  BY <1>2, <1>4, <1>5, EnqueueHolds DEF Whole, Placed, Types, ExecKeeps
<1>7. Announced'
  BY <1>2, <1>3, KeepAnnounced DEF Whole, ExecKeeps
<1>8. \A m \in Nodes : After(m, p, th[p].t)
  BY <1>2, <1>5, <1>6 DEF Whole, Placed, Place, After, ExecKeeps, InHand
<1> QED
  BY <1>1, <1>2, <1>3, <1>5, <1>6, <1>7, <1>8, NodeStep
     DEF Whole, Counted, Fits, ExecKeeps, Types

LEMMA WakeKeeps ==
    ASSUME Inv, ~corrupt, NEW p \in Runners, NEW i \in DOMAIN ready, Wake(p, i)
    PROVE  Inv'
<1>1. Spend(p) /\ UNCHANGED <<pool, thread_count, alloc, events, lost, th>>
  BY DEF Wake
<1>2. Types /\ Whole /\ p \in Procs /\ ExecKeeps(p) /\ Sorted(ready, wake) /\ (Told => Told')
  BY <1>1, SpendFacts DEF Inv, Runners, Procs
<1>3. Moved(p, "exec", th[p].t)
  BY <1>1, <1>2, StayMoves DEF ExecKeeps
<1> DEFINE s == RemoveAt(ready, i)
<1>4. /\ s \in Seq(Nodes) /\ Len(s) = Len(ready) - 1 /\ Distinct(s) /\ ready[i] \in Nodes
      /\ \A n : Occurs(s, n) <=> Occurs(ready, n) /\ n # ready[i]
      /\ Sorted(s, wake)
  <2>1. i \in 1..Len(ready) /\ ready \in Seq(Nodes) /\ Distinct(ready)
    BY <1>2 DEF Whole, Placed, Types
  <2> QED
    BY <1>2, <2>1, RemoveHolds
<1>5. Enqueue(s, ready[i], [wake EXCEPT ![ready[i]] = wake[th[p].t]])
  BY DEF Wake
<1> HIDE DEF s
<1>6. /\ ready' \in Seq(Nodes) /\ Len(ready') = Len(s) + 1 /\ Distinct(ready')
      /\ \A m : Occurs(ready', m) <=> Occurs(s, m) \/ m = ready[i]
      /\ Sorted(ready', wake') /\ wake' \in [Nodes -> Nat]
  BY <1>2, <1>4, <1>5, EnqueueHolds DEF Types, ExecKeeps
<1>7. Announced'
  BY <1>2, <1>3, KeepAnnounced DEF Whole, ExecKeeps
<1>8. Len(ready') = Len(ready) /\ \A m : Occurs(ready', m) <=> Occurs(ready, m)
  <2>1. Occurs(ready, ready[i]) /\ Len(ready) \in Nat
    BY <1>2 DEF Occurs, Types
  <2> QED
    BY <1>4, <1>6, <2>1
<1>9. \A m \in Nodes : After(m, p, th[p].t)
  BY <1>1, <1>2, <1>8 DEF Whole, Placed, Place, After, ExecKeeps, InHand, Occurs
<1> QED
  BY <1>1, <1>2, <1>3, <1>6, <1>7, <1>8, <1>9, NodeStep
     DEF Whole, Placed, Counted, Fits, ExecKeeps, Types

LEMMA KillKeeps ==
    ASSUME Inv, ~corrupt, NEW p \in Runners, NEW i \in DOMAIN ready, Kill(p, i)
    PROVE  Inv'
<1>1. /\ Spend(p) /\ UNCHANGED <<wake, alloc, events, lost, th>>
      /\ ready' = RemoveAt(ready, i) /\ pool' = <<ready[i]>> \o pool
      /\ thread_count' = thread_count - 1
  BY DEF Kill
<1>2. Types /\ Whole /\ p \in Procs /\ ExecKeeps(p) /\ Sorted(ready, wake) /\ (Told => Told')
  BY <1>1, SpendFacts DEF Inv, Runners, Procs
<1>3. Moved(p, "exec", th[p].t)
  BY <1>1, <1>2, StayMoves DEF ExecKeeps
<1>4. /\ ready' \in Seq(Nodes) /\ Len(ready') = Len(ready) - 1 /\ Distinct(ready')
      /\ \A n : Occurs(ready', n) <=> Occurs(ready, n) /\ n # ready[i]
      /\ Sorted(ready', wake') /\ ready[i] \in Nodes
  <2>1. i \in 1..Len(ready) /\ ready \in Seq(Nodes) /\ Distinct(ready)
    BY <1>2 DEF Whole, Placed, Types
  <2> QED
    BY <1>1, <1>2, <2>1, RemoveHolds
<1>5. Occurs(ready, ready[i]) /\ ~Occurs(pool, ready[i])
  BY <1>2, <1>4 DEF Occurs, Whole, Placed, Place
<1>6. /\ pool' \in Seq(Nodes) /\ Distinct(pool')
      /\ \A n : Occurs(pool', n) <=> Occurs(pool, n) \/ n = ready[i]
  BY <1>1, <1>2, <1>4, <1>5, ConsHolds DEF Whole, Placed, Types
<1>7. Announced'
  BY <1>2, <1>3, KeepAnnounced DEF Whole, ExecKeeps
<1>8. \A m \in Nodes : After(m, p, th[p].t)
  BY <1>1, <1>2, <1>4, <1>5, <1>6 DEF Whole, Placed, Place, After, ExecKeeps, InHand
<1> QED
  BY <1>1, <1>2, <1>3, <1>4, <1>6, <1>7, <1>8, NodeStep
     DEF Whole, Counted, Fits, ExecKeeps, Types
(* The thread gives the processor back, and its node goes somewhere. *)
LEMMA SleepKeeps ==
    ASSUME Inv, ~corrupt, NEW p \in Runners, NEW d \in 0..1, Sleep(p, d)
    PROVE  Inv'
<1>1. /\ Spend(p) /\ UNCHANGED <<pool, alloc, events, lost>> /\ Hand(p, "sweep", None)
      /\ thread_count' = thread_count + 1
  BY DEF Sleep
<1>2. Types /\ Whole /\ p \in Procs /\ ExecKeeps(p) /\ Sorted(ready, wake) /\ (Told => Told')
  BY <1>1, SpendFacts DEF Inv, Runners, Procs
<1>3. Moved(p, "sweep", None)
  BY <1>1, <1>2, HandMoves
<1> DEFINE t == th[p].t
<1>4. t \in Nodes /\ ~Occurs(ready, t) /\ ~Occurs(pool, t) /\ slot # t /\ wake[t] + d \in Nat
  BY <1>2, HandIsApart DEF Whole, ExecKeeps, Types
<1>5. Enqueue(ready, t, [wake EXCEPT ![t] = wake[t] + d])
  BY <1>2 DEF Sleep
<1>6. /\ ready' \in Seq(Nodes) /\ Len(ready') = Len(ready) + 1 /\ Distinct(ready')
      /\ \A m : Occurs(ready', m) <=> Occurs(ready, m) \/ m = t
      /\ Sorted(ready', wake') /\ wake' \in [Nodes -> Nat]
  <2>1. ready \in Seq(Nodes) /\ Distinct(ready) /\ wake \in [Nodes -> Nat]
    BY <1>2 DEF Whole, Placed, Types
  <2> HIDE DEF t
  <2> QED
    BY <1>2, <1>4, <1>5, <2>1, EnqueueHolds
<1>7. Announced'
  BY <1>2, <1>3, KeepAnnounced DEF Whole, ExecKeeps
<1>8. \A m \in Nodes : After(m, p, None)
  BY <1>1, <1>2, <1>4, <1>6, NoneIsNoNode
     DEF Whole, Placed, Place, After, ExecKeeps, InHand, Occurs
<1> QED
  BY <1>1, <1>2, <1>3, <1>6, <1>7, <1>8, NodeStep
     DEF Whole, Placed, Counted, Fits, PassAt, ExecKeeps, Types

LEMMA ExitKeeps ==
    ASSUME Inv, ~corrupt, NEW p \in Runners, Exit(p)
    PROVE  Inv'
<1>1. /\ Spend(p) /\ UNCHANGED <<ready, wake, thread_count, alloc, events, lost>>
      /\ Hand(p, "sweep", None) /\ pool' = <<th[p].t>> \o pool
  BY DEF Exit
<1>2. Types /\ Whole /\ p \in Procs /\ ExecKeeps(p) /\ Sorted(ready, wake) /\ (Told => Told')
  BY <1>1, SpendFacts DEF Inv, Runners, Procs
<1>3. Moved(p, "sweep", None)
  BY <1>1, <1>2, HandMoves
<1> DEFINE t == th[p].t
<1>4. t \in Nodes /\ ~Occurs(ready, t) /\ ~Occurs(pool, t) /\ slot # t
  BY <1>2, HandIsApart DEF Whole, ExecKeeps
<1>5. /\ pool' \in Seq(Nodes) /\ Distinct(pool')
      /\ \A m : Occurs(pool', m) <=> Occurs(pool, m) \/ m = t
  BY <1>1, <1>2, <1>4, ConsHolds DEF Whole, Placed, Types
<1>6. Announced'
  BY <1>2, <1>3, KeepAnnounced DEF Whole, ExecKeeps
<1>7. ASSUME NEW m \in Nodes PROVE After(m, p, None)
  <2>1. Place(m) /\ ready' = ready /\ slot' = slot /\ alloc' = alloc /\ m # None
    BY <1>1, <1>2, NoneIsNoNode DEF Whole, Placed, ExecKeeps
  <2>2. Occurs(pool', m) <=> Occurs(pool, m) \/ m = t
    BY <1>5
  <2>3. InHand(m) /\ th[p].t # m <=> InHand(m) /\ m # t
    OBVIOUS
  <2>4. InHand(t)
    BY <1>2 DEF InHand
  <2>5. Occurs(ready', m) <=> Occurs(ready, m)
    BY <2>1
  <2> HIDE DEF t
  <2> QED
    BY <1>4, <2>1, <2>2, <2>3, <2>4, <2>5 DEF Place, After
<1> QED
  BY <1>1, <1>2, <1>3, <1>5, <1>6, <1>7, NodeStep
     DEF Whole, Placed, Counted, Fits, PassAt, ExecKeeps, Types

LEMMA NoMemoryKeeps ==
    ASSUME Inv, ~corrupt, NEW p \in Runners, NoMemory(p)
    PROVE  Inv'
<1>1. /\ Spend(p) /\ UNCHANGED <<ready, pool, wake, thread_count, events, lost>>
      /\ Hand(p, "sweep", None) /\ alloc' = alloc \ {th[p].t}
  BY DEF NoMemory
<1>2. Types /\ Whole /\ p \in Procs /\ ExecKeeps(p) /\ Sorted(ready, wake) /\ (Told => Told')
  BY <1>1, SpendFacts DEF Inv, Runners, Procs
<1>3. Moved(p, "sweep", None)
  BY <1>1, <1>2, HandMoves
<1>4. Announced'
  BY <1>2, <1>3, KeepAnnounced DEF Whole, ExecKeeps
<1>5. \A m \in Nodes : After(m, p, None)
  BY <1>1, <1>2, NoneIsNoNode DEF Whole, Placed, Place, After, ExecKeeps, InHand, Occurs
<1> QED
  BY <1>1, <1>2, <1>3, <1>4, <1>5, NodeStep
     DEF Whole, Placed, Counted, Fits, PassAt, ExecKeeps, Types

(* The thread breaks, or its budget is spent. *)
LEMMA BreakKeeps ==
    ASSUME Inv, ~corrupt, NEW p \in Runners, Break(p) \/ BudgetOut(p)
    PROVE  Inv'
<1>1. /\ Types /\ p \in Procs /\ th[p].at = "exec" /\ th[p].t \in Nodes /\ InPass(p)
      /\ UNCHANGED <<loaded, list, fault, held>> /\ Goto(p, "fault")
  BY DEF Inv, Whole, Types, Control, Where, InPass, PassAt, Runners, Procs, Break, Spend,
         BudgetOut, At, fault
<1>2. clock' \in Nat /\ tick' \in Nat /\ pending' \in Nat \cup {None}
  BY <1>1 DEF Break, Spend, BudgetOut, clockVars, Types
<1>3. Moved(p, "fault", th[p].t)
  BY <1>1, GotoMoves
<1> QED
  BY <1>1, <1>2, <1>3, QuietMove DEF Fits, PassAt

LEMMA ExecuteKeeps ==
    ASSUME Inv, ~corrupt, NEW p \in Runners, Execute(p)
    PROVE  Inv'
BY PostKeeps, ForkKeeps, WakeKeeps, KillKeeps, SleepKeeps, ExitKeeps, NoMemoryKeeps, BreakKeeps
   DEF Execute

LEMMA SweepKeeps ==
    ASSUME Inv, ~corrupt, NEW p \in Runners, Sweep(p)
    PROVE  Inv'
<1>1. /\ Types /\ Whole /\ p \in Procs /\ th[p].at = "sweep" /\ th[p].t = None /\ InPass(p)
      /\ Sorted(ready, wake)
      /\ UNCHANGED <<loaded, pool, wake, alloc, slot, events, told, lost, held, clock, tick,
                     pending>>
  BY DEF Inv, Whole, Types, Control, Where, InPass, PassAt, Runners, Procs, Sweep, At, pass,
         fault, clockVars
<1>2. CASE Goto(p, "drain") /\ UNCHANGED <<ready, thread_count>>
  <2>1. Moved(p, "drain", None)
    BY <1>1, <1>2, GotoMoves
  <2>2. UNCHANGED <<list, fault>>
    BY <1>1, <1>2 DEF list, fault
  <2> QED
    BY <1>1, <2>1, <2>2, QuietMove DEF Fits, PassAt, Types
<1>3. CASE /\ ready # <<>> /\ ready' = Tail(ready) /\ thread_count' = thread_count - 1
           /\ Hand(p, "exec", Head(ready))
  <2> DEFINE n == Head(ready)
  <2>1. /\ ready' \in Seq(Nodes) /\ Len(ready') = Len(ready) - 1 /\ Distinct(ready')
        /\ \A m : Occurs(ready', m) <=> Occurs(ready, m) /\ m # n
        /\ Sorted(ready', wake) /\ n \in Nodes
    BY <1>1, <1>3, TailHolds DEF Whole, Placed, Types
  <2>2. Occurs(ready, n)
    BY <1>1, <1>3, HeadTailProperties DEF Occurs, Types
  <2> HIDE DEF n
  <2>3. Moved(p, "exec", n)
    BY <1>1, <1>3, <2>1, HandMoves DEF n
  <2>4. ~Occurs(pool, n) /\ slot # n /\ ~InHand(n) /\ n \in alloc
    BY <1>1, <2>1, <2>2 DEF Whole, Placed, Place
  <2>5. \A m \in Nodes : After(m, p, n)
    BY <1>1, <2>1, <2>2, <2>4, NoneIsNoNode DEF Whole, Placed, Place, After, Occurs
  <2>6. Announced'
    BY <1>1, <2>3, MoveAnnounced DEF Whole
  <2> QED
    BY <1>1, <1>3, <2>1, <2>3, <2>5, <2>6, NodeStep
       DEF Whole, Placed, Counted, Fits, PassAt, Types
<1> QED
  BY <1>2, <1>3 DEF Sweep
LEMMA ParkFaultKeeps ==
    ASSUME Inv, ~corrupt, NEW p \in Runners, ParkFault(p)
    PROVE  Inv'
<1>1. /\ Types /\ Whole /\ p \in Procs /\ th[p].at = "fault" /\ th[p].t \in Nodes /\ InPass(p)
      /\ Sorted(ready, wake) /\ slot' = th[p].t /\ Hand(p, "faulted", slot)
      /\ UNCHANGED <<loaded, ready, pool, wake, alloc, thread_count, events, told, lost, held,
                     clock, tick, pending>>
  BY DEF Inv, Whole, Types, Control, Where, InPass, PassAt, Runners, Procs, ParkFault, At, list,
         pass, clockVars
<1>2. slot \in Nodes \cup {None} /\ Moved(p, "faulted", slot)
  BY <1>1, HandMoves DEF Types
<1>3. \A q \in Procs : th[q].at # "faulted"
  BY <1>1 DEF Whole, Control, InPass, PassAt
<1>4. Announced'
  <2>1. slot # None => Told
    BY <1>1, <1>3 DEF Whole, Announced
  <2>2. Told => Told'
    BY <1>1, Zenon DEF Told, Occurs
  <2>3. \A q \in Procs : th'[q].at = "faulted" => q = p
    BY <1>2, <1>3 DEF Moved
  <2>4. th'[p].at = "faulted" /\ th'[p].t = slot
    BY <1>2 DEF Moved
  <2> QED
    BY <1>1, <2>1, <2>2, <2>3, <2>4 DEF Announced
<1>5. \A m \in Nodes : After(m, p, slot)
  BY <1>1, <1>2, NoneIsNoNode DEF Whole, Placed, Place, After, InHand, Occurs
<1> QED
  BY <1>1, <1>2, <1>4, <1>5, NodeStep, NoneIsNoNode
     DEF Whole, Placed, Counted, Fits, PassAt, Types

LEMMA AnnounceFaultKeeps ==
    ASSUME Inv, ~corrupt, NEW p \in Runners, AnnounceFault(p)
    PROVE  Inv'
<1>1. /\ Types /\ Whole /\ p \in Procs /\ th[p].at = "faulted" /\ InPass(p)
      /\ Sorted(ready, wake) /\ alloc' = alloc \ {th[p].t} /\ Hand(p, "sweep", None)
      /\ UNCHANGED <<loaded, ready, pool, wake, thread_count, slot, told, held, clock, tick,
                     pending>>
  BY DEF Inv, Whole, InPass, PassAt, Runners, Procs, AnnounceFault, At, pass, clockVars
<1>2. Moved(p, "sweep", None)
  BY <1>1, HandMoves
<1>3. \A q \in Procs : th'[q].at # "faulted"
  BY <1>1, <1>2 DEF Whole, Control, InPass, PassAt, Moved
<1>4. events' \in Seq(Kinds) /\ (slot # None => Told')
  <2>1. CASE th[p].t = None
    <3>1. PostEvent("fault")
      BY <2>1 DEF AnnounceFault
    <3>2. events' \in Seq(Kinds) /\ Occurs(events', "fault")
      BY <1>1, <3>1, PostHolds DEF Types, Kinds
    <3> QED
      BY <3>2 DEF Told
  <2>2. CASE th[p].t # None
    <3>1. events' = events /\ lost' = lost
      BY <2>2 DEF AnnounceFault
    <3>2. slot # None => Told
      BY <1>1, <2>2 DEF Whole, Announced
    <3>3. Told => Told'
      BY <1>1, <3>1, Zenon DEF Told, Occurs
    <3> QED
      BY <1>1, <3>1, <3>2, <3>3 DEF Types
  <2> QED
    BY <2>1, <2>2
<1>5. Announced'
  BY <1>1, <1>3, <1>4 DEF Announced
<1>6. \A m \in Nodes : After(m, p, None)
  BY <1>1, NoneIsNoNode DEF Whole, Placed, Place, After, InHand, Occurs
<1> QED
  BY <1>1, <1>2, <1>4, <1>5, <1>6, NodeStep
     DEF Whole, Placed, Counted, Fits, PassAt, Types

LEMMA DrainKeeps ==
    ASSUME Inv, ~corrupt, NEW p \in Runners, Drain(p)
    PROVE  Inv'
<1>1. /\ Types /\ Whole /\ p \in Procs /\ th[p].at = "drain" /\ th[p].t = None /\ InPass(p)
      /\ Sorted(ready, wake) /\ loaded
      /\ UNCHANGED <<loaded, list, pass, slot, lost, clockVars>>
  BY DEF Inv, Whole, Types, Control, Where, InPass, PassAt, Runners, Procs, Drain, At
<1>2. UNCHANGED <<ready, pool, wake, alloc, thread_count, pending, clock, tick>>
  BY <1>1 DEF list, pass, clockVars
<1>3. CASE events = <<>>
  <2>1. Moved(p, "pend", None) /\ UNCHANGED <<fault, held>>
    BY <1>1, <1>3, GotoMoves DEF Drain, fault
  <2> QED
    BY <1>1, <1>2, <2>1, QuietMove DEF Fits, PassAt, Types
<1>4. CASE events # <<>>
  <2>1. /\ events' = Tail(events) /\ th' = th
        /\ told' = (told \/ Head(events) = "fault")
    BY <1>4 DEF Drain
  <2>2. Moved(p, "drain", None) /\ events' \in Seq(Kinds)
    BY <1>1, <1>4, <2>1, StayMoves DEF Types
  <2>3. Occurs(events, "fault") => Head(events) = "fault" \/ Occurs(events', "fault")
    BY <1>1, <2>1, TailOccurs DEF Types
  <2>4. Told => Told'
    BY <1>1, <2>1, <2>3, Zenon DEF Told
  <2>5. Announced'
    BY <1>1, <2>2, <2>4, KeepAnnounced DEF Whole
  <2>6. \A m \in Nodes : After(m, p, None)
    BY <1>1, <1>2, NoneIsNoNode DEF Whole, Placed, Place, After, InHand, Occurs
  <2> QED
    BY <1>1, <1>2, <2>2, <2>5, <2>6, NodeStep
       DEF Whole, Placed, Counted, Fits, PassAt, Types
<1> QED
  BY <1>3, <1>4

LEMMA RunKeeps ==
    ASSUME Inv, ~corrupt, NEW p \in Runners, Run(p)
    PROVE  Inv'
BY EnterKeeps, LatchKeeps, SweepKeeps, ExecuteKeeps, ParkFaultKeeps, AnnounceFaultKeeps,
   DrainKeeps, PendKeeps, StopKeeps, ArmKeeps DEF Run
--------------------------------------------------------------------------------
(* The timer, packets, and the requests of clients *)

LEMMA TimeKeeps ==
    ASSUME Inv, ~corrupt, Clock \/ TimerExpires \/ ScriptDpc
    PROVE  Inv'
<1>1. Types
  BY DEF Inv
<1>2. CASE Clock
  <2>1. UNCHANGED <<loaded, list, fault, held, th, corrupt, pending, tick>> /\ clock' = clock + 1
    BY <1>2 DEF Clock, pass
  <2> QED
    BY <1>1, <2>1, QuietStep DEF Types
<1>3. CASE TimerExpires
  <2>1. UNCHANGED <<loaded, list, fault, held, th, corrupt, pending, clock, tick>>
    BY <1>3 DEF TimerExpires, pass
  <2> QED
    BY <1>1, <2>1, QuietStep DEF Types
<1>4. CASE ScriptDpc
  <2>1. /\ UNCHANGED <<loaded, list, fault, held, pending, clock, tick>>
        /\ th["dpc"].at = "idle" /\ th["dpc"].t = None /\ "dpc" \in Procs
    BY <1>4 DEF ScriptDpc, pass, At, Inv, Whole, Control, Where, Procs
  <2>2. Moved("dpc", "enter", None)
    BY <1>1, <1>4, <2>1, TimeMoves DEF ScriptDpc, Types
  <2> QED
    BY <1>1, <2>1, <2>2, QuietMove DEF Fits, PassAt, Types
<1> QED
  BY <1>2, <1>3, <1>4

LEMMA OnInputKeeps ==
    ASSUME Inv, ~corrupt, NEW n, OnInput(n)
    PROVE  Inv'
<1>1. /\ Types /\ UNCHANGED <<loaded, list, fault, held, pending, clock, tick>>
      /\ th["input"].at = "idle" /\ th["input"].t = None /\ "input" \in Procs
  BY DEF OnInput, pass, clockVars, At, Inv, Whole, Control, Where, Procs
<1> DEFINE w == IF n = 0 THEN [Idle EXCEPT !.at = "tick"]
                ELSE [Idle EXCEPT !.at = "spawn", !.now = tick, !.left = n, !.next = "tick"]
<1>2. Shape(w) /\ w.at \in {"tick", "spawn"} /\ w.t = None
  BY <1>1 DEF Idle, Shape, Types
<1>3. th' = [th EXCEPT !["input"] = w]
  BY DEF OnInput
<1> HIDE DEF w
<1>4. Moved("input", w.at, None)
  BY <1>1, <1>2, <1>3 DEF Moved, Types
<1> QED
  BY <1>1, <1>2, <1>4, QuietMove DEF Fits, PassAt, Types

LEMMA CoreTickKeeps ==
    ASSUME Inv, ~corrupt, CoreTick
    PROVE  Inv'
<1>1. /\ Types /\ UNCHANGED <<loaded, list, fault, held, pending, clock>> /\ tick' = clock
      /\ th["input"].at = "tick" /\ th["input"].t = None /\ "input" \in Procs
  BY DEF CoreTick, pass, At, Inv, Whole, Control, Where, Procs
<1> DEFINE w == [Idle EXCEPT !.at = "enter", !.now = clock]
<1>2. Shape(w) /\ w.at = "enter" /\ w.t = None
  BY <1>1 DEF Idle, Shape, Types
<1>3. th' = [th EXCEPT !["input"] = w]
  BY DEF CoreTick
<1> HIDE DEF w
<1>4. Moved("input", "enter", None)
  BY <1>1, <1>2, <1>3 DEF Moved, Types
<1> QED
  BY <1>1, <1>4, QuietMove DEF Fits, PassAt, Types

(* A node for a thread that no place has, queued. *)
LEMMA SpawnNode ==
    ASSUME Inv, ~corrupt, NEW p \in Procs, NEW pc, Moved(p, pc, None), th[p].t = None,
           pc \notin PassAt, pc # "free", th[p].at # "faulted",
           loaded => loaded', UNCHANGED <<held, clock, tick, pending, fault>>,
           NEW n \in Nodes, NEW v \in Nat, ThreadAlloc(n),
           Enqueue(ready, n, [wake EXCEPT ![n] = v]), thread_count' = thread_count + 1
    PROVE  Inv'
<1>1. /\ Types /\ Whole /\ Sorted(ready, wake) /\ UNCHANGED <<slot, events, told, lost>>
  BY DEF Inv, fault
<1>2. /\ pool' \in Seq(Nodes) /\ Distinct(pool') /\ alloc' = alloc \cup {n}
      /\ \A m : Occurs(pool', m) <=> Occurs(pool, m) /\ m # n
      /\ ~Occurs(ready, n) /\ slot # n /\ ~InHand(n)
  BY <1>1, AllocHolds DEF Whole
<1>3. /\ ready' \in Seq(Nodes) /\ Len(ready') = Len(ready) + 1 /\ Distinct(ready')
      /\ \A m : Occurs(ready', m) <=> Occurs(ready, m) \/ m = n
      /\ Sorted(ready', wake') /\ wake' \in [Nodes -> Nat]
  BY <1>1, <1>2, EnqueueHolds DEF Whole, Placed, Types
<1>4. Announced'
  BY <1>1, MoveAnnounced DEF Whole, PassAt
<1>5. \A m \in Nodes : After(m, p, None)
  BY <1>1, <1>2, <1>3, NoneIsNoNode DEF Whole, Placed, Place, After, InHand
<1> QED
  BY <1>1, <1>2, <1>3, <1>4, <1>5, NodeStep
     DEF Whole, Counted, Fits, PassAt, Types

LEMMA SpawnHandlerKeeps ==
    ASSUME Inv, ~corrupt, SpawnHandler
    PROVE  Inv'
<1>1. /\ Types /\ UNCHANGED <<loaded, fault, held, pending, clock, tick>>
      /\ th["input"].at = "spawn" /\ th["input"].t = None /\ "input" \in Procs
      /\ Shape(th["input"])
  BY DEF SpawnHandler, pass, clockVars, At, Inv, Whole, Control, Where, Procs, Types
<1> DEFINE u == [th["input"] EXCEPT !.left = @ - 1]
           pc == IF th["input"].left = 1 THEN "enter" ELSE "spawn"
           w == [u EXCEPT !.at = pc]
<1>2. Shape(u) /\ u.at = "spawn" /\ u.t = None
  BY <1>1 DEF Shape
<1>3. /\ DOMAIN th' = Procs /\ \A q \in Procs : q # "input" => th'[q] = th[q]
      /\ th'["input"] = w
  BY <1>1, <1>2 DEF SpawnHandler, Types
<1> HIDE DEF u
<1>4. Shape(w) /\ w.at = pc /\ w.t = None
  BY <1>2 DEF Shape
<1>5. pc \in {"enter", "spawn"}
  OBVIOUS
<1> HIDE DEF pc, w
<1>6. Moved("input", pc, None)
  BY <1>3, <1>4 DEF Moved
<1>7. CASE UNCHANGED list
  BY <1>1, <1>5, <1>6, <1>7, QuietMove DEF Fits, PassAt, Types
<1>8. CASE ~UNCHANGED list
  <2>1. th["input"].now \in Nat /\ thread_count' = thread_count + 1
    BY <1>1, <1>8 DEF SpawnHandler, Shape
  <2>2. PICK n \in Nodes : /\ ThreadAlloc(n)
                           /\ Enqueue(ready, n, [wake EXCEPT ![n] = th["input"].now])
    BY <1>8 DEF SpawnHandler
  <2> QED
    BY <1>1, <1>5, <1>6, <2>1, <2>2, SpawnNode DEF PassAt
<1> QED
  BY <1>7, <1>8

LEMMA LoadRequestKeeps ==
    ASSUME Inv, ~corrupt, LoadRequest \/ LoadTest
    PROVE  Inv'
<1>1. /\ Types /\ UNCHANGED <<loaded, list, fault, held, pending, clock, tick>>
      /\ th["load"].at \in {"idle", "loadTest"} /\ th["load"].t = None /\ "load" \in Procs
  BY DEF LoadRequest, LoadTest, pass, clockVars, At, Inv, Whole, Control, Where, Procs
<1>2. CASE LoadRequest
  <2>1. Moved("load", "loadTest", None)
    BY <1>1, <1>2, TimeMoves DEF LoadRequest, Types
  <2> QED
    BY <1>1, <2>1, QuietMove DEF Fits, PassAt, Types
<1>3. CASE LoadTest
  <2>1. CASE Return("load")
    BY <1>1, <2>1, ReturnMoves, QuietMove DEF Fits, PassAt, Types
  <2>2. CASE Goto("load", "unload")
    <3>1. Moved("load", "unload", None)
      BY <1>1, <2>2, GotoMoves
    <3> QED
      BY <1>1, <3>1, QuietMove DEF Fits, PassAt, Types
  <2> QED
    BY <1>3, <2>1, <2>2 DEF LoadTest
<1> QED
  BY <1>2, <1>3

(***************************************************************************)
(* An unload frees what the lists and the slot hold, and what is in hand   *)
(* is in hand still: of the client, if no pass is under way.               *)
(***************************************************************************)
LEMMA UnloadKeeps ==
    ASSUME Inv, ~corrupt, NEW p \in Procs, NEW pc \in Places \ PassAt, pc # "free",
           Moved(p, pc, None), th[p].t = None, Unload, UNCHANGED <<wake, clock, tick>>
    PROVE  Inv'
<1>1. /\ Types /\ Whole
      /\ ready' = <<>> /\ pool' = <<>> /\ thread_count' = 0 /\ slot' = None /\ events' = <<>>
      /\ held' = FALSE /\ alloc' = alloc \ (ListNodes \cup {slot}) /\ pending' = None
      /\ corrupt' = (\E q \in Procs : InPass(q))
  BY DEF Inv, Unload
<1>2. Types' /\ Sorted(ready, wake)'
  BY <1>1 DEF Types, Moved, Sorted
<1>3. ASSUME ~corrupt'
      PROVE  Whole'
  <2>1. \A q \in Procs : ~InPass(q)
    <3>1. ~(\E q \in Procs : InPass(q))
      BY <1>1, <1>3, Zenon
    <3> QED
      BY <3>1
  <2>2. \A q \in Procs : ~InPass(q)'
    BY <2>1 DEF Moved, InPass
  <2>3. ASSUME NEW q \in Procs
        PROVE  Where(q)'
    <3>1. CASE q = p
      BY <2>2, <3>1 DEF Where, Moved, PassAt
    <3>2. CASE q # p
      <4>1. Where(q) /\ th'[q] = th[q]
        BY <1>1, <3>2 DEF Whole, Control, Moved
      <4> QED
        BY <2>2, <4>1 DEF Where
    <3> QED
      BY <3>1, <3>2
  <2>4. Control'
    BY <2>2, <2>3 DEF Control
  <2>5. ASSUME NEW n \in Nodes
        PROVE  After(n, p, None)
    <3>1. ~Occurs(ready', n) /\ ~Occurs(pool', n) /\ slot' # n
      BY <1>1, NoneIsNoNode DEF Occurs
    <3>2. n \in ListNodes <=> Occurs(ready, n) \/ Occurs(pool, n)
      BY DEF ListNodes, Occurs
    <3> QED
      BY <1>1, <3>1, <3>2, NoneIsNoNode DEF Whole, Placed, Place, After
  <2>6. Placed'
    <3>1. Distinct(ready') /\ Distinct(pool')
      BY <1>1 DEF Distinct
    <3> QED
      BY <1>1, <2>5, <3>1, PlaceStep DEF Whole
  <2>7. Counted' /\ Keys' /\ Announced'
    <3>1. \A q \in Procs : th'[q].at # "faulted"
      BY <2>2 DEF InPass, PassAt
    <3> QED
      BY <1>1, <3>1 DEF Counted, Keys, Announced
  <2> QED
    BY <2>4, <2>6, <2>7 DEF Whole
<1> QED
  BY <1>2, <1>3 DEF Inv

LEMMA LoadUnloadKeeps ==
    ASSUME Inv, ~corrupt, LoadUnload
    PROVE  Inv'
<1>1. /\ Types /\ th["load"].t = None /\ "load" \in Procs /\ Unload
      /\ UNCHANGED <<wake, clock, tick>>
  BY DEF LoadUnload, At, Inv, Whole, Control, Where, Procs
<1>2. CASE Return("load")
  <2>1. Moved("load", th["load"].next, None) /\ th["load"].next \in {"idle", "tick"}
    BY <1>1, <1>2, ReturnMoves
  <2> QED
    BY <1>1, <2>1, UnloadKeeps DEF Places, PassAt
<1>3. CASE Goto("load", "loadAlloc")
  <2>1. Moved("load", "loadAlloc", None)
    BY <1>1, <1>3, GotoMoves
  <2> QED
    BY <1>1, <2>1, UnloadKeeps DEF Places, PassAt
<1> QED
  BY <1>2, <1>3 DEF LoadUnload

LEMMA LoadBodyKeeps ==
    ASSUME Inv, ~corrupt, LoadBody
    PROVE  Inv'
<1>1. /\ Types /\ UNCHANGED <<fault, held, pending, clock, tick>>
      /\ th["load"].at = "loadAlloc" /\ th["load"].t = None /\ "load" \in Procs
      /\ th["load"].now \in Nat
  BY DEF LoadBody, clockVars, At, Inv, Whole, Control, Where, Procs, Types, Shape
<1>2. CASE Return("load") /\ UNCHANGED <<list, loaded>>
  BY <1>1, <1>2, ReturnMoves, QuietMove DEF Fits, PassAt, Types
<1>3. CASE /\ \E n \in Nodes : /\ ThreadAlloc(n)
                               /\ Enqueue(ready, n, [wake EXCEPT ![n] = th["load"].now])
           /\ thread_count' = thread_count + 1 /\ loaded' = TRUE /\ Goto("load", "enter")
  <2>1. Moved("load", "enter", None)
    BY <1>1, <1>3, GotoMoves
  <2>2. PICK n \in Nodes : /\ ThreadAlloc(n)
                           /\ Enqueue(ready, n, [wake EXCEPT ![n] = th["load"].now])
    BY <1>3
  <2> QED
    BY <1>1, <1>3, <2>1, <2>2, SpawnNode DEF PassAt
<1> QED
  BY <1>2, <1>3 DEF LoadBody
(* The client takes the fault out of the slot, and frees it. *)
LEMMA CollectKeeps ==
    ASSUME Inv, ~corrupt, TakeFault \/ FreeFault
    PROVE  Inv'
<1>1. /\ Types /\ Whole /\ Sorted(ready, wake) /\ "client" \in Procs
      /\ th["client"].at \in {"idle", "free"}
      /\ UNCHANGED <<loaded, ready, pool, wake, thread_count, events, held, clock, tick,
                     pending>>
  BY DEF Inv, TakeFault, FreeFault, At, Procs, list, pass, fault, clockVars
<1>2. CASE TakeFault
  <2>1. /\ slot \in Nodes /\ slot' = None /\ alloc' = alloc
        /\ th["client"].t = None /\ Moved("client", "free", slot)
    BY <1>1, <1>2, HandMoves DEF TakeFault, At, list, Types, Whole, Control, Where
  <2>2. Announced'
    <3>1. \A q \in Procs : th'[q].at = "faulted" => slot' = None
      BY <2>1
    <3> QED
      BY <2>1, <3>1 DEF Announced
  <2>3. \A m \in Nodes : After(m, "client", slot)
    BY <1>1, <2>1, NoneIsNoNode DEF Whole, Placed, Place, After, Occurs
  <2> QED
    BY <1>1, <2>1, <2>2, <2>3, NodeStep
       DEF Whole, Placed, Counted, Fits, PassAt, Types
<1>3. CASE FreeFault
  <2>1. /\ alloc' = alloc \ {th["client"].t} /\ th["client"].at = "free"
        /\ UNCHANGED <<slot, told, lost>>
    BY <1>3 DEF FreeFault, At, fault
  <2>2. Moved("client", th["client"].next, None) /\ th["client"].next \in {"idle", "tick"}
    BY <1>1, <1>3, ReturnMoves DEF FreeFault
  <2>3. Announced'
    BY <1>1, <2>1, <2>2, MoveAnnounced DEF Whole
  <2>4. \A m \in Nodes : After(m, "client", None)
    BY <1>1, <2>1, NoneIsNoNode DEF Whole, Placed, Place, After, InHand, Occurs
  <2> QED
    BY <1>1, <2>1, <2>2, <2>3, <2>4, NodeStep
       DEF Whole, Placed, Counted, Fits, PassAt, Types
<1> QED
  BY <1>2, <1>3

LEMMA UnwireKeeps ==
    ASSUME Inv, ~corrupt, UnwireDying \/ Unwire
    PROVE  Inv'
<1>1. /\ Types /\ "pnp" \in Procs
      /\ \A at \in {"idle", "cancel", "flush", "cancelAgain", "unload"} :
            th["pnp"].at = at => th["pnp"].t = None
  BY DEF Inv, Whole, Control, Where, Procs
<1>2. ASSUME NEW from \in {"idle", "cancel", "flush", "cancelAgain"},
             NEW to \in {"cancel", "flush", "cancelAgain", "unload"},
             th["pnp"].at = from, Goto("pnp", to),
             UNCHANGED <<loaded, list, pass, fault, held, clock, tick>>
      PROVE  Inv'
  <2>1. th["pnp"].t = None /\ Moved("pnp", to, None)
    BY <1>1, <1>2, GotoMoves
  <2> QED
    BY <1>1, <1>2, <2>1, QuietMove DEF Fits, PassAt, Types, pass
<1>3. CASE UnwireDying
  BY <1>2, <1>3 DEF UnwireDying, At
<1>4. CASE UnwireCancel("cancel", "flush") \/ UnwireCancel("cancelAgain", "unload")
  BY <1>2, <1>4 DEF UnwireCancel, At
<1>5. CASE UnwireFlush
  BY <1>2, <1>5 DEF UnwireFlush, At, clockVars
<1>6. CASE UnwireUnload
  <2>1. /\ th["pnp"].t = None /\ Unload /\ UNCHANGED <<wake, clock, tick>>
        /\ Moved("pnp", "gone", None)
    BY <1>1, <1>6, GotoMoves DEF UnwireUnload, At
  <2> QED
    BY <1>1, <2>1, UnloadKeeps DEF Places, PassAt
<1> QED
  BY <1>3, <1>4, <1>5, <1>6 DEF Unwire

--------------------------------------------------------------------------------
LEMMA InitInv == Init => Inv
<1> SUFFICES ASSUME Init PROVE Inv
  OBVIOUS
<1>1. \A p \in Procs : Shape(th[p]) /\ th[p].at = "idle" /\ th[p].t = None
  BY IdleShape DEF Init
<1>2. Types /\ Sorted(ready, wake)
  BY <1>1 DEF Init, Types, Sorted
<1>3. Control
  BY <1>1 DEF Control, Where, InPass, PassAt
<1>4. Placed
  BY <1>1, NoneIsNoNode DEF Init, Placed, Place, Occurs, Distinct, InHand
<1>5. Counted /\ Keys /\ Announced
  BY <1>1 DEF Init, Counted, Keys, Announced
<1> QED
  BY <1>2, <1>3, <1>4, <1>5 DEF Inv, Whole

LEMMA NextKeeps == Inv /\ [Next]_vars => Inv'
<1> SUFFICES ASSUME Inv, [Next]_vars PROVE Inv'
  OBVIOUS
<1>1. CASE UNCHANGED vars
  <2>1. /\ Types /\ UNCHANGED <<loaded, list, fault, held, th, corrupt, clock, tick, pending>>
    BY <1>1 DEF Inv, vars, clockVars, pass
  <2> QED
    BY <2>1, QuietStep DEF Types
<1>2. CASE Next
  <2>1. ~corrupt /\ {"dpc", "input", "load"} = Runners
    BY <1>2 DEF Next, Runners
  <2>2. CASE Clock \/ TimerExpires \/ ScriptDpc
    BY <2>1, <2>2, TimeKeeps
  <2>3. CASE Run("dpc") \/ InputThread
    BY <2>1, <2>3, RunKeeps, SpawnHandlerKeeps, CoreTickKeeps DEF InputThread
  <2>4. CASE LoadRequest \/ LoadThread
    BY <2>1, <2>4, RunKeeps, LoadRequestKeeps, LoadUnloadKeeps, LoadBodyKeeps DEF LoadThread
  <2>5. CASE \E n \in 0..MaxHandlers : OnInput(n)
    BY <2>1, <2>5, OnInputKeeps
  <2>6. CASE TakeFault \/ FreeFault \/ UnwireDying \/ Unwire
    BY <2>1, <2>6, CollectKeeps, UnwireKeeps
  <2> QED
    BY <1>2, <2>2, <2>3, <2>4, <2>5, <2>6 DEF Next
<1> QED
  BY <1>1, <1>2

(***************************************************************************)
(* The inductive invariant: until two passes overlap, the one pass runs    *)
(* over a loaded script, every allocated node is in one place, the ready   *)
(* list is sorted and counted, and an unannounced fault is on its way.     *)
(***************************************************************************)
THEOREM SchedInvariant == Spec => []Inv
BY InitInv, NextKeeps, PTL DEF Spec

(***************************************************************************)
(* A node is in one of the places of NodesOwnedOnce or in none.            *)
(***************************************************************************)
LEMMA OnePlace ==
    ASSUME Types, Placed, NEW n \in Nodes
    PROVE  LET P == {<<"ready", i>> : i \in {j \in DOMAIN ready : ready[j] = n}}
                    \cup {<<"pool", i>> : i \in {j \in DOMAIN pool : pool[j] = n}}
                    \cup {<<"hand", p>> : p \in {q \in Hands : th[q].t = n}}
                    \cup (IF slot = n THEN {<<"slot", 1>>} ELSE {})
           IN  IF n \in alloc THEN \E x \in P : P = {x} ELSE P = {}
<1> DEFINE R == {<<"ready", i>> : i \in {j \in DOMAIN ready : ready[j] = n}}
           Q == {<<"pool", i>> : i \in {j \in DOMAIN pool : pool[j] = n}}
           H == {<<"hand", p>> : p \in {q \in Hands : th[q].t = n}}
           S == IF slot = n THEN {<<"slot", 1>>} ELSE {}
<1>1. Place(n) /\ Distinct(ready) /\ Distinct(pool) /\ n # None
  BY NoneIsNoNode DEF Placed
<1>2. IF Occurs(ready, n) THEN \E x : R = {x} ELSE R = {}
  <2>1. CASE Occurs(ready, n)
    <3>1. PICK i \in DOMAIN ready : ready[i] = n
      BY <2>1 DEF Occurs
    <3>2. {j \in DOMAIN ready : ready[j] = n} = {i}
      BY <1>1, <3>1 DEF Distinct
    <3>3. R = {<<"ready", i>>}
      BY <3>2
    <3> QED
      BY <2>1, <3>3
  <2>2. CASE ~Occurs(ready, n)
    BY <2>2 DEF Occurs
  <2> QED
    BY <2>1, <2>2
<1>3. IF Occurs(pool, n) THEN \E x : Q = {x} ELSE Q = {}
  <2>1. CASE Occurs(pool, n)
    <3>1. PICK i \in DOMAIN pool : pool[i] = n
      BY <2>1 DEF Occurs
    <3>2. {j \in DOMAIN pool : pool[j] = n} = {i}
      BY <1>1, <3>1 DEF Distinct
    <3>3. Q = {<<"pool", i>>}
      BY <3>2
    <3> QED
      BY <2>1, <3>3
  <2>2. CASE ~Occurs(pool, n)
    BY <2>2 DEF Occurs
  <2> QED
    BY <2>1, <2>2
<1>4. IF InHand(n) THEN \E x : H = {x} ELSE H = {}
  <2>1. CASE InHand(n)
    <3>1. PICK p \in Procs : th[p].t = n
      BY <2>1 DEF InHand
    <3>2. {q \in Hands : th[q].t = n} = {p}
      BY <1>1, <3>1 DEF Place, Hands
    <3>3. H = {<<"hand", p>>}
      BY <3>2
    <3> QED
      BY <2>1, <3>3
  <2>2. CASE ~InHand(n)
    BY <2>2 DEF InHand, Hands
  <2> QED
    BY <2>1, <2>2
<1>5. IF slot = n THEN \E x : S = {x} ELSE S = {}
  OBVIOUS
<1> DEFINE P == R \cup Q \cup H \cup S
<1> HIDE DEF R, Q, H, S
<1>6. IF n \in alloc THEN \E x \in P : P = {x} ELSE P = {}
  BY <1>1, <1>2, <1>3, <1>4, <1>5 DEF Place
<1> QED
  BY <1>6 DEF R, Q, H, S

(***************************************************************************)
(* Every allocated node is in one place, and no place holds a freed one.   *)
(***************************************************************************)
THEOREM NodesOwnedOnceHolds == Spec => []NodesOwnedOnce
<1>1. Inv => NodesOwnedOnce
  BY OnePlace DEF Inv, Whole, NodesOwnedOnce
<1> QED
  BY <1>1, SchedInvariant, PTL

(***************************************************************************)
(* The ready list is sorted through _wake, _sleep and _fork, and counted.  *)
(***************************************************************************)
THEOREM ReadySortedHolds == Spec => []ReadySorted
<1>1. Inv => ReadySorted
  BY DEF Inv, Whole, ReadySorted, Sorted, Counted
<1> QED
  BY <1>1, SchedInvariant, PTL

(***************************************************************************)
(* No fault sits in the slot unannounced, unless the ring dropped it.      *)
(***************************************************************************)
THEOREM FaultIsAnnouncedHolds == Spec => []FaultIsAnnounced
<1>1. Inv => FaultIsAnnounced
  BY DEF Inv, Whole, FaultIsAnnounced, Announcing, Announced, Told, Occurs, At
<1> QED
  BY <1>1, SchedInvariant, PTL

(***************************************************************************)
(* No key stays down when its script is unloaded.                          *)
(***************************************************************************)
THEOREM KeysGoWithScriptHolds == Spec => []KeysGoWithScript
<1>1. Inv => KeysGoWithScript
  BY DEF Inv, Whole, Keys, KeysGoWithScript
<1> QED
  BY <1>1, SchedInvariant, PTL
================================================================================
