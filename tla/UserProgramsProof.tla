--------------------------- MODULE UserProgramsProof ---------------------------
(***************************************************************************)
(* Proofs about what user mode gives the driver to run.  ScriptVM: any     *)
(* bytecode, for any number of threads, globals and locals, any width of a *)
(* value and any operands.  CommandChannel: any blocks, packets and        *)
(* contents, any number of device requests beside the one client of the    *)
(* channel, with what the Pak requests are told; and PakCrc under it, the  *)
(* linearity of the checksum for messages of any length.  Scripts and the  *)
(* channel share nothing but that they come from user mode.                *)
(***************************************************************************)
EXTENDS ScriptVM, CommandChannel, SequenceTheorems, WellFoundedInduction, TLAPS

--------------------------------------------------------------------------------
(* Scripts *)

Machines == [pc : {"inside", "negative"}, acc : Word, sp : Int, budget : Int,
             status : Statuses]

(* A machine that runs has its stack in the region, and one that runs or    *)
(* sleeps has its pc in the code.                                           *)
Sound(m) ==
    /\ m.status = "running" => m.sp \in 0..Locals
    /\ m.status \in {"running", "sleeping"} => m.pc = "inside"

(* What the node n of a thread that will be resumed holds, f being the      *)
(* words the thread stopped with.                                           *)
Resumable(n, f) ==
    /\ n.pc = "inside" /\ n.acc \in Word /\ n.depth \in 0..Locals
    /\ 0..n.depth - 1 \subseteq DOMAIN n.stack
    /\ \A i \in DOMAIN n.stack : i \in 0..Locals - 1 /\ n.stack[i] \in Word
    /\ DOMAIN f = 0..n.depth - 1
    /\ \A i \in DOMAIN f : f[i] = n.stack[i]

NodeShape(n, f) ==
    /\ n.state \in {"free", "ready", "gone"}
    /\ n.state = "ready" => Resumable(n, f)

NodeInv(t) == NodeShape(node[t], frame[t])

VMInv ==
    /\ SizeFits
    /\ vm \in Machines /\ vm.budget <= Budget /\ Sound(vm)
    /\ vars \in [Storage -> Word]
    /\ current \in Threads \cup {"none"}
    /\ DOMAIN node = Threads /\ DOMAIN frame = Threads
    /\ \A t \in Threads : NodeInv(t)
    /\ current # "none" => node[current].state = "ready"
    /\ ~astray /\ ~trapped

--------------------------------------------------------------------------------
(* Words and indices *)

LEMMA ModBounded == \A a \in Int, b \in Nat \ {0} : a % b \in 0..b - 1
OBVIOUS

LEMMA UnitPositive == Unit \in Nat \ {0} /\ 16 * Unit \in Nat \ {0}
BY VMConstants

LEMMA WordIsInt == \A w \in Word : w \in Int
BY VMConstants DEF Word

(* A size that fits does not wrap. *)
LEMMA StorageFits == ASSUME SizeFits PROVE Storage = 0..VarCount + Locals - 1
<1>1. VarCount + Locals \in 0..4 * Unit - 1 /\ 4 * Unit \in Nat \ {0}
  BY VMConstants DEF SizeFits
<1>2. \A a, b \in Int : 0 <= a /\ a < b => a % b = a
  OBVIOUS
<1> DEFINE words == (VarCount + Locals) % (4 * Unit)
<1>3. words = VarCount + Locals
  BY <1>1, <1>2
<1>4. Storage = 0..words - 1
  BY DEF Storage
<1> HIDE DEF words
<1>5. words - 1 = VarCount + Locals - 1
  BY <1>3, VMConstants
<1> QED
  BY <1>4, <1>5

LEMMA StorageShape ==
    ASSUME SizeFits
    PROVE  /\ \A i \in 0..VarCount - 1 : i \in Storage
           /\ \A i \in 0..Locals - 1 : i + VarCount \in Storage /\ Stk(i) \in Storage
           /\ -1 \notin Storage
BY VMConstants, StorageFits DEF Stk

(* A tagged word names a word of vars, or nothing. *)
LEMMA VarIndexIn ==
    ASSUME SizeFits, NEW w \in Word
    PROVE  VarIndex(w) \in Storage \cup {-1}
<1>1. Value(w) \in 0..Unit - 1
  BY UnitPositive, WordIsInt, ModBounded DEF Value
<1>2. CASE Tag(w) = TAG_GLOBAL /\ Value(w) < VarCount
  <2>1. VarIndex(w) = Value(w)
    BY <1>2 DEF VarIndex, TAG_GLOBAL, TAG_LOCAL
  <2>2. Value(w) \in 0..VarCount - 1
    BY <1>1, <1>2, VMConstants
  <2> QED
    BY <2>1, <2>2, StorageShape
<1>3. CASE Tag(w) = TAG_LOCAL /\ Value(w) <= Locals - 1
  <2>1. VarIndex(w) = Value(w) + VarCount
    BY <1>3 DEF VarIndex, TAG_GLOBAL, TAG_LOCAL
  <2>2. Value(w) \in 0..Locals - 1
    BY <1>1, <1>3, VMConstants
  <2> QED
    BY <2>1, <2>2, StorageShape
<1>4. CASE ~(Tag(w) = TAG_GLOBAL /\ Value(w) < VarCount) /\ ~(Tag(w) = TAG_LOCAL /\ Value(w) <= Locals - 1)
  BY <1>4 DEF VarIndex
<1> QED
  BY <1>2, <1>3, <1>4

LEMMA AtWord == ASSUME VMInv, NEW i PROVE At(i) \in Word
BY VMConstants DEF VMInv, At, Word

LEMMA LocalAddressWord == ASSUME NEW n \in Int PROVE LocalAddress(n) \in Word
<1> DEFINE w == Unsigned(n)
           high == Tag(w) \div 4
<1>1. w \in 0..16 * Unit - 1
  BY UnitPositive, ModBounded DEF Unsigned
<1> HIDE DEF w
<1>2. Value(w) \in 0..Unit - 1
  BY <1>1, UnitPositive, ModBounded DEF Value
<1>3. Tag(w) \in 0..15
  BY <1>1, UnitPositive, SMTT(30) DEF Tag
<1>4. high \in 0..3
  BY <1>3
<1> HIDE DEF high
<1>5. 4 * high + TAG_LOCAL \in 0..15
  BY <1>4 DEF TAG_LOCAL
<1>6. \A t \in 0..15 : t * Unit \in 0..15 * Unit
  BY UnitPositive
<1>7. Tagged(4 * high + TAG_LOCAL, Value(w)) \in Word
  BY <1>2, <1>5, <1>6, UnitPositive DEF Tagged, Word
<1> QED
  BY <1>7 DEF LocalAddress, w, high

LEMMA SignedInt == \A w \in Word : Signed(w) \in Int
BY UnitPositive DEF Signed, Word, INT_MIN

--------------------------------------------------------------------------------
(* One instruction *)

(* What a step must leave for the invariant to hold after it. *)
LEMMA StepKeeps ==
    ASSUME VMInv, NEW m \in Machines, m.budget <= Budget, Sound(m), NEW at, NEW word \in Word,
           NEW indices \in SUBSET Storage, Step(m, at, word, indices), trapped' => trapped
    PROVE  VMInv'
<1>1. vars' \in [Storage -> Word]
  BY DEF Step, VMInv
<1>2. ~astray'
  BY DEF Step, VMInv
<1>3. \A t \in Threads : NodeInv(t)'
  BY DEF Step, VMInv, NodeInv, NodeShape
<1> QED
  BY <1>1, <1>2, <1>3 DEF Step, VMInv

(* The machine after the instruction's budget is taken. *)
LEMMA FetchedShape ==
    ASSUME VMInv, Running
    PROVE  /\ Fetched \in Machines /\ Fetched.budget <= Budget
           /\ Fetched.status = "running" /\ Fetched.sp = vm.sp /\ Fetched.pc = "inside"
           /\ Fetched.acc = vm.acc
           /\ vm.sp \in 0..Locals /\ vm.acc \in Word
BY VMConstants DEF VMInv, Running, Machines, Fetched, Sound

(* The machines the instructions make of it. *)
LEMMA ResultShape ==
    ASSUME NEW f \in Machines
    PROVE  /\ \A w \in Word : /\ [f EXCEPT !.acc = w] \in Machines
                              /\ [f EXCEPT !.acc = w].budget = f.budget
                              /\ [f EXCEPT !.acc = w].sp = f.sp
                              /\ [f EXCEPT !.acc = w].pc = f.pc
                              /\ [f EXCEPT !.acc = w].status = f.status
           /\ \A n \in Int : /\ [f EXCEPT !.sp = n] \in Machines
                             /\ [f EXCEPT !.sp = n].budget = f.budget
                             /\ [f EXCEPT !.sp = n].sp = n
                             /\ [f EXCEPT !.sp = n].pc = f.pc
                             /\ [f EXCEPT !.sp = n].status = f.status
           /\ \A u \in Statuses : /\ [f EXCEPT !.status = u] \in Machines
                                  /\ [f EXCEPT !.status = u].budget = f.budget
                                  /\ [f EXCEPT !.status = u].sp = f.sp
                                  /\ [f EXCEPT !.status = u].pc = f.pc
                                  /\ [f EXCEPT !.status = u].status = u
BY DEF Machines

LEMMA QuietKeeps ==
    ASSUME VMInv, NEW m \in Machines, m.budget <= Budget, Sound(m), Quiet(m)
    PROVE  VMInv'
<1>1. 0 \in Word /\ {} \in SUBSET Storage
  BY VMConstants
<1>2. Step(m, -1, 0, {}) /\ trapped' = trapped
  BY DEF Quiet
<1> QED
  BY <1>1, <1>2, StepKeeps

LEMMA FaultKeeps ==
    ASSUME VMInv, NEW m \in Machines, m.budget <= Budget,
           NEW u \in Statuses \ {"running", "sleeping"}, Fault(m, u)
    PROVE  VMInv'
<1> DEFINE n == [m EXCEPT !.status = u]
<1>1. n \in Machines /\ n.budget <= Budget /\ n.status = u
  BY ResultShape
<1>2. Quiet(n)
  BY DEF Fault
<1> HIDE DEF n
<1> QED
  BY <1>1, <1>2, QuietKeeps DEF Sound

(* A fault of the instruction fetched. *)
LEMMA FetchedFault ==
    ASSUME VMInv, Running, NEW u \in Statuses \ {"running", "sleeping"}, Fault(Fetched, u)
    PROVE  VMInv'
BY FetchedShape, FaultKeeps

(* The machine with a new stack pointer and a new accumulator. *)
Moved(n, w) == [Fetched EXCEPT !.sp = n, !.acc = w]

(* The instruction does no more than that, and stores one word. *)
LEMMA MoveKeeps ==
    ASSUME VMInv, Running, NEW n \in 0..Locals, NEW w \in Word,
           NEW at, NEW word \in Word, NEW indices \in SUBSET Storage,
           Step(Moved(n, w), at, word, indices), trapped' => trapped
    PROVE  VMInv'
<1> DEFINE f == Fetched
           g == [f EXCEPT !.sp = n]
           m == [g EXCEPT !.acc = w]
<1>1. f \in Machines /\ f.budget <= Budget /\ f.status = "running" /\ f.pc = "inside"
  BY FetchedShape
<1>2. g \in Machines /\ g.budget = f.budget /\ g.sp = n /\ g.status = f.status /\ g.pc = f.pc
  <2>1. n \in Int
    BY VMConstants
  <2> QED
    BY <1>1, <2>1, ResultShape
<1>3. Moved(n, w) = m
  BY DEF f, Moved
<1> HIDE DEF f, g
<1>4. m \in Machines /\ m.budget = f.budget /\ m.sp = n /\ m.pc = f.pc
  BY <1>2, ResultShape
<1>5. Step(m, at, word, indices)
  BY <1>3
<1> HIDE DEF m
<1> QED
  BY <1>1, <1>4, <1>5, StepKeeps DEF Sound

(* The same, where only one of the two changes. *)
LEMMA FetchedEither ==
    ASSUME VMInv, Running
    PROVE  /\ \A w \in Word : [Fetched EXCEPT !.acc = w] = Moved(vm.sp, w)
           /\ \A n \in Int : [Fetched EXCEPT !.sp = n] = Moved(n, vm.acc)
           /\ Fetched = Moved(vm.sp, vm.acc)
           /\ [Fetched EXCEPT !.sp = @ + 1] = Moved(vm.sp + 1, vm.acc)
           /\ \A w \in Word : [Fetched EXCEPT !.sp = @ - 1, !.acc = w] = Moved(vm.sp - 1, w)
           /\ [Fetched EXCEPT !.sp = @ - 1] = Moved(vm.sp - 1, vm.acc)
<1> DEFINE f == Fetched
<1>1. f \in Machines /\ f.sp = vm.sp /\ f.acc = vm.acc
  BY FetchedShape
<1> HIDE DEF f
<1>2. /\ \A w \in Word : [f EXCEPT !.acc = w] = [f EXCEPT !.sp = vm.sp, !.acc = w]
      /\ \A n \in Int : [f EXCEPT !.sp = n] = [f EXCEPT !.sp = n, !.acc = vm.acc]
      /\ f = [f EXCEPT !.sp = vm.sp, !.acc = vm.acc]
      /\ [f EXCEPT !.sp = @ + 1] = [f EXCEPT !.sp = vm.sp + 1, !.acc = vm.acc]
      /\ \A w \in Word : [f EXCEPT !.sp = @ - 1, !.acc = w] = [f EXCEPT !.sp = vm.sp - 1, !.acc = w]
      /\ [f EXCEPT !.sp = @ - 1] = [f EXCEPT !.sp = vm.sp - 1, !.acc = vm.acc]
  BY <1>1 DEF Machines
<1> QED
  BY <1>2 DEF f, Moved

LEMMA StackSlot ==
    ASSUME VMInv, Running
    PROVE  /\ vm.sp > 0 => Stk(vm.sp - 1) \in Storage /\ vm.sp - 1 \in 0..Locals
           /\ vm.sp < Locals => Stk(vm.sp) \in Storage /\ vm.sp + 1 \in 0..Locals
<1>1. vm.sp \in 0..Locals
  BY FetchedShape
<1>2. Storage = 0..VarCount + Locals - 1
  BY StorageFits DEF VMInv
<1> QED
  BY <1>1, <1>2, VMConstants DEF Stk

LEMMA MemKeeps ==
    ASSUME VMInv, Mem
    PROVE  VMInv'
<1> DEFINE i == VarIndex(vm.acc)
<1>0. Running /\ vm.sp \in 0..Locals /\ vm.acc \in Word /\ Operands \subseteq Word
  BY FetchedShape, VMConstants DEF Mem, Fetches
<1>1. i \in Storage \cup {-1} /\ At(i) \in Word
  BY <1>0, VarIndexIn, AtWord DEF VMInv
<1>2. CASE Fault(Fetched, "bad_var")
  BY <1>0, <1>2, FetchedFault DEF Statuses
<1>3. CASE i # -1 /\ ~Fault(Fetched, "bad_var")
  <2>1. /\ trapped' = trapped
        /\ \/ Step([Fetched EXCEPT !.acc = At(i)], -1, 0, {i})
           \/ \E w \in Operands : \/ Step([Fetched EXCEPT !.acc = At(i)], i, w, {i})
                                  \/ Step([Fetched EXCEPT !.acc = w], i, w, {i})
    BY <1>3, Zenon DEF Mem
  <2> HIDE DEF i
  <2>2. 0 \in Word /\ {i} \in SUBSET Storage
    BY <1>1, <1>3, VMConstants
  <2>3. \/ Step(Moved(vm.sp, At(i)), -1, 0, {i})
        \/ \E w \in Word : \/ Step(Moved(vm.sp, At(i)), i, w, {i})
                           \/ Step(Moved(vm.sp, w), i, w, {i})
    <3>1. \A w \in Word : [Fetched EXCEPT !.acc = w] = Moved(vm.sp, w)
      BY <1>0, FetchedEither
    <3>2. [Fetched EXCEPT !.acc = At(i)] = Moved(vm.sp, At(i))
      BY <1>1, <3>1
    <3>3. CASE Step([Fetched EXCEPT !.acc = At(i)], -1, 0, {i})
      BY <3>2, <3>3, Zenon
    <3>4. ASSUME NEW w \in Operands, \/ Step([Fetched EXCEPT !.acc = At(i)], i, w, {i})
                                     \/ Step([Fetched EXCEPT !.acc = w], i, w, {i})
          PROVE  w \in Word /\ (\/ Step(Moved(vm.sp, At(i)), i, w, {i})
                               \/ Step(Moved(vm.sp, w), i, w, {i}))
      <4>1. w \in Word
        BY <1>0
      <4>2. [Fetched EXCEPT !.acc = w] = Moved(vm.sp, w)
        BY <3>1, <4>1
      <4> QED
        BY <3>2, <3>4, <4>1, <4>2, Zenon
    <3> QED
      BY <2>1, <3>3, <3>4, Zenon
  <2> QED
    BY <1>0, <1>1, <2>1, <2>2, <2>3, MoveKeeps
<1> QED
  BY <1>2, <1>3 DEF Mem

LEMMA PushPopSwapKeeps ==
    ASSUME VMInv, Push \/ Pop \/ Swap
    PROVE  VMInv'
<1>0. Running /\ vm.sp \in 0..Locals /\ vm.acc \in Word /\ 0 \in Word /\ Locals \in Nat
  BY FetchedShape, VMConstants DEF Push, Pop, Swap, Fetches
<1>1. CASE Fault(Fetched, "overflow") \/ Fault(Fetched, "underflow")
  BY <1>0, <1>1, FetchedFault DEF Statuses
<1>2. CASE Push /\ ~Fault(Fetched, "overflow")
  <2>1. /\ Room /\ trapped' = trapped /\ Fetched.sp = vm.sp
        /\ Step([Fetched EXCEPT !.sp = @ + 1], Stk(vm.sp), vm.acc, {Stk(vm.sp)})
    BY <1>0, <1>2, FetchedShape DEF Push
  <2>2. Stk(vm.sp) \in Storage /\ vm.sp + 1 \in 0..Locals
    BY <1>0, <2>1, StackSlot DEF Room
  <2>3. Step(Moved(vm.sp + 1, vm.acc), Stk(vm.sp), vm.acc, {Stk(vm.sp)})
    BY <1>0, <2>1, <2>2, FetchedEither
  <2> QED
    BY <1>0, <2>1, <2>2, <2>3, MoveKeeps
<1>3. CASE (Pop \/ Swap) /\ ~Fault(Fetched, "underflow")
  <2> DEFINE i == Stk(vm.sp - 1)
  <2>1. /\ vm.sp > 0 /\ trapped' = trapped /\ Fetched.sp = vm.sp
        /\ \/ Step([Fetched EXCEPT !.sp = @ - 1, !.acc = At(i)], -1, 0, {i})
           \/ Step([Fetched EXCEPT !.acc = At(i)], i, vm.acc, {i})
    BY <1>0, <1>3, FetchedShape DEF Pop, Swap
  <2>2. {i} \in SUBSET Storage /\ vm.sp - 1 \in 0..Locals /\ At(i) \in Word
    BY <1>0, <2>1, StackSlot, AtWord
  <2> HIDE DEF i
  <2>3. CASE Step([Fetched EXCEPT !.sp = @ - 1, !.acc = At(i)], -1, 0, {i})
    <3>1. Step(Moved(vm.sp - 1, At(i)), -1, 0, {i})
      BY <1>0, <2>2, <2>3, FetchedEither
    <3> QED
      BY <1>0, <2>1, <2>2, <3>1, MoveKeeps
  <2>4. CASE Step([Fetched EXCEPT !.acc = At(i)], i, vm.acc, {i})
    <3>1. Step(Moved(vm.sp, At(i)), i, vm.acc, {i})
      BY <1>0, <2>2, <2>4, FetchedEither
    <3> QED
      BY <1>0, <2>1, <2>2, <3>1, MoveKeeps
  <2> QED
    BY <2>1, <2>3, <2>4
<1> QED
  BY <1>1, <1>2, <1>3

LEMMA UnaryLocKeeps ==
    ASSUME VMInv, Unary \/ Loc
    PROVE  VMInv'
<1>0. Running /\ Operands \subseteq Word /\ vm.sp \in 0..Locals /\ vm.sp \in Int
  BY FetchedShape, VMConstants DEF Unary, Loc, Fetches
<1>1. \E w \in Word : Quiet([Fetched EXCEPT !.acc = w])
  <2>1. CASE Unary
    BY <1>0, <2>1 DEF Unary
  <2>2. CASE Loc
    <3>1. PICK w \in Operands : Quiet([Fetched EXCEPT !.acc = LocalAddress(vm.sp + Signed(w))])
      BY <2>2 DEF Loc
    <3>2. vm.sp + Signed(w) \in Int
      <4>1. Signed(w) \in Int
        BY <1>0, SignedInt
      <4> QED
        BY <1>0, <4>1
    <3>3. LocalAddress(vm.sp + Signed(w)) \in Word
      BY <3>2, LocalAddressWord
    <3> QED
      BY <3>1, <3>3
  <2> QED
    BY <2>1, <2>2
<1>2. PICK w \in Word : Quiet([Fetched EXCEPT !.acc = w])
  BY <1>1
<1> DEFINE f == Fetched
           m == [f EXCEPT !.acc = w]
<1>3. f \in Machines /\ f.budget <= Budget /\ Sound(f)
  BY <1>0, FetchedShape DEF Sound
<1> HIDE DEF f
<1>4. m \in Machines /\ m.budget = f.budget /\ m.sp = f.sp /\ m.pc = f.pc /\ m.status = f.status
  BY <1>3, ResultShape
<1>5. Quiet(m)
  BY <1>2 DEF f
<1> HIDE DEF m
<1> QED
  BY <1>3, <1>4, <1>5, QuietKeeps DEF Sound

LEMMA AdjustSound ==
    ASSUME NEW n \in Int
    PROVE  /\ AdjustStatus(n) \in Statuses
           /\ AdjustStatus(n) = "running" => n \in 0..Locals
           /\ AdjustStatus(n) # "sleeping"
BY VMConstants DEF AdjustStatus, Statuses

LEMMA StackKeeps ==
    ASSUME VMInv, Stack
    PROVE  VMInv'
<1>0. Running /\ Operands \subseteq Word /\ vm.sp \in Int
  BY FetchedShape, VMConstants DEF Stack, Fetches
<1>1. PICK w \in Operands :
        Quiet([Fetched EXCEPT !.sp = Signed(Unsigned(vm.sp + Signed(w))),
                              !.status = AdjustStatus(Signed(Unsigned(vm.sp + Signed(w))))])
  BY DEF Stack
<1>2. Signed(Unsigned(vm.sp + Signed(w))) \in Int
  <2>1. Signed(w) \in Int
    BY <1>0, SignedInt
  <2>2. vm.sp + Signed(w) \in Int
    BY <1>0, <2>1
  <2>3. Unsigned(vm.sp + Signed(w)) \in Word
    BY <2>2, UnitPositive, ModBounded DEF Unsigned, Word
  <2> QED
    BY <2>3, SignedInt
<1>3. PICK n \in Int : n = Signed(Unsigned(vm.sp + Signed(w)))
  BY <1>2
<1> DEFINE f == Fetched
           m == [f EXCEPT !.sp = n, !.status = AdjustStatus(n)]
<1>4. f \in Machines /\ f.budget <= Budget /\ f.pc = "inside"
  BY <1>0, FetchedShape
<1>5. Quiet(m)
  BY <1>1, <1>3
<1> HIDE DEF f
<1>6. /\ m \in Machines /\ m.budget = f.budget /\ m.sp = n /\ m.pc = f.pc
      /\ m.status = AdjustStatus(n)
  BY <1>4, AdjustSound DEF Machines
<1> HIDE DEF m
<1> QED
  BY <1>4, <1>5, <1>6, AdjustSound, QuietKeeps DEF Sound

(* A target is a machine with a pc, or one stopped because it is negative. *)
LEMMA GotoShape ==
    ASSUME NEW f \in Machines, f.sp \in 0..Locals, NEW negative
    PROVE  /\ Goto(f, negative) \in Machines /\ Goto(f, negative).budget = f.budget
           /\ Sound(Goto(f, negative))
<1>1. CASE negative
  <2>1. Goto(f, negative) = [f EXCEPT !.pc = "negative", !.status = "range"]
    BY <1>1 DEF Goto
  <2> QED
    BY <2>1 DEF Machines, Sound, Statuses
<1>2. CASE ~negative
  <2>1. Goto(f, negative) = [f EXCEPT !.pc = "inside", !.status = "running"]
    BY <1>2 DEF Goto
  <2> QED
    BY <2>1 DEF Machines, Sound, Statuses
<1> QED
  BY <1>1, <1>2

LEMMA BranchKeeps ==
    ASSUME VMInv, Branch
    PROVE  VMInv'
<1>0. Running
  BY DEF Branch, Fetches
<1>1. Fetched \in Machines /\ Fetched.budget <= Budget /\ Fetched.sp \in 0..Locals
  BY <1>0, FetchedShape
<1>2. PICK negative \in BOOLEAN : Quiet(Goto(Fetched, negative))
  BY DEF Branch
<1> QED
  BY <1>1, <1>2, GotoShape, QuietKeeps

LEMMA RetKeeps ==
    ASSUME VMInv, Ret
    PROVE  VMInv'
<1> DEFINE i == Stk(vm.sp - 1)
           f == [Fetched EXCEPT !.sp = @ - 1]
<1>0. Running /\ 0 \in Word /\ vm.sp \in 0..Locals
  BY FetchedShape, VMConstants DEF Ret, Fetches
<1>1. CASE Fault(Fetched, "terminated")
  BY <1>0, <1>1, FetchedFault DEF Statuses
<1>2. CASE ~Fault(Fetched, "terminated")
  <2>1. /\ vm.sp > 0 /\ trapped' = trapped
        /\ Step(Goto(f, Signed(At(i)) < 0), -1, 0, {i})
    BY <1>2 DEF Ret
  <2>2. {i} \in SUBSET Storage /\ vm.sp - 1 \in 0..Locals
    BY <1>0, <2>1, StackSlot
  <2>3. f \in Machines /\ f.budget <= Budget /\ f.sp \in 0..Locals
    <3>1. /\ Fetched \in Machines /\ Fetched.budget <= Budget /\ Fetched.sp = vm.sp
      BY <1>0, FetchedShape
    <3>2. vm.sp - 1 \in Int
      BY <1>0
    <3>3. f = [Fetched EXCEPT !.sp = vm.sp - 1]
      BY <3>1
    <3> HIDE DEF f
    <3> QED
      BY <2>2, <3>1, <3>2, <3>3, ResultShape
  <2> HIDE DEF f, i
  <2>4. /\ Goto(f, Signed(At(i)) < 0) \in Machines
        /\ Goto(f, Signed(At(i)) < 0).budget = f.budget
        /\ Sound(Goto(f, Signed(At(i)) < 0))
    BY <2>3, GotoShape
  <2> QED
    BY <1>0, <2>1, <2>2, <2>3, <2>4, StepKeeps
<1> QED
  BY <1>1, <1>2

LEMMA StopsKeep ==
    ASSUME VMInv, BudgetOut \/ EndOfCode \/ Illegal
    PROVE  VMInv'
<1>0. Running
  BY DEF BudgetOut, EndOfCode, Illegal, Fetches
<1>1. Fault(Fetched, "budget_out") \/ Fault(Fetched, "range") \/ Fault(Fetched, "illegal")
  BY DEF BudgetOut, EndOfCode, Illegal, Fetched
<1> QED
  BY <1>0, <1>1, FetchedFault DEF Statuses

(* Mostly: the stack gives one word up. *)
LEMMA PopOne ==
    ASSUME VMInv, Running, vm.sp > 0
    PROVE  /\ [Fetched EXCEPT !.sp = @ - 1] = Moved(vm.sp - 1, vm.acc)
           /\ \A w \in Word : [Fetched EXCEPT !.sp = @ - 1, !.acc = w] = Moved(vm.sp - 1, w)
           /\ vm.sp - 1 \in 0..Locals /\ vm.acc \in Word
           /\ Stk(vm.sp - 1) \in Storage /\ At(Stk(vm.sp - 1)) \in Word
BY FetchedEither, StackSlot, FetchedShape, AtWord

LEMMA PopFault ==
    ASSUME VMInv, Running, vm.sp > 0, NEW u \in Statuses \ {"running", "sleeping"},
           NEW p, p = [Fetched EXCEPT !.sp = @ - 1],
           Step([p EXCEPT !.status = u], -1, 0, {Stk(vm.sp - 1)}), trapped' = trapped
    PROVE  VMInv'
<1> DEFINE f == Fetched
           g == [f EXCEPT !.sp = vm.sp - 1]
           m == [g EXCEPT !.status = u]
<1>1. f \in Machines /\ f.budget <= Budget /\ vm.sp - 1 \in Int /\ f.sp = vm.sp
  BY FetchedShape, VMConstants
<1>2. p = g
  BY <1>1
<1> HIDE DEF f
<1>3. g \in Machines /\ g.budget = f.budget
  BY <1>1, ResultShape
<1>4. Step(m, -1, 0, {Stk(vm.sp - 1)})
  BY <1>2
<1> HIDE DEF g
<1>5. m \in Machines /\ m.budget = g.budget /\ m.status = u
  BY <1>3, ResultShape
<1> HIDE DEF m
<1>6. 0 \in Word /\ {Stk(vm.sp - 1)} \in SUBSET Storage
  BY PopOne, VMConstants
<1> QED
  BY <1>1, <1>3, <1>4, <1>5, <1>6, StepKeeps DEF Sound

LEMMA StoreKeeps ==
    ASSUME VMInv, Store
    PROVE  VMInv'
<1> DEFINE i == Stk(vm.sp - 1)
           m == [Fetched EXCEPT !.sp = @ - 1]
<1>0. Running /\ 0 \in Word
  BY VMConstants DEF Store, Fetches
<1>1. CASE Fault(Fetched, "underflow")
  BY <1>0, <1>1, FetchedFault DEF Statuses
<1>2. CASE ~Fault(Fetched, "underflow")
  <2>1. vm.sp > 0 /\ trapped' = trapped
        /\ \E p \in {<<vm.acc, At(i)>>, <<At(i), vm.acc>>} :
              LET to == VarIndex(p[1])
              IN  \/ to = -1 /\ Step([m EXCEPT !.status = "bad_var"], -1, 0, {i})
                  \/ to # -1 /\ Step(m, to, p[2], {i, to})
    BY <1>2, Zenon DEF Store
  <2>2. PICK a \in Word, b \in Word :
           \/ VarIndex(a) = -1 /\ Step([m EXCEPT !.status = "bad_var"], -1, 0, {i})
           \/ VarIndex(a) # -1 /\ Step(m, VarIndex(a), b, {i, VarIndex(a)})
    <3>1. vm.acc \in Word /\ At(i) \in Word
      BY <1>0, <2>1, PopOne
    <3> HIDE DEF i, m
    <3> QED
      BY <2>1, <3>1
  <2>3. CASE Step([m EXCEPT !.status = "bad_var"], -1, 0, {i})
    <3>1. "bad_var" \in Statuses \ {"running", "sleeping"} /\ m = [Fetched EXCEPT !.sp = @ - 1]
      BY DEF Statuses
    <3> HIDE DEF m
    <3> QED
      BY <1>0, <2>1, <2>3, <3>1, PopFault
  <2>4. CASE VarIndex(a) # -1 /\ Step(m, VarIndex(a), b, {i, VarIndex(a)})
    <3>1. VarIndex(a) \in Storage
      BY <2>4, VarIndexIn DEF VMInv
    <3>2. m = Moved(vm.sp - 1, vm.acc) /\ i \in Storage /\ vm.sp - 1 \in 0..Locals /\ vm.acc \in Word
      BY <1>0, <2>1, PopOne
    <3> HIDE DEF m, i
    <3>3. {i, VarIndex(a)} \in SUBSET Storage
      BY <3>1, <3>2
    <3>4. Step(Moved(vm.sp - 1, vm.acc), VarIndex(a), b, {i, VarIndex(a)})
      BY <2>4, <3>2
    <3> QED
      BY <1>0, <2>1, <3>2, <3>3, <3>4, MoveKeeps
  <2> QED
    BY <2>2, <2>3, <2>4
<1> QED
  BY <1>1, <1>2

(* A binary operation leaves some word in the accumulator. *)
LEMMA ResultKeeps ==
    ASSUME VMInv, Running, vm.sp > 0, trapped' => trapped,
           \E w \in Operands : Step([[Fetched EXCEPT !.sp = @ - 1] EXCEPT !.acc = w], -1, 0,
                                    {Stk(vm.sp - 1)})
    PROVE  VMInv'
<1>0. Operands \subseteq Word /\ 0 \in Word
  BY VMConstants
<1>1. PICK w \in Operands : Step([[Fetched EXCEPT !.sp = @ - 1] EXCEPT !.acc = w], -1, 0,
                                 {Stk(vm.sp - 1)})
  OBVIOUS
<1>2. [[Fetched EXCEPT !.sp = @ - 1] EXCEPT !.acc = w] = Moved(vm.sp - 1, w)
  <2>1. [Fetched EXCEPT !.sp = @ - 1, !.acc = w] = Moved(vm.sp - 1, w)
    BY <1>0, PopOne
  <2> QED
    BY <2>1
<1>3. {Stk(vm.sp - 1)} \in SUBSET Storage /\ vm.sp - 1 \in 0..Locals /\ w \in Word
  BY <1>0, PopOne
<1>4. Step(Moved(vm.sp - 1, w), -1, 0, {Stk(vm.sp - 1)})
  BY <1>1, <1>2
<1> QED
  BY <1>0, <1>3, <1>4, MoveKeeps

LEMMA DivideKeeps ==
    ASSUME VMInv, Divide
    PROVE  VMInv'
<1> DEFINE i == Stk(vm.sp - 1)
           m == [Fetched EXCEPT !.sp = @ - 1]
<1>0. Running
  BY DEF Divide, Fetches
<1>1. CASE Fault(Fetched, "div_zero") \/ Fault(Fetched, "underflow")
  BY <1>0, <1>1, FetchedFault DEF Statuses
<1>2. CASE vm.sp > 0 /\ Step([m EXCEPT !.status = "div_zero"], -1, 0, {i}) /\ trapped' = trapped
  <2>1. "div_zero" \in Statuses \ {"running", "sleeping"} /\ m = [Fetched EXCEPT !.sp = @ - 1]
    BY DEF Statuses
  <2> HIDE DEF m
  <2> QED
    BY <1>0, <1>2, <2>1, PopFault
<1>3. CASE /\ vm.acc # 0 /\ vm.sp > 0 /\ Computable(At(i), vm.acc)
           /\ \E w \in Operands : Step([m EXCEPT !.acc = w], -1, 0, {i})
           /\ trapped' = (trapped \/ (vm.acc = 0 \/ (At(i) = INT_MIN /\ vm.acc = MINUS_ONE)))
  <2>1. ~(vm.acc = 0 \/ (At(i) = INT_MIN /\ vm.acc = MINUS_ONE)) /\ ~trapped
    BY <1>3 DEF Computable, VMInv
  <2>2. trapped' => trapped
    BY <1>3, <2>1
  <2> QED
    BY <1>0, <1>3, <2>2, ResultKeeps
<1>4. \/ Fault(Fetched, "div_zero") \/ Fault(Fetched, "underflow")
      \/ vm.sp > 0 /\ Step([m EXCEPT !.status = "div_zero"], -1, 0, {i}) /\ trapped' = trapped
      \/ /\ vm.acc # 0 /\ vm.sp > 0 /\ Computable(At(i), vm.acc)
         /\ \E w \in Operands : Step([m EXCEPT !.acc = w], -1, 0, {i})
         /\ trapped' = (trapped \/ (vm.acc = 0 \/ (At(i) = INT_MIN /\ vm.acc = MINUS_ONE)))
  BY Zenon DEF Divide
<1> QED
  BY <1>1, <1>2, <1>3, <1>4

LEMMA BinaryKeeps ==
    ASSUME VMInv, Binary
    PROVE  VMInv'
<1>0. Running
  BY DEF Binary, Fetches
<1>1. CASE Fault(Fetched, "underflow")
  BY <1>0, <1>1, FetchedFault DEF Statuses
<1>2. CASE ~Fault(Fetched, "underflow")
  <2>1. /\ vm.sp > 0 /\ trapped' = trapped
        /\ \E w \in Operands : Step([[Fetched EXCEPT !.sp = @ - 1] EXCEPT !.acc = w], -1, 0,
                                    {Stk(vm.sp - 1)})
    BY <1>2, Zenon DEF Binary
  <2> QED
    BY <1>0, <2>1, ResultKeeps
<1> QED
  BY <1>1, <1>2

LEMMA CallKeeps ==
    ASSUME VMInv, Call
    PROVE  VMInv'
<1>0. Running /\ 0 \in Word
  BY VMConstants DEF Call, Fetches
<1>1. CASE Quiet(Fetched)
  BY <1>0, <1>1, FetchedShape, QuietKeeps DEF Sound
<1>2. CASE Fault(Fetched, "range") \/ Fault(Fetched, "overflow")
  BY <1>0, <1>2, FetchedFault DEF Statuses
<1>3. CASE /\ Room /\ trapped' = trapped
           /\ Step([Fetched EXCEPT !.sp = @ + 1], Stk(vm.sp), 0, {Stk(vm.sp)})
  <2>1. {Stk(vm.sp)} \in SUBSET Storage /\ vm.sp + 1 \in 0..Locals /\ vm.acc \in Word
    BY <1>0, <1>3, StackSlot, FetchedShape DEF Room
  <2>2. [Fetched EXCEPT !.sp = @ + 1] = Moved(vm.sp + 1, vm.acc)
    BY <1>0, FetchedEither
  <2>3. Step(Moved(vm.sp + 1, vm.acc), Stk(vm.sp), 0, {Stk(vm.sp)})
    BY <1>3, <2>2, Zenon
  <2> QED
    BY <1>0, <1>3, <2>1, <2>3, MoveKeeps
<1>4. Quiet(Fetched) \/ Fault(Fetched, "range") \/ Fault(Fetched, "overflow")
      \/ /\ Room /\ trapped' = trapped
         /\ Step([Fetched EXCEPT !.sp = @ + 1], Stk(vm.sp), 0, {Stk(vm.sp)})
  BY Zenon DEF Call
<1> QED
  BY <1>1, <1>2, <1>3, <1>4

LEMMA NativeKeeps ==
    ASSUME VMInv, Native
    PROVE  VMInv'
<1>0. Running /\ Operands \subseteq Word /\ 0 \in Word /\ Locals \in Nat \ {0} /\ VarCount \in Nat
  BY VMConstants DEF Native, NativeCall, Fetches
<1>1. PICK acc \in Operands \cup {vm.acc},
           status \in {"running", "sleeping", "bad_native", "terminated"} :
        /\ Step([Fetched EXCEPT !.acc = acc, !.status = status], -1, 0, ArgumentSlots)
        /\ UNCHANGED trapped
  BY DEF Native
<1>2. ArgumentSlots \in SUBSET Storage
  <2>1. vm.sp \in Int
    BY <1>0, FetchedShape
  <2> QED
    BY <1>0, <2>1, StorageFits DEF ArgumentSlots, Stk, VMInv
<1> DEFINE f == Fetched
           m == [f EXCEPT !.acc = acc, !.status = status]
<1>3. /\ f \in Machines /\ f.budget <= Budget /\ f.pc = "inside" /\ f.sp \in 0..Locals
      /\ acc \in Word /\ status \in Statuses
  BY <1>0, FetchedShape DEF Statuses
<1>4. Step(m, -1, 0, ArgumentSlots)
  BY <1>1
<1> HIDE DEF f
<1>5. m \in Machines /\ m.budget = f.budget /\ m.sp = f.sp /\ m.pc = f.pc
  BY <1>3 DEF Machines
<1> HIDE DEF m
<1> QED
  BY <1>0, <1>1, <1>2, <1>3, <1>4, <1>5, StepKeeps DEF Sound

--------------------------------------------------------------------------------
(* The nodes of the threads *)

(* The words of a frame lie in the region, and a node built from them holds them. *)
LEMMA LiveShape ==
    ASSUME VMInv, NEW depth \in 0..Locals
    PROVE  /\ DOMAIN Live(depth) = 0..depth - 1
           /\ \A i \in DOMAIN Live(depth) : i \in 0..Locals - 1 /\ Live(depth)[i] \in Word
           /\ \A i \in DOMAIN Live(depth) : Live(depth)[i] = At(Stk(i))
<1>1. DOMAIN Live(depth) = 0..depth - 1 /\ \A i \in 0..depth - 1 : Live(depth)[i] = At(Stk(i))
  BY DEF Live
<1>2. \A i \in 0..depth - 1 : i \in 0..Locals - 1
  BY VMConstants
<1> QED
  BY <1>1, <1>2, AtWord

LEMMA ForkKeeps ==
    ASSUME VMInv, Fork
    PROVE  VMInv'
<1>0. Running /\ vm.sp \in 0..Locals /\ vm.pc = "inside" /\ Operands \subseteq Word /\ 0 \in Word
  <2>1. Running /\ Operands \subseteq Word /\ 0 \in Word
    BY VMConstants DEF Fork, NativeCall, Fetches
  <2> QED
    BY <2>1, FetchedShape DEF VMInv, Sound, Running
<1>1. PICK child \in Threads, id \in Operands :
        /\ node' = [node EXCEPT ![child] = [state |-> "ready", pc |-> vm.pc, acc |-> 0,
                                            depth |-> vm.sp, stack |-> Live(vm.sp)]]
        /\ frame' = [frame EXCEPT ![child] = Live(vm.sp)]
        /\ vm' = [Fetched EXCEPT !.acc = id]
        /\ UNCHANGED <<vars, current, astray, trapped>>
  BY DEF Fork
<1>2. vm' \in Machines /\ vm'.budget <= Budget /\ Sound(vm')
  <2>1. Fetched \in Machines /\ Fetched.budget <= Budget /\ Sound(Fetched) /\ id \in Word
    BY <1>0, FetchedShape DEF Sound
  <2> QED
    BY <1>1, <2>1, ResultShape DEF Sound
<1> DEFINE n == [state |-> "ready", pc |-> vm.pc, acc |-> 0, depth |-> vm.sp,
                 stack |-> Live(vm.sp)]
<1>3. Resumable(n, Live(vm.sp)) /\ n.state = "ready"
  BY <1>0, LiveShape DEF Resumable
<1> HIDE DEF n
<1>4. DOMAIN node = Threads /\ DOMAIN frame = Threads
  BY DEF VMInv
<1>5. /\ DOMAIN node' = Threads /\ DOMAIN frame' = Threads
      /\ node'[child] = n /\ frame'[child] = Live(vm.sp)
      /\ \A t \in Threads \ {child} : node'[t] = node[t] /\ frame'[t] = frame[t]
  BY <1>1, <1>4 DEF n
<1>6. \A t \in Threads : NodeInv(t)'
  BY <1>3, <1>5 DEF VMInv, NodeInv, NodeShape
<1>7. current # "none" => node'[current].state = "ready"
  BY <1>3, <1>5 DEF VMInv
<1> QED
  BY <1>1, <1>2, <1>5, <1>6, <1>7 DEF VMInv

LEMMA UnpackedShape ==
    ASSUME VMInv, NEW t \in Threads, node[t].state = "ready"
    PROVE  /\ Unpacked(t) \in [Storage -> Word]
           /\ \A i \in DOMAIN frame[t] : Unpacked(t)[Stk(i)] = frame[t][i]
<1>1. Resumable(node[t], frame[t]) /\ vars \in [Storage -> Word]
  BY DEF VMInv, NodeInv, NodeShape
<1>2. Unpacked(t) \in [Storage -> Word]
  BY <1>1 DEF Unpacked, Resumable
<1>3. ASSUME NEW i \in DOMAIN frame[t] PROVE Unpacked(t)[Stk(i)] = frame[t][i]
  <2>1. i \in DOMAIN node[t].stack /\ frame[t][i] = node[t].stack[i] /\ i \in 0..Locals - 1
    BY <1>1, <1>3 DEF Resumable
  <2>2. Stk(i) \in Storage /\ Stk(i) - VarCount = i
    BY <2>1, StorageShape, VMConstants DEF Stk, VMInv
  <2> QED
    BY <2>1, <2>2 DEF Unpacked
<1> QED
  BY <1>2, <1>3

LEMMA ResumeKeeps ==
    ASSUME VMInv, NEW t \in Threads, Resume(t)
    PROVE  VMInv'
<1>1. Resumable(node[t], frame[t])
  BY DEF VMInv, NodeInv, NodeShape, Resume
<1>2. vars' \in [Storage -> Word]
  BY UnpackedShape DEF Resume
<1>3. node[t].depth \in 0..Locals /\ node[t].depth \in Int /\ node[t].pc = "inside"
      /\ node[t].acc \in Word
  BY <1>1, VMConstants DEF Resumable
<1>4. vm' = [vm EXCEPT !.pc = "inside", !.acc = node[t].acc, !.sp = node[t].depth,
                       !.status = "running"]
  BY <1>3 DEF Resume
<1>5. vm' \in Machines /\ vm'.budget <= Budget /\ Sound(vm')
  BY <1>3, <1>4 DEF VMInv, Machines, Sound, Statuses
<1>6. \A u \in Threads : NodeInv(u)'
  BY DEF Resume, VMInv, NodeInv, NodeShape
<1> QED
  BY <1>2, <1>5, <1>6 DEF Resume, VMInv

(* Packed keeps the first depth words, which are the frame. *)
LEMMA PackedShape ==
    ASSUME VMInv, NEW t \in Threads, NEW depth \in 0..Locals, node[t].state = "ready"
    PROVE  /\ 0..depth - 1 \subseteq DOMAIN Packed(node[t], depth)
           /\ \A i \in DOMAIN Packed(node[t], depth) :
                 i \in 0..Locals - 1 /\ Packed(node[t], depth)[i] \in Word
           /\ \A i \in 0..depth - 1 : Packed(node[t], depth)[i] = Live(depth)[i]
<1> DEFINE D == DOMAIN node[t].stack \cup 0..depth - 1
           P == Packed(node[t], depth)
<1>1. \A i \in DOMAIN node[t].stack : i \in 0..Locals - 1 /\ node[t].stack[i] \in Word
  BY DEF VMInv, NodeInv, NodeShape, Resumable
<1>2. DOMAIN P = D /\ \A i \in D : P[i] = IF i < depth THEN At(Stk(i)) ELSE node[t].stack[i]
  BY DEF Packed
<1> HIDE DEF P
<1>3. \A i \in 0..depth - 1 : i \in 0..Locals - 1 /\ i < depth
  BY VMConstants
<1>4. ASSUME NEW i \in D PROVE i \in 0..Locals - 1 /\ P[i] \in Word
  <2>1. CASE i < depth
    BY <1>1, <1>2, <1>3, <2>1, AtWord
  <2>2. CASE ~(i < depth)
    BY <1>1, <1>2, <1>3, <2>2
  <2> QED
    BY <2>1, <2>2
<1>5. \A i \in 0..depth - 1 : P[i] = Live(depth)[i]
  BY <1>2, <1>3, LiveShape
<1> QED
  BY <1>2, <1>4, <1>5 DEF P

LEMMA SuspendKeeps ==
    ASSUME VMInv, Suspend
    PROVE  VMInv'
<1> DEFINE t == current
           d == ClampDepth(vm.sp)
           n == [state |-> IF vm.status = "sleeping" THEN "ready" ELSE "gone",
                 pc |-> vm.pc, acc |-> vm.acc, depth |-> d, stack |-> Packed(node[t], d)]
           w == IF vm.status = "terminated" THEN [node[t] EXCEPT !.state = "gone"] ELSE n
<1>1. t \in Threads /\ node[t].state = "ready" /\ DOMAIN node = Threads /\ DOMAIN frame = Threads
  BY DEF Suspend, VMInv
<1>2. d \in 0..Locals
  BY VMConstants DEF VMInv, Machines, ClampDepth
<1>3. /\ node' = [node EXCEPT ![t] = w] /\ frame' = [frame EXCEPT ![t] = Live(d)]
      /\ current' = "none" /\ UNCHANGED <<vm, vars, astray, trapped>>
  BY DEF Suspend
<1>4. NodeShape(w, Live(d))
  <2>1. CASE vm.status = "terminated"
    <3>1. w = [node[t] EXCEPT !.state = "gone"]
      BY <2>1
    <3> QED
      BY <3>1 DEF NodeShape
  <2>2. CASE vm.status = "sleeping"
    <3>1. Resumable(n, Live(d))
      <4>1. vm.pc = "inside" /\ vm.acc \in Word
        BY <2>2 DEF VMInv, Sound, Machines
      <4>2. /\ 0..d - 1 \subseteq DOMAIN Packed(node[t], d)
            /\ \A i \in DOMAIN Packed(node[t], d) :
                  i \in 0..Locals - 1 /\ Packed(node[t], d)[i] \in Word
            /\ \A i \in 0..d - 1 : Packed(node[t], d)[i] = Live(d)[i]
            /\ DOMAIN Live(d) = 0..d - 1
        BY <1>1, <1>2, PackedShape, LiveShape
      <4> HIDE DEF d, t
      <4> QED
        BY <1>2, <4>1, <4>2 DEF Resumable
    <3>2. w = n /\ n.state = "ready"
      BY <2>2
    <3> HIDE DEF n, w
    <3> QED
      BY <3>1, <3>2 DEF NodeShape
  <2>3. CASE vm.status \notin {"terminated", "sleeping"}
    BY <2>3 DEF NodeShape
  <2> QED
    BY <2>1, <2>2, <2>3
<1> PICK u \in Threads : u = t
  BY <1>1
<1>5. /\ DOMAIN node' = Threads /\ DOMAIN frame' = Threads
      /\ node'[u] = w /\ frame'[u] = Live(d)
      /\ \A v \in Threads \ {u} : node'[v] = node[v] /\ frame'[v] = frame[v]
  <2> HIDE DEF w, d
  <2> QED
    BY <1>1, <1>3
<1> HIDE DEF w, d, t
<1>6. ASSUME NEW v \in Threads PROVE NodeInv(v)'
  <2>1. CASE v = u
    BY <1>4, <1>5, <2>1 DEF NodeInv, NodeShape
  <2>2. CASE v # u
    BY <1>5, <2>2 DEF VMInv, NodeInv, NodeShape
  <2> QED
    BY <2>1, <2>2
<1> QED
  BY <1>3, <1>5, <1>6 DEF VMInv

--------------------------------------------------------------------------------
(* The theorems *)

LEMMA VMInit == ASSUME SizeFits, Init PROVE VMInv
<1>1. vm \in Machines /\ vm.budget <= Budget /\ Sound(vm)
  BY VMConstants DEF Init, Machines, Sound, Statuses, Word
<1>2. vars \in [Storage -> Word]
  BY VMConstants DEF Init, Word
<1>4. ~astray
  BY StorageShape DEF Init
<1>3. ASSUME NEW t \in Threads PROVE NodeInv(t)
  <2>1. DOMAIN Empty = {} /\ 0 - 1 = -1 /\ 0..-1 = {} /\ 0 \in 0..Locals /\ 0 \in Word
    BY VMConstants DEF Empty, Word
  <2>2. frame[t] = Empty /\ node[t] \in {FreshNode, FreeNode}
    BY DEF Init
  <2>3. FreeNode.state = "free" /\ FreshNode.state = "ready"
    BY DEF FreeNode, FreshNode
  <2>4. Resumable(FreshNode, Empty)
    BY <2>1 DEF Resumable, FreshNode
  <2> QED
    BY <2>2, <2>3, <2>4 DEF NodeInv, NodeShape
<1> QED
  BY <1>1, <1>2, <1>3, <1>4 DEF Init, VMInv

LEMMA VMStep == ASSUME VMInv, [Next]_vmVars PROVE VMInv'
<1>1. CASE UNCHANGED vmVars
  BY <1>1 DEF vmVars, VMInv, NodeInv, NodeShape
<1>2. CASE Instruction
  BY <1>2, StopsKeep, MemKeeps, UnaryLocKeeps, PushPopSwapKeeps, StackKeeps, BranchKeeps,
     CallKeeps, RetKeeps, StoreKeeps, DivideKeeps, BinaryKeeps, NativeKeeps, ForkKeeps
     DEF Instruction
<1> QED
  BY <1>1, <1>2, SuspendKeeps, ResumeKeeps DEF Next

(***************************************************************************)
(* For every bytecode, any number of threads and any sizes that do not     *)
(* wrap: the machine that runs is sound, and every node can be resumed.    *)
(***************************************************************************)
THEOREM VMInvariant ==
    ASSUME SizeFits
    PROVE  Spec => []VMInv
<1>1. Init => VMInv
  BY VMInit
<1> QED
  BY <1>1, VMStep, PTL DEF Spec

(***************************************************************************)
(* The types of ScriptVM's state: words stay words, whatever is computed.  *)
(***************************************************************************)
THEOREM VMTyped ==
    ASSUME SizeFits
    PROVE  Spec => []TypeOK
<1>1. VMInv => TypeOK
  BY DEF VMInv, NodeInv, NodeShape, Machines, TypeOK
<1> QED
  BY <1>1, VMInvariant, PTL

(***************************************************************************)
(* No bytecode makes core_script_run or a native touch a word outside the  *)
(* words of vars, if the size the load asks for did not wrap: the load     *)
(* itself does not look, so the hypothesis is about who calls it.          *)
(***************************************************************************)
THEOREM NeverAstrayHolds ==
    ASSUME SizeFits
    PROVE  Spec => []NeverAstray
<1>1. VMInv => NeverAstray
  BY DEF VMInv, NeverAstray
<1> QED
  BY <1>1, VMInvariant, PTL

(***************************************************************************)
(* No bytecode makes core_script_run divide by zero, or INT_MIN by -1.     *)
(***************************************************************************)
THEOREM NeverTrapsHolds ==
    ASSUME SizeFits
    PROVE  Spec => []NeverTraps
<1>1. VMInv => NeverTraps
  BY DEF VMInv, NeverTraps
<1> QED
  BY <1>1, VMInvariant, PTL

(***************************************************************************)
(* The stack pointer and pc of the machine that runs, and of every thread  *)
(* sched_execute will resume, are in range.                                *)
(***************************************************************************)
THEOREM MachineInRangeHolds ==
    ASSUME SizeFits
    PROVE  Spec => []MachineInRange
<1>1. VMInv => MachineInRange
  BY DEF VMInv, NodeInv, NodeShape, Resumable, Sound, Running, MachineInRange
<1> QED
  BY <1>1, VMInvariant, PTL

(***************************************************************************)
(* The step of sched_execute that resumes a thread puts back every word of *)
(* the stack it slept with.                                                *)
(***************************************************************************)
THEOREM FrameKeptHolds ==
    ASSUME SizeFits
    PROVE  Spec => FrameKept
<1>1. VMInv /\ [Next]_vmVars =>
        [\A t \in Threads :
            (current = "none" /\ current' = t) =>
                \A i \in DOMAIN frame[t] : vars'[Stk(i)] = frame[t][i]]_vmVars
  <2> SUFFICES ASSUME VMInv, Next, NEW t \in Threads, current = "none", current' = t
               PROVE  \A i \in DOMAIN frame[t] : vars'[Stk(i)] = frame[t][i]
    BY DEF vmVars
  <2>1. CASE \E u \in Threads : Resume(u)
    BY <2>1, UnpackedShape DEF Resume
  <2>2. CASE Instruction
    BY <2>2 DEF Instruction, BudgetOut, EndOfCode, Mem, Unary, Push, Pop, Swap, Stack, Loc, Branch,
       Call, Ret, Store, Divide, Binary, Illegal, Native, Fork, NativeCall, Fetches, Running
  <2> QED
    BY <2>1, <2>2 DEF Next, Suspend
<1> QED
  BY <1>1, VMInvariant, PTL DEF Spec, FrameKept

--------------------------------------------------------------------------------
(* Command blocks *)

BlockFields == {"entries", "first", "go", "order"}
EntryFields == {"cmd", "rep", "bytes", "failed", "reply"}
WalkFields == {"at", "pass", "i", "p", "index", "half", "req", "saved"}

Written == Blocks \cup {EmptyBlock}

(* The commands that are a structural error wherever they stand. *)
Oversized(e) ==
    /\ e.cmd \notin {CORE_CMD_PAD, CORE_CMD_END, CORE_CMD_SKIP}
    /\ e.cmd > CORE_CMD_MAX_LEN \/ e.rep > CORE_CMD_MAX_LEN

(***************************************************************************)
(* Block b is block w run: it has the commands of w, but for the bytes of  *)
(* entry i, and behind a command that is too long it is as it was.         *)
(***************************************************************************)
Follows(b, w, i) ==
    /\ DOMAIN b = BlockFields /\ b.entries \in Seq(ToSet(b.entries))
    /\ Len(b.entries) = Len(w.entries)
    /\ \A k \in 1..Len(w.entries) :
          /\ DOMAIN b.entries[k] = EntryFields
          /\ b.entries[k].cmd = w.entries[k].cmd /\ b.entries[k].rep = w.entries[k].rep
          /\ k # i => b.entries[k].bytes = w.entries[k].bytes
          /\ \A m \in 1..Len(w.entries) :
                m < k /\ Oversized(w.entries[m]) => b.entries[k] = w.entries[k]

(* The walk l has not gone past a command that is too long. *)
NotBehind(w, l) ==
    \A m \in 1..Len(w.entries) : Oversized(w.entries[m]) => l.i <= m

(***************************************************************************)
(* Block b is block w, and l is walking it.  While it waits for a transfer *)
(* the last command byte is lent to the status, and saved is that byte.    *)
(***************************************************************************)
Walked(b, w, l) ==
    /\ l.at = "walk" => NotBehind(w, l)
    /\ IF l.at \in {"reset", "send", "wait"}
       THEN /\ l.i \in 1..Len(w.entries) /\ NotBehind(w, l) /\ ~Oversized(w.entries[l.i])
            /\ Follows(b, w, l.i)
            /\ [b.entries[l.i].bytes EXCEPT ![b.entries[l.i].cmd] = l.saved] = w.entries[l.i].bytes
       ELSE Follows(b, w, 0)

(* What is in the driver's copy, in that of a read, and in the answer. *)
InChannel(c) == \E w \in Written : Walked(channel.block, w, IF cl[c].pass = 0 THEN cl[c] ELSE Away)
InRead(c) == cl[c].at # "idle" /\ cl[c].pass = 1 => \E w \in Written : Walked(buf[c], w, cl[c])
InAnswer(c) == result[c].op = "read" => \E w \in Written : Follows(result[c].block, w, 0)

Places ==
    /\ DOMAIN cl = Clients /\ DOMAIN buf = Clients /\ DOMAIN result = Clients
    /\ DOMAIN channel = {"block", "swap"}
    /\ \A c \in Clients :
          /\ DOMAIN cl[c] = WalkFields /\ cl[c].pass \in {0, 1} /\ cl[c].i \in Nat \ {0}
          /\ IF c \in ChannelClients
             THEN cl[c].at \in {"idle", "walk", "reset", "send", "wait", "over"} /\ cl[c].req.op = "none"
             ELSE /\ cl[c].at \in {"idle", "sync", "reset", "send", "wait"}
                  /\ cl[c].at # "idle" => cl[c].req.op # "none"

(* Data comes for a client only, and no client has a transfer out when the slot has none. *)
FlightHasSender ==
    /\ Delivers(flight) => flight.by \in Clients
    /\ slot # "IN_FLIGHT" => flight.by \notin Clients

ChannelInv ==
    /\ Places /\ FlightHasSender
    /\ \A c \in ChannelClients : InChannel(c) /\ InRead(c) /\ InAnswer(c)

--------------------------------------------------------------------------------
(* Blocks *)

LEMMA EntriesAre ==
    ASSUME NEW w \in Written
    PROVE  /\ DOMAIN w = BlockFields
           /\ w.entries \in Seq([cmd : 0..255, rep : 0..255, bytes : Seq(0..255), failed : BOOLEAN,
                                 reply : Seq(0..255)])
<1>1. CASE w \in Blocks
  BY <1>1, ChannelConstants DEF BlockFields
<1>2. CASE w = EmptyBlock
  <2>1. DOMAIN w = BlockFields /\ w.entries = <<>>
    BY <1>2 DEF EmptyBlock, BlockFields
  <2> QED
    BY <2>1
<1> QED
  BY <1>1, <1>2 DEF Written

LEMMA OwnRange ==
    ASSUME NEW S, NEW s \in Seq(S)
    PROVE  s \in Seq(ToSet(s))
<1>1. s \in [1..Len(s) -> ToSet(s)] /\ Len(s) \in Nat
  BY DEF ToSet
<1> QED
  BY <1>1, SeqDef

LEMMA SetAgain ==
    ASSUME NEW S, NEW s \in Seq(S), NEW i
    PROVE  [s EXCEPT ![i] = s[i]] = s
<1>1. s = [k \in DOMAIN s |-> s[k]]
  <2>1. s \in [1..Len(s) -> S]
    BY SeqDef
  <2> QED
    BY <2>1
<1> QED
  BY <1>1

LEMMA WrittenFollows ==
    ASSUME NEW w \in Written
    PROVE  Follows(w, w, 0)
<1> DEFINE S == [cmd : 0..255, rep : 0..255, bytes : Seq(0..255), failed : BOOLEAN, reply : Seq(0..255)]
<1>1. DOMAIN w = BlockFields /\ w.entries \in Seq(S)
  BY EntriesAre
<1>2. \A e \in S : DOMAIN e = EntryFields
  BY DEF EntryFields
<1> HIDE DEF S
<1>3. \A k \in 1..Len(w.entries) : w.entries[k] \in S
  BY <1>1
<1> QED
  BY <1>1, <1>2, <1>3, OwnRange DEF Follows

(* One entry is rewritten: its length and that of its reply stay. *)
LEMMA Rewritten ==
    ASSUME NEW w \in Written, NEW b, NEW i, Follows(b, w, i), NEW j \in 1..Len(w.entries), i \in {0, j},
           \A m \in 1..Len(w.entries) : Oversized(w.entries[m]) => j <= m,
           NEW e, DOMAIN e = EntryFields, e.cmd = b.entries[j].cmd, e.rep = b.entries[j].rep,
           NEW k \in {0, j}, k = 0 => e.bytes = w.entries[j].bytes
    PROVE  LET r == [b EXCEPT !.entries[j] = e] IN Follows(r, w, k) /\ r.entries[j] = e
<1> DEFINE r == [b EXCEPT !.entries[j] = e]
           old == b.entries
           new == [old EXCEPT ![j] = e]
<1>1. old \in Seq(ToSet(old)) /\ Len(old) = Len(w.entries) /\ DOMAIN b = BlockFields
  BY DEF Follows
<1>2. /\ DOMAIN old = 1..Len(w.entries) /\ Len(w.entries) \in Nat
  BY <1>1
<1>3. DOMAIN r = BlockFields /\ r.entries = new
  BY <1>1 DEF BlockFields
<1>4. new \in Seq(ToSet(new)) /\ Len(new) = Len(old)
  <2>1. old \in [1..Len(old) -> ToSet(old) \cup {e}]
    BY <1>1 DEF ToSet
  <2>2. new \in [1..Len(old) -> ToSet(old) \cup {e}]
    BY <2>1
  <2>3. new \in Seq(ToSet(old) \cup {e}) /\ Len(new) = Len(old)
    BY <1>1, <2>2, SeqDef
  <2> QED
    BY <2>3, OwnRange
<1>5. new[j] = e /\ \A l \in 1..Len(w.entries) : l # j => new[l] = old[l]
  BY <1>2
<1> HIDE DEF new, old, r
<1>6. ASSUME NEW l \in 1..Len(w.entries)
      PROVE  /\ DOMAIN new[l] = EntryFields
             /\ new[l].cmd = w.entries[l].cmd /\ new[l].rep = w.entries[l].rep
             /\ l # k => new[l].bytes = w.entries[l].bytes
             /\ \A m \in 1..Len(w.entries) : m < l /\ Oversized(w.entries[m]) => new[l] = w.entries[l]
  <2>1. /\ DOMAIN old[l] = EntryFields
        /\ old[l].cmd = w.entries[l].cmd /\ old[l].rep = w.entries[l].rep
        /\ l # i => old[l].bytes = w.entries[l].bytes
        /\ \A m \in 1..Len(w.entries) : m < l /\ Oversized(w.entries[m]) => old[l] = w.entries[l]
    BY DEF Follows, old
  <2>2. CASE l = j
    <3>1. \A m \in 1..Len(w.entries) : ~(m < l /\ Oversized(w.entries[m]))
      BY <1>2, <2>2
    <3> QED
      BY <1>5, <2>1, <2>2, <3>1 DEF old
  <2>3. CASE l # j
    <3>1. l # i
      BY <1>2, <2>3
    <3> QED
      BY <1>5, <2>1, <2>3, <3>1
  <2> QED
    BY <2>2, <2>3
<1>7. Follows(r, w, k)
  BY <1>1, <1>3, <1>4, <1>6 DEF Follows
<1> QED
  BY <1>3, <1>5, <1>7 DEF r

LEMMA AdvancedIs ==
    ASSUME NEW l, DOMAIN l = WalkFields, l.i \in Nat \ {0}, NEW e
    PROVE  LET n == Advanced(l, e)
           IN  /\ DOMAIN n = WalkFields /\ n.at = "walk" /\ n.i = l.i + 1 /\ n.i \in Nat \ {0}
               /\ n.pass = l.pass /\ n.req = l.req
BY DEF Advanced, WalkFields

(* A walk goes on past an entry that is not too long. *)
LEMMA WalksOn ==
    ASSUME NEW w \in Written, NEW b, Follows(b, w, 0),
           NEW l, DOMAIN l = WalkFields, l.i \in Nat \ {0}, NotBehind(w, l),
           l.i \in 1..Len(w.entries), ~Oversized(w.entries[l.i]), NEW e
    PROVE  Walked(b, w, Advanced(l, e))
<1> DEFINE n == Advanced(l, e)
<1>1. n.at = "walk" /\ n.i = l.i + 1
  BY AdvancedIs
<1> HIDE DEF n
<1>2. ASSUME NEW m \in 1..Len(w.entries), Oversized(w.entries[m]) PROVE n.i <= m
  <2>1. l.i <= m /\ l.i # m
    BY <1>2 DEF NotBehind
  <2> QED
    BY <1>1, <2>1
<1>3. Walked(b, w, n)
  BY <1>1, <1>2 DEF Walked, NotBehind
<1> QED
  BY <1>3 DEF n

--------------------------------------------------------------------------------
(* The walk of a block *)

OneWriter == \A c, d \in ChannelClients : c = d

LEMMA OnlyWriter ==
    ASSUME OneWriter, NEW c \in ChannelClients, Places', FlightHasSender',
           InChannel(c)', InRead(c)', InAnswer(c)'
    PROVE  ChannelInv'
<1>1. \A d \in ChannelClients : d = c
  BY DEF OneWriter
<1> QED
  BY <1>1 DEF ChannelInv

(* The copy of the block that c walks is b now, and the other as it was. *)
Becomes(c, b) ==
    /\ DOMAIN channel' = DOMAIN channel /\ DOMAIN buf' = DOMAIN buf
    /\ IF cl[c].pass = 0 THEN channel'.block = b ELSE channel' = channel /\ buf'[c] = b

(* Client c is at l now, where it may have been before. *)
Moves(c, l) == cl' = [cl EXCEPT ![c] = l] \/ (cl' = cl /\ l = cl[c])

(* The walk of c runs on: its block is b now, and its place l. *)
Runs(c, b, l) ==
    /\ Moves(c, l) /\ result' = result
    /\ DOMAIN l = WalkFields /\ l.pass = cl[c].pass /\ l.i \in Nat \ {0} /\ l.req = cl[c].req
    /\ l.at \in {"walk", "reset", "send", "wait", "over"}
    /\ Becomes(c, b)

LEMMA RunKeeps ==
    ASSUME ChannelInv, OneWriter, NEW c \in ChannelClients, cl[c].at # "idle", FlightHasSender',
           NEW b, NEW l, Runs(c, b, l),
           \A w \in Written : Walked(Block(c), w, cl[c]) => Walked(b, w, l)
    PROVE  ChannelInv'
<1>0. c \in Clients
  BY ChannelConstants
<1>1. /\ DOMAIN cl = Clients /\ DOMAIN buf = Clients /\ DOMAIN channel = {"block", "swap"}
      /\ cl[c].pass \in {0, 1} /\ cl[c].req.op = "none"
  BY <1>0 DEF ChannelInv, Places
<1>2. cl'[c] = l /\ l.pass = cl[c].pass /\ l.at # "idle" /\ \A d \in Clients \ {c} : cl'[d] = cl[d]
  BY <1>0, <1>1 DEF Runs, Moves
<1>3. Places'
  <2>1. /\ DOMAIN cl' = Clients /\ DOMAIN buf' = Clients /\ DOMAIN result' = Clients
        /\ DOMAIN channel' = {"block", "swap"}
    <3>1. DOMAIN cl' = Clients
      BY <1>1 DEF Runs, Moves
    <3> QED
      BY <1>1, <3>1 DEF Runs, Becomes, ChannelInv, Places
  <2>2. /\ DOMAIN cl'[c] = WalkFields /\ cl'[c].pass \in {0, 1} /\ cl'[c].i \in Nat \ {0}
        /\ cl'[c].at \in {"idle", "walk", "reset", "send", "wait", "over"} /\ cl'[c].req.op = "none"
    BY <1>1, <1>2 DEF Runs
  <2> QED
    BY <1>0, <1>2, <2>1, <2>2 DEF ChannelInv, Places
<1>4. InAnswer(c)'
  BY DEF ChannelInv, InAnswer, Runs
<1>5. CASE cl[c].pass = 0
  <2>1. channel'.block = b /\ Block(c) = channel.block
    BY <1>1, <1>5 DEF Runs, Becomes, Block
  <2>2. PICK w \in Written : Walked(channel.block, w, cl[c])
    BY <1>5 DEF ChannelInv, InChannel
  <2>3. Walked(b, w, l)
    BY <2>1, <2>2
  <2>4. InChannel(c)' /\ InRead(c)'
    BY <1>2, <1>5, <2>1, <2>3 DEF InChannel, InRead
  <2> QED
    BY <1>3, <1>4, <2>4, OnlyWriter
<1>6. CASE cl[c].pass = 1
  <2>1. buf'[c] = b /\ Block(c) = buf[c] /\ channel' = channel
    BY <1>0, <1>1, <1>6 DEF Runs, Becomes, Block
  <2>2. PICK w \in Written : Walked(buf[c], w, cl[c])
    BY <1>6 DEF ChannelInv, InRead
  <2>3. Walked(b, w, l)
    BY <2>1, <2>2
  <2>4. InRead(c)'
    BY <1>2, <1>6, <2>1, <2>3 DEF InRead
  <2>5. InChannel(c)'
    BY <1>2, <1>6, <2>1 DEF ChannelInv, InChannel
  <2> QED
    BY <1>3, <1>4, <2>4, <2>5, OnlyWriter
<1> QED
  BY <1>1, <1>5, <1>6

LEMMA SetIs ==
    ASSUME ChannelInv, NEW c \in ChannelClients, NEW e, SetEntry(c, e)
    PROVE  Becomes(c, [Block(c) EXCEPT !.entries[cl[c].i] = e])
<1>1. /\ c \in Clients /\ DOMAIN buf = Clients /\ DOMAIN channel = {"block", "swap"}
      /\ cl[c].pass \in {0, 1}
  BY ChannelConstants DEF ChannelInv, Places
<1>2. CASE cl[c].pass = 0
  BY <1>1, <1>2 DEF SetEntry, Becomes, Block
<1>3. CASE cl[c].pass = 1
  BY <1>1, <1>3 DEF SetEntry, Becomes, Block
<1> QED
  BY <1>1, <1>2, <1>3

LEMMA LeftIs ==
    ASSUME ChannelInv, NEW c \in ChannelClients, UNCHANGED <<channel, buf>>
    PROVE  Becomes(c, Block(c))
BY ChannelConstants DEF Block, Becomes, ChannelInv, Places

(* A step that leaves the transfers where they are. *)
LEMMA FlightStays ==
    ASSUME FlightHasSender, UNCHANGED <<slot, flight>>
    PROVE  FlightHasSender'
BY DEF FlightHasSender, Delivers

LEMMA CoreTakesFlight ==
    ASSUME slot' = "IN_FLIGHT", flight'.by = CoreOwn, ~Delivers(flight')
    PROVE  FlightHasSender'
BY ChannelConstants DEF FlightHasSender, CoreOwn, Delivers

LEMMA ClientIs ==
    ASSUME ChannelInv, NEW c \in Clients
    PROVE  /\ DOMAIN cl = Clients /\ DOMAIN cl[c] = WalkFields /\ cl[c].pass \in {0, 1}
           /\ cl[c].i \in Nat \ {0}
           /\ c \in ChannelClients => cl[c].req.op = "none"
           /\ c \notin ChannelClients /\ cl[c].at # "idle" => cl[c].req.op # "none"
BY DEF ChannelInv, Places

LEMMA EntryIs ==
    ASSUME ChannelInv, NEW c \in ChannelClients, AtEntry(c), NEW w \in Written, Walked(Block(c), w, cl[c])
    PROVE  /\ cl[c].i \in 1..Len(w.entries) /\ NotBehind(w, cl[c]) /\ Follows(Block(c), w, 0)
           /\ DOMAIN Entry(c) = EntryFields
           /\ Entry(c).cmd = w.entries[cl[c].i].cmd /\ Entry(c).rep = w.entries[cl[c].i].rep
           /\ Entry(c).bytes = w.entries[cl[c].i].bytes
           /\ Oversized(Entry(c)) <=> Oversized(w.entries[cl[c].i])
<1>1. cl[c].at = "walk" /\ cl[c].i <= Len(Block(c).entries) /\ cl[c].i \in Nat \ {0}
  BY ClientIs, ChannelConstants DEF AtEntry
<1>2. Follows(Block(c), w, 0) /\ NotBehind(w, cl[c])
  BY <1>1 DEF Walked
<1>3. Len(w.entries) \in Nat /\ Len(Block(c).entries) = Len(w.entries)
  BY <1>2, EntriesAre DEF Follows
<1>4. cl[c].i \in 1..Len(w.entries) /\ cl[c].i # 0
  BY <1>1, <1>3
<1>5. /\ DOMAIN Entry(c) = EntryFields
      /\ Entry(c).cmd = w.entries[cl[c].i].cmd /\ Entry(c).rep = w.entries[cl[c].i].rep
      /\ Entry(c).bytes = w.entries[cl[c].i].bytes
  BY <1>2, <1>4 DEF Follows, Entry
<1> QED
  BY <1>2, <1>4, <1>5 DEF Oversized

(* An entry is passed, as it is or with another answer in it. *)
LEMMA PassKeeps ==
    ASSUME ChannelInv, OneWriter, NEW c \in ChannelClients, AtEntry(c), ~Oversized(Entry(c)), FlightHasSender',
           NEW f, cl' = [cl EXCEPT ![c] = Advanced(@, f)], result' = result,
           NEW e, UNCHANGED <<channel, buf>> \/ SetEntry(c, e),
           DOMAIN e = EntryFields, e.cmd = Entry(c).cmd, e.rep = Entry(c).rep, e.bytes = Entry(c).bytes
    PROVE  ChannelInv'
<1> DEFINE l == Advanced(cl[c], f)
<1>0. c \in Clients /\ cl[c].at = "walk"
  BY ChannelConstants DEF AtEntry
<1>1. /\ DOMAIN cl[c] = WalkFields /\ cl[c].i \in Nat \ {0}
      /\ cl' = [cl EXCEPT ![c] = l] /\ DOMAIN l = WalkFields /\ l.pass = cl[c].pass
      /\ l.i \in Nat \ {0} /\ l.req = cl[c].req /\ l.at = "walk"
  BY <1>0, ClientIs, AdvancedIs
<1>4. Moves(c, l)
  BY <1>1 DEF Moves
<1> HIDE DEF l
<1>2. CASE UNCHANGED <<channel, buf>>
  <2>1. Runs(c, Block(c), l)
    BY <1>1, <1>2, <1>4, LeftIs DEF Runs
  <2>2. ASSUME NEW w \in Written, Walked(Block(c), w, cl[c]) PROVE Walked(Block(c), w, l)
    BY <1>1, <2>2, EntryIs, WalksOn DEF l
  <2> QED
    BY <1>0, <2>1, <2>2, RunKeeps
<1>3. CASE SetEntry(c, e)
  <2> DEFINE b == [Block(c) EXCEPT !.entries[cl[c].i] = e]
  <2>1. Runs(c, b, l)
    BY <1>1, <1>3, <1>4, SetIs DEF Runs
  <2>2. ASSUME NEW w \in Written, Walked(Block(c), w, cl[c]) PROVE Walked(b, w, l)
    <3>1. /\ cl[c].i \in 1..Len(w.entries) /\ NotBehind(w, cl[c]) /\ Follows(Block(c), w, 0)
          /\ ~Oversized(w.entries[cl[c].i])
          /\ e.cmd = Block(c).entries[cl[c].i].cmd /\ e.rep = Block(c).entries[cl[c].i].rep
          /\ e.bytes = w.entries[cl[c].i].bytes
      BY <2>2, EntryIs DEF Entry
    <3>2. \A m \in 1..Len(w.entries) : Oversized(w.entries[m]) => cl[c].i <= m
      BY <3>1 DEF NotBehind
    <3>3. Follows(b, w, 0)
      BY <3>1, <3>2, Rewritten
    <3> HIDE DEF b
    <3> QED
      BY <1>1, <3>1, <3>3, WalksOn DEF l
  <2> HIDE DEF b
  <2> QED
    BY <1>0, <2>1, <2>2, RunKeeps
<1> QED
  BY <1>2, <1>3
(* The walk stops, perhaps with a mark. *)
LEMMA StopKeeps ==
    ASSUME ChannelInv, OneWriter, NEW c \in ChannelClients, cl[c].at = "walk", FlightHasSender',
           Stop(c), result' = result, NEW b, Becomes(c, b),
           \A w \in Written : Walked(Block(c), w, cl[c]) => Follows(b, w, 0)
    PROVE  ChannelInv'
<1> DEFINE l == [cl[c] EXCEPT !.at = "over"]
<1>0. c \in Clients
  BY ChannelConstants
<1>1. /\ cl' = [cl EXCEPT ![c] = l] /\ DOMAIN l = WalkFields /\ l.pass = cl[c].pass
      /\ l.i \in Nat \ {0} /\ l.req = cl[c].req /\ l.at = "over"
  BY <1>0, ClientIs DEF Stop, WalkFields
<1> HIDE DEF l
<1>2. Moves(c, l)
  BY <1>1 DEF Moves
<1>4. Runs(c, b, l)
  BY <1>1, <1>2 DEF Runs
<1>3. ASSUME NEW w \in Written, Walked(Block(c), w, cl[c]) PROVE Walked(b, w, l)
  BY <1>1, <1>3 DEF Walked
<1> QED
  BY <1>3, <1>4, RunKeeps

LEMMA WalkEndsKeeps ==
    ASSUME ChannelInv, OneWriter, NEW c \in ChannelClients, WalkEnds(c)
    PROVE  ChannelInv'
<1>1. /\ cl[c].at = "walk" /\ Stop(c) /\ c \in Clients
      /\ UNCHANGED <<channel, buf, result, slot, flight, Done>>
  BY ChannelConstants DEF WalkEnds, slotVars
<1>2. FlightHasSender'
  BY <1>1, FlightStays DEF ChannelInv, Stop, Places
<1>3. \A w \in Written : Walked(Block(c), w, cl[c]) => Follows(Block(c), w, 0)
  BY <1>1 DEF Walked
<1> QED
  BY <1>1, <1>2, <1>3, LeftIs, StopKeeps

(* Where a walk is there is a block, and an entry of five fields. *)
LEMMA EntryFieldsAre ==
    ASSUME ChannelInv, NEW c \in ChannelClients, AtEntry(c)
    PROVE  DOMAIN Entry(c) = EntryFields
<1>1. cl[c].at = "walk" /\ cl[c].pass \in {0, 1}
  BY ClientIs, ChannelConstants DEF AtEntry
<1>2. PICK w \in Written : Walked(Block(c), w, cl[c])
  BY <1>1 DEF ChannelInv, InChannel, InRead, Block
<1> QED
  BY <1>2, EntryIs

LEMMA WalkPaddingKeeps ==
    ASSUME ChannelInv, OneWriter, NEW c \in ChannelClients, WalkPadding(c)
    PROVE  ChannelInv'
<1>1. /\ AtEntry(c) /\ cl[c].at = "walk" /\ c \in Clients
      /\ cl' = [cl EXCEPT ![c] = Advanced(@, Entry(c))]
      /\ UNCHANGED <<channel, buf, result, slot, flight, Done>>
  BY ChannelConstants DEF WalkPadding, AtEntry, slotVars
<1>2. FlightHasSender'
  BY <1>1, FlightStays DEF ChannelInv, Places
<1>3. ~Oversized(Entry(c))
  BY DEF WalkPadding, Oversized
<1>4. DOMAIN Entry(c) = EntryFields
  BY <1>1, EntryFieldsAre
<1> QED
  BY <1>1, <1>2, <1>3, <1>4, PassKeeps

LEMMA WalkStructuralKeeps ==
    ASSUME ChannelInv, OneWriter, NEW c \in ChannelClients, WalkStructural(c)
    PROVE  ChannelInv'
<1>1. /\ AtEntry(c) /\ cl[c].at = "walk" /\ c \in Clients /\ Stop(c)
      /\ UNCHANGED <<result, slot, flight, Done>>
  BY ChannelConstants DEF WalkStructural, AtCommand, AtEntry, slotVars
<1>2. FlightHasSender'
  BY <1>1, FlightStays DEF ChannelInv, Stop, Places
<1>3. CASE UNCHANGED <<channel, buf>>
  <2>1. \A w \in Written : Walked(Block(c), w, cl[c]) => Follows(Block(c), w, 0)
    BY <1>1 DEF Walked
  <2> QED
    BY <1>1, <1>2, <1>3, <2>1, LeftIs, StopKeeps
<1>4. CASE cl[c].pass = 0 /\ channel' = [channel EXCEPT !.block.go = 129] /\ buf' = buf
  <2> DEFINE b == [channel.block EXCEPT !.go = 129]
  <2>1. Block(c) = channel.block /\ Becomes(c, b)
    BY <1>4 DEF Block, Becomes, ChannelInv, Places
  <2>2. ASSUME NEW w \in Written, Walked(Block(c), w, cl[c]) PROVE Follows(b, w, 0)
    <3>1. Follows(channel.block, w, 0)
      BY <1>1, <2>1, <2>2 DEF Walked
    <3>2. DOMAIN b = BlockFields /\ b.entries = channel.block.entries
      BY <3>1 DEF Follows, BlockFields
    <3> HIDE DEF b
    <3> QED
      BY <3>1, <3>2 DEF Follows
  <2> HIDE DEF b
  <2> QED
    BY <1>1, <1>2, <2>1, <2>2, StopKeeps
<1>5. CASE SetEntry(c, Marked(Entry(c)))
  <2> DEFINE e == Marked(Entry(c))
             b == [Block(c) EXCEPT !.entries[cl[c].i] = e]
  <2>1. Becomes(c, b)
    BY <1>5, SetIs
  <2>2. /\ DOMAIN e = EntryFields /\ e.cmd = Entry(c).cmd /\ e.rep = Entry(c).rep
        /\ e.bytes = Entry(c).bytes
    BY <1>1, EntryFieldsAre DEF Marked, EntryFields
  <2> HIDE DEF e
  <2>3. ASSUME NEW w \in Written, Walked(Block(c), w, cl[c]) PROVE Follows(b, w, 0)
    <3>1. /\ cl[c].i \in 1..Len(w.entries) /\ NotBehind(w, cl[c]) /\ Follows(Block(c), w, 0)
          /\ e.cmd = Block(c).entries[cl[c].i].cmd /\ e.rep = Block(c).entries[cl[c].i].rep
          /\ e.bytes = w.entries[cl[c].i].bytes
      BY <1>1, <2>2, <2>3, EntryIs DEF Entry
    <3>2. \A m \in 1..Len(w.entries) : Oversized(w.entries[m]) => cl[c].i <= m
      BY <3>1 DEF NotBehind
    <3> QED
      BY <2>2, <3>1, <3>2, Rewritten
  <2> HIDE DEF b
  <2> QED
    BY <1>1, <1>2, <2>1, <2>3, StopKeeps
<1> QED
  BY <1>3, <1>4, <1>5 DEF WalkStructural

LEMMA WalkLocalKeeps ==
    ASSUME ChannelInv, OneWriter, NEW c \in ChannelClients, WalkLocal(c)
    PROVE  ChannelInv'
<1> DEFINE e == Entry(c)
<1>1. /\ AtEntry(c) /\ cl[c].at = "walk" /\ c \in Clients
      /\ cl' = [cl EXCEPT ![c] = Advanced(@, e)] /\ result' = result
  BY ChannelConstants DEF WalkLocal, AtCommand, AtEntry
<1>2. ~Oversized(e)
  BY DEF WalkLocal, Structural, Oversized
<1>3. DOMAIN e = EntryFields
  BY <1>1, EntryFieldsAre
<1>4. FlightHasSender'
  <2>1. \A d \in Clients \ {c} : cl'[d] = cl[d]
    BY <1>1 DEF ChannelInv, Places
  <2>2. CASE UNCHANGED slotVars
    BY <1>1, <2>1, <2>2, FlightStays DEF ChannelInv, slotVars
  <2>3. ASSUME SetDeviceEnable(e.bytes[4] = 1), UNCHANGED <<Done, LastOk>> PROVE FlightHasSender'
    <3>1. CASE slot = "FREE"
      <4>1. slot' = "IN_FLIGHT" /\ flight'.by = CoreOwn /\ ~Delivers(flight')
        BY <2>3, <3>1 DEF SetDeviceEnable, PutOnBus, NoFlight, Delivers
      <4> QED
        BY <4>1, CoreTakesFlight
    <3>2. CASE slot # "FREE"
      <4>1. UNCHANGED <<slot, flight>>
        BY <2>3, <3>2 DEF SetDeviceEnable
      <4> QED
        BY <1>1, <2>1, <4>1, FlightStays DEF ChannelInv
    <3> QED
      BY <3>1, <3>2
  <2> QED
    BY <2>2, <2>3 DEF WalkLocal
<1>5. PICK f : /\ UNCHANGED <<channel, buf>> \/ SetEntry(c, f)
               /\ DOMAIN f = EntryFields /\ f.cmd = e.cmd /\ f.rep = e.rep /\ f.bytes = e.bytes
  <2> HIDE DEF e
  <2>1. DOMAIN Marked(e) = EntryFields /\ Marked(e).cmd = e.cmd /\ Marked(e).rep = e.rep /\ Marked(e).bytes = e.bytes
    BY <1>3 DEF Marked, EntryFields
  <2>2. \A r : LET f == [e EXCEPT !.reply = r]
               IN  DOMAIN f = EntryFields /\ f.cmd = e.cmd /\ f.rep = e.rep /\ f.bytes = e.bytes
    BY <1>3 DEF EntryFields
  <2>3. \A r : LET f == [[e EXCEPT !.failed = FALSE] EXCEPT !.reply = r]
               IN  DOMAIN f = EntryFields /\ f.cmd = e.cmd /\ f.rep = e.rep /\ f.bytes = e.bytes
    BY <1>3 DEF EntryFields
  <2>4. \/ UNCHANGED <<channel, buf>> \/ SetEntry(c, Marked(e))
        \/ \E r : SetEntry(c, [e EXCEPT !.reply = r])
        \/ \E r : SetEntry(c, [[e EXCEPT !.failed = FALSE] EXCEPT !.reply = r])
    BY DEF WalkLocal, e
  <2> QED
    BY <1>3, <2>1, <2>2, <2>3, <2>4
<1> HIDE DEF e
<1>6. UNCHANGED <<channel, buf>> \/ SetEntry(c, f)
  BY <1>5
<1> QED
  BY <1>1, <1>2, <1>4, <1>5, PassKeeps DEF e

--------------------------------------------------------------------------------
(* Commands on the wire *)

(* An entry a transfer is out for: its last command byte may be the status. *)
LEMMA LentIs ==
    ASSUME ChannelInv, NEW c \in ChannelClients, cl[c].at \in {"reset", "send", "wait"},
           NEW w \in Written, Walked(Block(c), w, cl[c])
    PROVE  /\ cl[c].i \in 1..Len(w.entries) /\ NotBehind(w, cl[c]) /\ ~Oversized(w.entries[cl[c].i])
           /\ Follows(Block(c), w, cl[c].i)
           /\ DOMAIN Entry(c) = EntryFields
           /\ Entry(c).cmd = w.entries[cl[c].i].cmd /\ Entry(c).rep = w.entries[cl[c].i].rep
           /\ [Entry(c).bytes EXCEPT ![Entry(c).cmd] = cl[c].saved] = w.entries[cl[c].i].bytes
BY DEF Walked, Follows, Entry

LEMMA ExecClaimKeeps ==
    ASSUME ChannelInv, OneWriter, NEW c \in ChannelClients, ExecClaim(c)
    PROVE  ChannelInv'
<1> DEFINE e == [Entry(c) EXCEPT !.failed = FALSE]
           b == [Block(c) EXCEPT !.entries[cl[c].i] = e]
           l == [cl[c] EXCEPT !.at = "reset", !.half = 1, !.saved = e.bytes[e.cmd]]
<1>1. /\ AtEntry(c) /\ cl[c].at = "walk" /\ c \in Clients
      /\ SetEntry(c, e) /\ UNCHANGED <<result, flight>>
  BY ChannelConstants DEF ExecClaim, OnTheWire, AtCommand, AtEntry
<1>2. ~Oversized(Entry(c))
  BY DEF ExecClaim, OnTheWire, Structural, Oversized
<1>3. DOMAIN cl = Clients /\ DOMAIN cl[c] = WalkFields /\ cl[c].i \in Nat \ {0}
  BY <1>1, ClientIs
<1>4. DOMAIN e = EntryFields /\ e.cmd = Entry(c).cmd /\ e.rep = Entry(c).rep /\ e.bytes = Entry(c).bytes
  BY <1>1, EntryFieldsAre DEF EntryFields
<1>5. CASE slot = "FREE"
  <2>1. slot' = "CLAIMED" /\ cl' = [cl EXCEPT ![c] = l]
    BY <1>5 DEF ExecClaim
  <2>2. /\ DOMAIN l = WalkFields /\ l.at = "reset" /\ l.i = cl[c].i /\ l.pass = cl[c].pass
        /\ l.req = cl[c].req /\ l.saved = e.bytes[e.cmd]
    BY <1>3 DEF WalkFields
  <2> HIDE DEF e, l
  <2>3. FlightHasSender'
    BY <1>1, <1>5, <2>1 DEF ChannelInv, FlightHasSender, Delivers
  <2>4. Runs(c, b, l)
    <3>1. Moves(c, l)
      BY <2>1 DEF Moves
    <3> QED
      BY <1>1, <1>3, <2>2, <3>1, SetIs DEF Runs
  <2>5. ASSUME NEW w \in Written, Walked(Block(c), w, cl[c]) PROVE Walked(b, w, l)
    <3>1. /\ cl[c].i \in 1..Len(w.entries) /\ NotBehind(w, cl[c]) /\ Follows(Block(c), w, 0)
          /\ e.cmd = Block(c).entries[cl[c].i].cmd /\ e.rep = Block(c).entries[cl[c].i].rep
          /\ e.bytes = w.entries[cl[c].i].bytes /\ ~Oversized(w.entries[cl[c].i])
      BY <1>1, <1>2, <1>4, <2>5, EntryIs DEF Entry
    <3>2. \A m \in 1..Len(w.entries) : Oversized(w.entries[m]) => cl[c].i <= m
      BY <3>1 DEF NotBehind
    <3>3. Follows(b, w, cl[c].i) /\ b.entries[cl[c].i] = e
      BY <1>4, <3>1, <3>2, Rewritten
    <3>4. [e.bytes EXCEPT ![e.cmd] = e.bytes[e.cmd]] = e.bytes
      <4>1. e.bytes \in Seq(0..255)
        <5> DEFINE S == [cmd : 0..255, rep : 0..255, bytes : Seq(0..255), failed : BOOLEAN, reply : Seq(0..255)]
        <5>1. w.entries \in Seq(S)
          BY EntriesAre
        <5>2. \A r \in S : r.bytes \in Seq(0..255)
          OBVIOUS
        <5> HIDE DEF S
        <5>3. w.entries[cl[c].i] \in S
          BY <3>1, <5>1
        <5> QED
          BY <3>1, <5>2, <5>3
      <4> HIDE DEF b
      <4> QED
        BY <4>1, SetAgain
    <3> HIDE DEF b
    <3>5. NotBehind(w, l) /\ l.i \in 1..Len(w.entries)
      BY <2>2, <3>1 DEF NotBehind
    <3> QED
      BY <2>2, <3>1, <3>3, <3>4, <3>5 DEF Walked
  <2> HIDE DEF b
  <2> QED
    BY <1>1, <2>3, <2>4, <2>5, RunKeeps
<1>6. CASE slot # "FREE"
  <2>1. cl' = [cl EXCEPT ![c] = Advanced(@, e)] /\ slot' = slot
    BY <1>6 DEF ExecClaim
  <2> HIDE DEF e
  <2>2. FlightHasSender'
    BY <1>1, <2>1, FlightStays DEF ChannelInv
  <2> QED
    BY <1>1, <1>2, <1>4, <2>1, <2>2, PassKeeps
<1> QED
  BY <1>5, <1>6

(* A transfer is sent or not, and the second half is begun: the block stays as it is. *)
LEMMA WaitKeeps ==
    ASSUME ChannelInv, OneWriter, NEW c \in ChannelClients, cl[c].at \in {"reset", "send", "wait"}, FlightHasSender',
           NEW at \in {"reset", "send", "wait"}, NEW half, cl' = [cl EXCEPT ![c].at = at, ![c].half = half],
           UNCHANGED <<channel, buf, result>>
    PROVE  ChannelInv'
<1> DEFINE l == [cl[c] EXCEPT !.at = at, !.half = half]
<1>0. c \in Clients /\ DOMAIN cl = Clients /\ DOMAIN cl[c] = WalkFields /\ cl[c].i \in Nat \ {0}
  BY ClientIs, ChannelConstants
<1>1. cl' = [cl EXCEPT ![c] = l]
  BY <1>0
<1>2. /\ DOMAIN l = WalkFields /\ l.at = at /\ l.i = cl[c].i /\ l.pass = cl[c].pass
      /\ l.req = cl[c].req /\ l.saved = cl[c].saved
  BY <1>0 DEF WalkFields
<1> HIDE DEF l
<1>3. Runs(c, Block(c), l)
  <2>1. Moves(c, l)
    BY <1>1 DEF Moves
  <2> QED
    BY <1>0, <1>2, <2>1, LeftIs DEF Runs
<1>4. ASSUME NEW w \in Written, Walked(Block(c), w, cl[c]) PROVE Walked(Block(c), w, l)
  BY <1>2, <1>4 DEF Walked, NotBehind
<1> QED
  BY <1>3, <1>4, RunKeeps

(* The event is reset before the transfer is sent. *)
LEMMA CmdResetKeeps ==
    ASSUME ChannelInv, OneWriter, NEW c \in ChannelClients, EventReset(c)
    PROVE  ChannelInv'
<1>1. /\ cl[c].at = "reset" /\ cl' = [cl EXCEPT ![c].at = "send"]
      /\ UNCHANGED <<channel, buf, result, slot, flight>>
  BY DEF EventReset
<1>2. FlightHasSender'
  BY <1>1, FlightStays DEF ChannelInv
<1>3. cl' = [cl EXCEPT ![c].at = "send", ![c].half = cl[c].half]
  <2>1. [cl[c] EXCEPT !.at = "send"] = [cl[c] EXCEPT !.at = "send", !.half = cl[c].half]
    OBVIOUS
  <2> QED
    BY <1>1, <2>1
<1> QED
  BY <1>1, <1>2, <1>3, WaitKeeps

LEMMA CmdXferKeeps ==
    ASSUME ChannelInv, OneWriter, NEW c \in ChannelClients, CmdXfer(c)
    PROVE  ChannelInv'
<1>1. /\ c \in Clients /\ cl[c].at = "send"
      /\ cl' = [cl EXCEPT ![c].at = "wait"] /\ UNCHANGED <<channel, buf, result>>
  BY ChannelConstants DEF CmdXfer
<1>2. FlightHasSender'
  <2>1. CASE slot' = "IN_FLIGHT" /\ flight'.by = c
    BY <1>1, <2>1 DEF FlightHasSender
  <2>2. CASE flight' = flight /\ (slot' = slot \/ slot = "CLAIMED")
    BY <2>2 DEF ChannelInv, FlightHasSender, Delivers
  <2> QED
    BY <2>1, <2>2 DEF CmdXfer, PutOnBus
<1>3. cl' = [cl EXCEPT ![c].at = "wait", ![c].half = cl[c].half]
  <2>1. [cl[c] EXCEPT !.at = "wait"] = [cl[c] EXCEPT !.at = "wait", !.half = cl[c].half]
    OBVIOUS
  <2> QED
    BY <1>1, <2>1
<1> QED
  BY <1>1, <1>2, <1>3, WaitKeeps

LEMMA CmdKeepKeeps ==
    ASSUME ChannelInv, OneWriter, NEW c \in ChannelClients, CmdKeep(c)
    PROVE  ChannelInv'
<1>1. /\ c \in Clients /\ cl[c].at = "wait"
      /\ cl' = [cl EXCEPT ![c].at = "reset", ![c].half = 2]
      /\ UNCHANGED <<channel, buf, result, flight>>
      /\ slot' = slot \/ slot = "FREE"
  BY ChannelConstants DEF CmdKeep
<1>2. FlightHasSender'
  BY <1>1 DEF ChannelInv, FlightHasSender, Delivers
<1> QED
  BY <1>1, <1>2, WaitKeeps

LEMMA ExecFinishKeeps ==
    ASSUME ChannelInv, OneWriter, NEW c \in ChannelClients, ExecFinish(c)
    PROVE  ChannelInv'
<1> DEFINE e == Entry(c)
           l == Advanced(cl[c], e)
<1>1. /\ c \in Clients /\ cl[c].at = "wait"
      /\ cl' = [cl EXCEPT ![c] = l] /\ UNCHANGED <<result, slot, flight>>
  BY ChannelConstants DEF ExecFinish, slotVars
<1>2. /\ DOMAIN cl = Clients /\ DOMAIN cl[c] = WalkFields /\ cl[c].i \in Nat \ {0}
      /\ DOMAIN l = WalkFields /\ l.pass = cl[c].pass
      /\ l.i \in Nat \ {0} /\ l.req = cl[c].req /\ l.at = "walk"
  BY <1>1, ClientIs, AdvancedIs
<1> HIDE DEF l
<1>3. FlightHasSender'
  BY <1>1, FlightStays DEF ChannelInv
<1>4. PICK r, bad : SetEntry(c, [e EXCEPT !.bytes[e.cmd] = cl[c].saved, !.reply = r, !.failed = bad])
  BY DEF ExecFinish
<1> DEFINE f == [e EXCEPT !.bytes[e.cmd] = cl[c].saved, !.reply = r, !.failed = bad]
           b == [Block(c) EXCEPT !.entries[cl[c].i] = f]
<1>5. Runs(c, b, l)
  <2>1. Moves(c, l)
    BY <1>1 DEF Moves
  <2> QED
    BY <1>1, <1>2, <1>4, <2>1, SetIs DEF Runs
<1>6. ASSUME NEW w \in Written, Walked(Block(c), w, cl[c]) PROVE Walked(b, w, l)
  <2>1. /\ cl[c].i \in 1..Len(w.entries) /\ NotBehind(w, cl[c]) /\ ~Oversized(w.entries[cl[c].i])
        /\ Follows(Block(c), w, cl[c].i) /\ DOMAIN e = EntryFields
        /\ [e.bytes EXCEPT ![e.cmd] = cl[c].saved] = w.entries[cl[c].i].bytes
    BY <1>1, <1>6, LentIs
  <2>2. /\ e.cmd = Block(c).entries[cl[c].i].cmd /\ e.rep = Block(c).entries[cl[c].i].rep
    BY DEF Entry
  <2> HIDE DEF e
  <2>3. DOMAIN f = EntryFields /\ f.cmd = e.cmd /\ f.rep = e.rep /\ f.bytes = w.entries[cl[c].i].bytes
    BY <2>1 DEF EntryFields
  <2> HIDE DEF f
  <2>4. \A m \in 1..Len(w.entries) : Oversized(w.entries[m]) => cl[c].i <= m
    BY <2>1 DEF NotBehind
  <2>5. Follows(b, w, 0)
    BY <2>1, <2>2, <2>3, <2>4, Rewritten
  <2> HIDE DEF b
  <2> QED
    BY <1>2, <2>1, <2>5, WalksOn DEF l
<1> HIDE DEF b
<1> QED
  BY <1>1, <1>3, <1>5, <1>6, RunKeeps
--------------------------------------------------------------------------------
(* The calls *)

LEMMA PlacesStay ==
    ASSUME ChannelInv, NEW c \in Clients, DOMAIN cl' = Clients, \A d \in Clients \ {c} : cl'[d] = cl[d],
           DOMAIN cl'[c] = WalkFields, cl'[c].pass \in {0, 1}, cl'[c].i \in Nat \ {0},
           c \in ChannelClients =>
              cl'[c].at \in {"idle", "walk", "reset", "send", "wait", "over"} /\ cl'[c].req.op = "none",
           c \notin ChannelClients => cl'[c].at \in {"idle", "sync", "reset", "send", "wait"},
           c \notin ChannelClients /\ cl'[c].at # "idle" => cl'[c].req.op # "none",
           DOMAIN buf' = Clients, DOMAIN result' = Clients, DOMAIN channel' = {"block", "swap"}
    PROVE  Places'
BY DEF ChannelInv, Places

LEMMA SwappedFollows ==
    ASSUME NEW b, NEW w, Follows(b, w, 0)
    PROVE  Follows(Swapped(b), w, 0)
<1>1. DOMAIN Swapped(b) = BlockFields /\ Swapped(b).entries = b.entries
  BY DEF Swapped, Follows, BlockFields
<1> QED
  BY <1>1 DEF Follows

LEMMA AwayIs == DOMAIN Away = WalkFields /\ Away.at = "idle" /\ Away.pass = 0 /\ Away.i = 1 /\ Away.req.op = "none"
BY DEF Away, WalkFields

(* A walk begins at the first entry. *)
LEMMA BeginsAt ==
    ASSUME NEW w \in Written, NEW b, Follows(b, w, 0), NEW l, l.at \in {"walk", "over"}, l.i = 1
    PROVE  Walked(b, w, l)
<1>1. NotBehind(w, l)
  BY DEF NotBehind
<1> QED
  BY <1>1 DEF Walked

(* Nobody is lent a byte of a block that no transfer is out for. *)
LEMMA RestingFollows ==
    ASSUME ChannelInv, NEW c \in ChannelClients, cl[c].at \in {"idle", "over"}
    PROVE  \E w \in Written : Follows(channel.block, w, 0)
<1>1. InChannel(c)
  BY DEF ChannelInv
<1> QED
  BY <1>1, AwayIs DEF InChannel, Walked

LEMMA CmdWriteKeeps ==
    ASSUME ChannelInv, OneWriter, NEW c \in ChannelClients, CmdWrite(c)
    PROVE  ChannelInv'
<1>1. /\ c \in Clients /\ cl[c].at = "idle" /\ UNCHANGED <<buf, slot, flight, Done>>
      /\ DOMAIN cl = Clients /\ DOMAIN buf = Clients /\ DOMAIN result = Clients
      /\ DOMAIN cl[c] = WalkFields /\ cl[c].pass \in {0, 1} /\ cl[c].i \in Nat \ {0} /\ cl[c].req.op = "none"
  BY ChannelConstants DEF CmdWrite, May, ChannelInv, Places, slotVars
<1> DEFINE Asks(w) == w.first = 1 /\ w.go = 0
           Stored(w) == IF Asks(w) THEN Swapped(w) ELSE w
<1>2. PICK b \in Blocks :
         /\ channel' = [block |-> Stored(b), swap |-> Asks(b)]
         /\ \/ cl' = [cl EXCEPT ![c] = [Away EXCEPT !.at = "walk"]] /\ Answer(c, NoAnswer)
            \/ Answer(c, Finished(c, "SUCCESS")) /\ UNCHANGED cl
  BY Zenon DEF CmdWrite
<1> DEFINE stored == Stored(b)
<1>3. b \in Written /\ Follows(stored, b, 0)
  BY WrittenFollows, SwappedFollows DEF Written
<1>4. DOMAIN channel' = {"block", "swap"} /\ channel'.block = stored
  BY <1>2
<1> HIDE DEF stored
<1>5. CASE cl' = [cl EXCEPT ![c] = [Away EXCEPT !.at = "walk"]] /\ Answer(c, NoAnswer)
  <2> DEFINE l == [Away EXCEPT !.at = "walk"]
  <2>1. DOMAIN l = WalkFields /\ l.at = "walk" /\ l.pass = 0 /\ l.i = 1 /\ l.req.op = "none"
    BY DEF Away, WalkFields
  <2>2. cl' = [cl EXCEPT ![c] = l]
    BY <1>5
  <2> HIDE DEF l
  <2>3. DOMAIN result' = Clients /\ result'[c].op = "none"
    BY <1>1, <1>5 DEF Answer, NoAnswer
  <2>4. cl'[c] = l /\ DOMAIN cl' = Clients /\ \A d \in Clients \ {c} : cl'[d] = cl[d]
    BY <1>1, <2>2
  <2>7. Places'
    BY <1>1, <1>4, <2>1, <2>3, <2>4, PlacesStay
  <2>5. FlightHasSender'
    BY <1>1, <2>4, FlightStays DEF ChannelInv
  <2>6. Walked(stored, b, l)
    BY <1>3, <2>1, BeginsAt
  <2> QED
    BY <1>3, <1>4, <2>1, <2>3, <2>4, <2>5, <2>6, <2>7, OnlyWriter DEF InChannel, InRead, InAnswer
<1>6. CASE Answer(c, Finished(c, "SUCCESS")) /\ UNCHANGED cl
  <2>1. DOMAIN result' = Clients /\ result'[c].op = "block"
    BY <1>1, <1>6 DEF Answer, Finished
  <2>2. Places'
    BY <1>1, <1>4, <1>6, <2>1 DEF ChannelInv, Places
  <2>3. FlightHasSender'
    BY <1>1, <1>6 DEF ChannelInv, FlightHasSender, Delivers
  <2>4. Walked(stored, b, cl[c]) /\ Walked(stored, b, Away)
    BY <1>1, <1>3, AwayIs DEF Walked
  <2> QED
    BY <1>1, <1>3, <1>4, <1>6, <2>1, <2>2, <2>3, <2>4, OnlyWriter DEF InChannel, InRead, InAnswer
<1> QED
  BY <1>2, <1>5, <1>6

LEMMA CmdReadKeeps ==
    ASSUME ChannelInv, OneWriter, NEW c \in ChannelClients, CmdRead(c)
    PROVE  ChannelInv'
<1> DEFINE l == [Away EXCEPT !.at = IF channel.block.go = 1 THEN "walk" ELSE "over", !.pass = 1]
<1>1. /\ c \in Clients /\ cl[c].at = "idle" /\ UNCHANGED <<channel, slot, flight, Done>>
      /\ cl' = [cl EXCEPT ![c] = l] /\ buf' = [buf EXCEPT ![c] = channel.block] /\ Answer(c, NoAnswer)
  BY ChannelConstants DEF CmdRead, May, slotVars
<1>2. /\ DOMAIN cl = Clients /\ DOMAIN buf = Clients /\ DOMAIN result = Clients
      /\ DOMAIN channel = {"block", "swap"}
  BY DEF ChannelInv, Places
<1>3. DOMAIN l = WalkFields /\ l.at \in {"walk", "over"} /\ l.pass = 1 /\ l.i = 1 /\ l.req.op = "none"
  BY DEF Away, WalkFields
<1> HIDE DEF l
<1>4. DOMAIN buf' = Clients /\ buf'[c] = channel.block /\ DOMAIN result' = Clients /\ result'[c].op = "none"
  BY <1>1, <1>2 DEF Answer, NoAnswer
<1>5. cl'[c] = l /\ DOMAIN cl' = Clients /\ \A d \in Clients \ {c} : cl'[d] = cl[d]
  BY <1>1, <1>2
<1>9. Places'
  BY <1>1, <1>2, <1>3, <1>4, <1>5, PlacesStay
<1>6. FlightHasSender'
  BY <1>1, <1>5, FlightStays DEF ChannelInv
<1>7. PICK w \in Written : Follows(channel.block, w, 0)
  BY <1>1, RestingFollows
<1>8. Walked(channel.block, w, l) /\ Walked(channel.block, w, Away)
  BY <1>3, <1>7, BeginsAt, AwayIs DEF Walked
<1> QED
  BY <1>1, <1>3, <1>4, <1>5, <1>6, <1>8, <1>9, OnlyWriter DEF InChannel, InRead, InAnswer

LEMMA CmdOtherLengthKeeps ==
    ASSUME ChannelInv, OneWriter, NEW c \in ChannelClients, CmdOtherLength(c)
    PROVE  ChannelInv'
<1>1. UNCHANGED <<channel, cl, buf, slot, flight, Done>> /\ \E st : Answer(c, Finished(c, st))
  BY DEF CmdOtherLength, slotVars
<1>2. c \in Clients /\ DOMAIN result = Clients
  BY ChannelConstants DEF ChannelInv, Places
<1>3. DOMAIN result' = Clients /\ result'[c].op = "block"
  BY <1>1, <1>2 DEF Answer, Finished
<1>4. Places' /\ FlightHasSender'
  BY <1>1, <1>3 DEF ChannelInv, Places, FlightHasSender, Delivers
<1> QED
  BY <1>1, <1>3, <1>4, OnlyWriter DEF ChannelInv, InChannel, InRead, InAnswer

LEMMA CallOverKeeps ==
    ASSUME ChannelInv, OneWriter, NEW c \in ChannelClients, CallOver(c)
    PROVE  ChannelInv'
<1> DEFINE ran == [buf[c] EXCEPT !.go = IF @ = 1 THEN 0 ELSE @]
           out == IF cl[c].pass = 0 THEN EmptyBlock ELSE IF channel.swap THEN Swapped(ran) ELSE ran
<1>1. /\ c \in Clients /\ cl[c].at = "over" /\ UNCHANGED <<channel, slot, flight, Done>>
      /\ cl' = [cl EXCEPT ![c] = Away] /\ buf' = [buf EXCEPT ![c] = EmptyBlock]
      /\ Answer(c, [op |-> IF cl[c].pass = 0 THEN "block" ELSE "read", st |-> "SUCCESS", block |-> out])
  BY ChannelConstants DEF CallOver, slotVars
<1>2. /\ DOMAIN cl = Clients /\ DOMAIN buf = Clients /\ DOMAIN result = Clients
      /\ DOMAIN channel = {"block", "swap"} /\ cl[c].pass \in {0, 1}
  BY <1>1 DEF ChannelInv, Places
<1>3. cl[c].pass = 1 => \E w \in Written : Follows(out, w, 0)
  <2>1. SUFFICES ASSUME cl[c].pass = 1 PROVE \E w \in Written : Follows(out, w, 0)
    OBVIOUS
  <2>2. PICK w \in Written : Follows(buf[c], w, 0)
    BY <1>1, <2>1 DEF ChannelInv, InRead, Walked
  <2>3. DOMAIN ran = BlockFields /\ ran.entries = buf[c].entries
    BY <2>2 DEF Follows, BlockFields
  <2>4. out \in {ran, Swapped(ran)}
    BY <2>1
  <2> HIDE DEF ran, out
  <2>5. Follows(ran, w, 0)
    BY <2>2, <2>3 DEF Follows
  <2> QED
    BY <2>4, <2>5, SwappedFollows
<1> HIDE DEF out
<1>4. /\ DOMAIN buf' = Clients /\ DOMAIN result' = Clients
      /\ result'[c].op = "read" => cl[c].pass = 1 /\ result'[c].block = out
  BY <1>1, <1>2 DEF Answer
<1>5. cl'[c] = Away /\ DOMAIN cl' = Clients /\ \A d \in Clients \ {c} : cl'[d] = cl[d]
  BY <1>1, <1>2
<1>10. Places'
  BY <1>1, <1>2, <1>4, <1>5, AwayIs, PlacesStay
<1>6. FlightHasSender'
  BY <1>1, <1>5, FlightStays DEF ChannelInv
<1>7. PICK w \in Written : Follows(channel.block, w, 0)
  BY <1>1, RestingFollows
<1>8. InChannel(c)' /\ InRead(c)'
  BY <1>1, <1>5, <1>7, AwayIs DEF InChannel, InRead, Walked
<1>9. InAnswer(c)'
  BY <1>3, <1>4 DEF InAnswer
<1> QED
  BY <1>6, <1>8, <1>9, <1>10, OnlyWriter
--------------------------------------------------------------------------------
(* The other clients, the bus and the world *)

(* A step that leaves the channel and its client alone. *)
LEMMA AsideKeeps ==
    ASSUME ChannelInv, Places', FlightHasSender', UNCHANGED <<channel, buf>>,
           \A d \in ChannelClients : cl'[d] = cl[d] /\ result'[d] = result[d]
    PROVE  ChannelInv'
BY DEF ChannelInv, InChannel, InRead, InAnswer

(* A device request takes a step of its transaction, or returns. *)
LEMMA TransactionKeeps ==
    ASSUME ChannelInv, NEW c \in Clients, c \notin ChannelClients, FlightHasSender',
           UNCHANGED <<channel, buf>>,
           DOMAIN cl' = Clients, \A d \in Clients \ {c} : cl'[d] = cl[d],
           DOMAIN cl'[c] = WalkFields, cl'[c].pass \in {0, 1}, cl'[c].i \in Nat \ {0},
           cl'[c].at \in {"idle", "sync", "reset", "send", "wait"}, cl'[c].at # "idle" => cl'[c].req.op # "none",
           DOMAIN result' = Clients, \A d \in Clients \ {c} : result'[d] = result[d]
    PROVE  ChannelInv'
<1>1. DOMAIN buf = Clients /\ DOMAIN channel = {"block", "swap"}
  BY DEF ChannelInv, Places
<1>2. Places'
  BY <1>1, PlacesStay
<1>3. \A d \in ChannelClients : d \in Clients \ {c}
  BY ChannelConstants
<1> QED
  BY <1>2, <1>3, AsideKeeps

(* A client goes to another place. *)
LEMMA MovesTo ==
    ASSUME ChannelInv, NEW c \in Clients, NEW l
    PROVE  LET n == [cl EXCEPT ![c] = l]
           IN  DOMAIN n = Clients /\ n[c] = l /\ \A d \in Clients \ {c} : n[d] = cl[d]
BY DEF ChannelInv, Places

LEMMA PakRequestKeeps ==
    ASSUME ChannelInv, NEW c \in Clients, PakRequest(c)
    PROVE  ChannelInv'
<1>1. /\ cl[c].at = "idle" /\ c \notin ChannelClients /\ UNCHANGED <<channel, buf, flight>>
      /\ DOMAIN cl = Clients /\ DOMAIN result' = Clients /\ \A d \in Clients \ {c} : result'[d] = result[d]
  BY DEF PakRequest, PakAnswer, Answer, ChannelInv, Places
<1>2. CASE UNCHANGED <<slot, cl>>
  <2>1. FlightHasSender'
    BY <1>1, <1>2 DEF ChannelInv, FlightHasSender, Delivers
  <2> QED
    BY <1>1, <1>2, <2>1, TransactionKeeps DEF ChannelInv, Places
<1>3. ASSUME NEW req \in Requests, slot = "FREE", slot' = "CLAIMED",
             cl' = [cl EXCEPT ![c] = [Away EXCEPT !.at = "sync", !.req = req]]
      PROVE  ChannelInv'
  <2> DEFINE l == [Away EXCEPT !.at = "sync", !.req = req]
  <2>1. req.op # "none"
    BY ChannelConstants
  <2>2. DOMAIN l = WalkFields /\ l.at = "sync" /\ l.pass = 0 /\ l.i = 1 /\ l.req = req
    BY DEF Away, WalkFields
  <2>3. cl' = [cl EXCEPT ![c] = l]
    BY <1>3
  <2> HIDE DEF l
  <2>4. FlightHasSender'
    BY <1>1, <1>3 DEF ChannelInv, FlightHasSender, Delivers
  <2> QED
    <3>1. DOMAIN cl' = Clients /\ cl'[c] = l /\ \A d \in Clients \ {c} : cl'[d] = cl[d]
      BY <2>3, MovesTo
    <3> QED
      BY <1>1, <2>1, <2>2, <2>4, <3>1, TransactionKeeps
<1> QED
  BY <1>2, <1>3 DEF PakRequest

(* A transaction of a client that has nothing out returns. *)
LEMMA ReturnKeeps ==
    ASSUME ChannelInv, NEW c \in Clients, c \notin ChannelClients, FlightHasSender',
           UNCHANGED <<channel, buf>>, NEW data, N64Return(c, data)
    PROVE  ChannelInv'
<1>1. /\ cl' = [cl EXCEPT ![c] = Away] /\ DOMAIN result' = Clients
      /\ \A d \in Clients \ {c} : result'[d] = result[d]
  BY DEF N64Return, PakAnswer, Answer, ChannelInv, Places
<1>2. DOMAIN cl' = Clients /\ cl'[c] = Away /\ \A d \in Clients \ {c} : cl'[d] = cl[d]
  BY <1>1, MovesTo
<1> QED
  BY <1>1, <1>2, AwayIs, TransactionKeeps

LEMMA SyncClaimKeeps ==
    ASSUME ChannelInv, NEW c \in Clients, SyncClaim(c)
    PROVE  ChannelInv'
<1>1. /\ cl[c].at = "sync" /\ c \notin ChannelClients /\ UNCHANGED <<channel, buf, flight>>
      /\ DOMAIN cl = Clients /\ DOMAIN cl[c] = WalkFields /\ cl[c].pass \in {0, 1} /\ cl[c].i \in Nat \ {0}
      /\ cl[c].req.op # "none"
  BY DEF SyncClaim, ChannelInv, Places
<1>2. CASE slot = "FREE"
  <2> DEFINE l == [cl[c] EXCEPT !.at = "reset"]
  <2>1. slot' = "CLAIMED" /\ cl' = [cl EXCEPT ![c] = l] /\ result' = result
    BY <1>2 DEF SyncClaim
  <2>2. /\ DOMAIN l = WalkFields /\ l.at = "reset" /\ l.pass = cl[c].pass /\ l.i = cl[c].i
        /\ l.req = cl[c].req
    BY <1>1 DEF WalkFields
  <2> HIDE DEF l
  <2>3. FlightHasSender'
    BY <1>1, <1>2, <2>1 DEF ChannelInv, FlightHasSender, Delivers
  <2> QED
    BY <1>1, <2>1, <2>2, <2>3, MovesTo, TransactionKeeps DEF ChannelInv, Places
<1>3. CASE slot # "FREE"
  <2>1. N64Return(c, <<>>) /\ slot' = slot
    BY <1>3 DEF SyncClaim
  <2>2. FlightHasSender'
    BY <1>1, <2>1, FlightStays DEF ChannelInv, N64Return
  <2> QED
    BY <1>1, <2>1, <2>2, ReturnKeeps
<1> QED
  BY <1>2, <1>3

LEMMA SyncResetKeeps ==
    ASSUME ChannelInv, NEW c \in Clients, c \notin ChannelClients, EventReset(c)
    PROVE  ChannelInv'
<1> DEFINE l == [cl[c] EXCEPT !.at = "send"]
<1>1. /\ cl[c].at = "reset" /\ cl' = [cl EXCEPT ![c] = l] /\ UNCHANGED <<channel, buf, result, slot, flight>>
      /\ DOMAIN cl = Clients /\ DOMAIN cl[c] = WalkFields /\ cl[c].pass \in {0, 1} /\ cl[c].i \in Nat \ {0}
      /\ cl[c].req.op # "none"
  BY DEF EventReset, ChannelInv, Places
<1>2. /\ DOMAIN l = WalkFields /\ l.at = "send" /\ l.pass = cl[c].pass /\ l.i = cl[c].i
      /\ l.req = cl[c].req
  BY <1>1 DEF WalkFields
<1> HIDE DEF l
<1>3. FlightHasSender'
  BY <1>1, FlightStays DEF ChannelInv
<1> QED
  BY <1>1, <1>2, <1>3, MovesTo, TransactionKeeps DEF ChannelInv, Places

LEMMA SyncSendKeeps ==
    ASSUME ChannelInv, NEW c \in Clients, SyncSend(c)
    PROVE  ChannelInv'
<1>1. /\ cl[c].at = "send" /\ c \notin ChannelClients /\ UNCHANGED <<channel, buf>>
      /\ DOMAIN cl = Clients /\ DOMAIN cl[c] = WalkFields /\ cl[c].pass \in {0, 1} /\ cl[c].i \in Nat \ {0}
      /\ cl[c].req.op # "none"
  BY DEF SyncSend, ChannelInv, Places
<1>2. CASE /\ slot' = "IN_FLIGHT" /\ flight'.by = c /\ cl' = [cl EXCEPT ![c].at = "wait"]
           /\ result' = result
  <2> DEFINE l == [cl[c] EXCEPT !.at = "wait"]
  <2>1. cl' = [cl EXCEPT ![c] = l]
    BY <1>2
  <2>2. /\ DOMAIN l = WalkFields /\ l.at = "wait" /\ l.pass = cl[c].pass /\ l.i = cl[c].i
        /\ l.req = cl[c].req
    BY <1>1 DEF WalkFields
  <2> HIDE DEF l
  <2>3. FlightHasSender'
    BY <1>2 DEF FlightHasSender
  <2> QED
    BY <1>1, <1>2, <2>1, <2>2, <2>3, MovesTo, TransactionKeeps DEF ChannelInv, Places
<1>3. CASE N64Return(c, <<>>) /\ flight' = flight /\ slot' = IF slot = "CLAIMED" THEN "FREE" ELSE slot
  <2>1. FlightHasSender'
    BY <1>3 DEF ChannelInv, FlightHasSender, Delivers
  <2> QED
    BY <1>1, <1>3, <2>1, ReturnKeeps
<1> QED
  BY <1>2, <1>3 DEF SyncSend, PutOnBus

LEMMA SyncDoneKeeps ==
    ASSUME ChannelInv, NEW c \in Clients, SyncDone(c)
    PROVE  ChannelInv'
<1>1. /\ cl[c].at = "wait" /\ c \notin ChannelClients /\ UNCHANGED <<channel, buf, slot, flight>>
      /\ DOMAIN cl = Clients /\ DOMAIN cl[c] = WalkFields /\ cl[c].pass \in {0, 1} /\ cl[c].i \in Nat \ {0}
      /\ cl[c].req.op # "none"
  BY DEF SyncDone, ChannelInv, Places, slotVars
<1>2. CASE cl' = [cl EXCEPT ![c].at = "sync", ![c].half = 2] /\ result' = result
  <2> DEFINE l == [cl[c] EXCEPT !.at = "sync", !.half = 2]
  <2>1. cl' = [cl EXCEPT ![c] = l]
    BY <1>1, <1>2
  <2>2. /\ DOMAIN l = WalkFields /\ l.at = "sync" /\ l.pass = cl[c].pass /\ l.i = cl[c].i
        /\ l.req = cl[c].req
    BY <1>1 DEF WalkFields
  <2> HIDE DEF l
  <2>3. FlightHasSender'
    BY <1>1, FlightStays DEF ChannelInv
  <2> QED
    BY <1>1, <1>2, <2>1, <2>2, <2>3, MovesTo, TransactionKeeps DEF ChannelInv, Places
<1>3. ASSUME NEW data, N64Return(c, data) PROVE ChannelInv'
  <2>1. FlightHasSender'
    BY <1>1, FlightStays DEF ChannelInv
  <2> QED
    BY <1>1, <1>3, <2>1, ReturnKeeps
<1> QED
  BY <1>2, <1>3 DEF SyncDone

(* A completion gives the slot to the core or to nobody. *)
LEMMA BusFreesSender ==
    ASSUME ChannelInv, BusCompletes
    PROVE  FlightHasSender'
<1>1. flight'.by \in {Nobody, CoreOwn} /\ ~Delivers(flight')
  <2>1. PICK ok : PassOn(ok)
    BY DEF BusCompletes
  <2>2. \/ \E what \in {"kick", "idle"} : flight' = [NoFlight EXCEPT !.by = CoreOwn, !.what = what]
        \/ flight' = NoFlight
    BY <2>1 DEF PassOn, PutOnBus
  <2>3. ASSUME NEW what \in {"kick", "idle"}, flight' = [NoFlight EXCEPT !.by = CoreOwn, !.what = what]
        PROVE  flight'.by = CoreOwn /\ ~Delivers(flight')
    BY <2>3 DEF NoFlight, Delivers
  <2>4. ASSUME flight' = NoFlight PROVE flight'.by = Nobody /\ ~Delivers(flight')
    BY <2>4 DEF NoFlight, Delivers
  <2> QED
    BY <2>2, <2>3, <2>4
<1> QED
  BY <1>1, ChannelConstants DEF FlightHasSender, Nobody, CoreOwn

LEMMA BusCompletesKeeps ==
    ASSUME ChannelInv, OneWriter, BusCompletes
    PROVE  ChannelInv'
<1>1. FlightHasSender' /\ UNCHANGED <<cl, result>>
  BY BusFreesSender DEF BusCompletes
<1>2. CASE UNCHANGED <<channel, buf>>
  <2>1. Places'
    BY <1>1, <1>2 DEF ChannelInv, Places
  <2> QED
    BY <1>1, <1>2, <2>1, AsideKeeps
<1>3. ASSUME NEW stage, Delivers(flight), Land(flight.by, stage) PROVE ChannelInv'
  <2> DEFINE c == flight.by
  <2>0. c \in Clients
    BY <1>3 DEF ChannelInv, FlightHasSender
  <2>2. CASE cl[c].at # "wait" \/ cl[c].req.op # "none"
    BY <1>2, <1>3, <2>2 DEF Land
  <2>3. CASE cl[c].at = "wait" /\ cl[c].req.op = "none"
    <3>0. c \in Clients /\ cl[c].at = "wait"
      BY <2>0, <2>3
    <3> DEFINE e == Entry(c)
               f == [e EXCEPT !.bytes[e.cmd] = Head(stage), !.reply = Tail(stage)]
               b == [Block(c) EXCEPT !.entries[cl[c].i] = f]
    <3>1. c \in ChannelClients
      BY <3>0, <2>3, ClientIs
    <3>2. SetEntry(c, f)
      BY <1>3, <2>3 DEF Land
    <3> HIDE DEF c
    <3>3. /\ DOMAIN cl = Clients /\ DOMAIN cl[c] = WalkFields /\ cl[c].pass \in {0, 1}
          /\ cl[c].i \in Nat \ {0}
      BY <1>1, <2>0 DEF ChannelInv, Places
    <3>4. Runs(c, b, cl[c])
      BY <1>1, <3>0, <3>1, <3>2, <3>3, SetIs DEF Runs, Moves
    <3>5. ASSUME NEW w \in Written, Walked(Block(c), w, cl[c]) PROVE Walked(b, w, cl[c])
      <4>1. /\ cl[c].i \in 1..Len(w.entries) /\ NotBehind(w, cl[c]) /\ ~Oversized(w.entries[cl[c].i])
            /\ Follows(Block(c), w, cl[c].i) /\ DOMAIN e = EntryFields
            /\ [e.bytes EXCEPT ![e.cmd] = cl[c].saved] = w.entries[cl[c].i].bytes
        BY <3>0, <3>1, <3>5, LentIs
      <4>2. e.cmd = Block(c).entries[cl[c].i].cmd /\ e.rep = Block(c).entries[cl[c].i].rep
        BY DEF Entry
      <4> HIDE DEF e
      <4>3. /\ DOMAIN f = EntryFields /\ f.cmd = e.cmd /\ f.rep = e.rep
            /\ f.bytes = [e.bytes EXCEPT ![e.cmd] = Head(stage)]
        BY <4>1 DEF EntryFields
      <4> HIDE DEF f
      <4>4. [f.bytes EXCEPT ![f.cmd] = cl[c].saved] = w.entries[cl[c].i].bytes
        BY <4>1, <4>3
      <4>5. \A m \in 1..Len(w.entries) : Oversized(w.entries[m]) => cl[c].i <= m
        BY <4>1 DEF NotBehind
      <4>6. Follows(b, w, cl[c].i) /\ b.entries[cl[c].i] = f
        <5> DEFINE j == cl[c].i
        <5>1. j \in 1..Len(w.entries) /\ j # 0 /\ j \in {0, j} /\ (j = 0 => f.bytes = w.entries[j].bytes)
          BY <3>3, <4>1
        <5>2. f.cmd = Block(c).entries[j].cmd /\ f.rep = Block(c).entries[j].rep
          BY <4>2, <4>3
        <5>3. Follows(Block(c), w, j) /\ DOMAIN f = EntryFields /\ b = [Block(c) EXCEPT !.entries[j] = f]
          BY <4>1, <4>3
        <5> HIDE DEF j, b
        <5>4. \A m \in 1..Len(w.entries) : Oversized(w.entries[m]) => j <= m
          BY <4>5 DEF j
        <5>5. Follows(b, w, j) /\ b.entries[j] = f
          BY <5>1, <5>2, <5>3, <5>4, Rewritten
        <5> QED
          BY <5>5 DEF j
      <4> HIDE DEF b
      <4> QED
        BY <3>0, <4>1, <4>4, <4>6 DEF Walked
    <3> HIDE DEF b
    <3> QED
      BY <1>1, <3>0, <3>1, <3>4, <3>5, RunKeeps
  <2> QED
    BY <2>2, <2>3
<1> QED
  BY <1>2, <1>3 DEF BusCompletes

LEMMA WorldKeeps ==
    ASSUME ChannelInv,
           CoreSends \/ EventSet \/ Packet \/ AccessoryChanges \/ InterfaceChanges \/ UNCHANGED channelVars
    PROVE  ChannelInv'
<1>1. UNCHANGED <<channel, cl, buf, result>>
  BY DEF CoreSends, EventSet, Packet, AccessoryChanges, InterfaceChanges, channelVars
<1>2. Places'
  BY <1>1 DEF ChannelInv, Places
<1>3. CASE CoreSends
  <2>1. slot' = "IN_FLIGHT" /\ flight'.by = CoreOwn /\ ~Delivers(flight')
    BY <1>3 DEF CoreSends, PutOnBus, NoFlight, Delivers
  <2> QED
    BY <1>1, <1>2, <2>1, CoreTakesFlight, AsideKeeps
<1>4. CASE UNCHANGED <<slot, flight>>
  <2>1. FlightHasSender'
    BY <1>4, FlightStays DEF ChannelInv
  <2> QED
    BY <1>1, <1>2, <2>1, AsideKeeps
<1> QED
  BY <1>3, <1>4 DEF EventSet, Packet, AccessoryChanges, InterfaceChanges, channelVars, slotVars
--------------------------------------------------------------------------------
(* What the channel keeps *)

LEMMA ChannelInitHolds == ChannelInit => ChannelInv
<1> SUFFICES ASSUME ChannelInit PROVE ChannelInv
  OBVIOUS
<1>1. Places
  BY AwayIs DEF ChannelInit, Places, EmptyBlock
<1>2. FlightHasSender
  BY ChannelConstants DEF ChannelInit, FlightHasSender, NoFlight, Delivers, Nobody
<1>3. EmptyBlock \in Written /\ Follows(EmptyBlock, EmptyBlock, 0)
  BY WrittenFollows DEF Written
<1>4. ASSUME NEW c \in ChannelClients PROVE InChannel(c) /\ InRead(c) /\ InAnswer(c)
  <2>1. cl[c] = Away /\ channel.block = EmptyBlock /\ result[c].op = "none"
    BY ChannelConstants DEF ChannelInit, NoAnswer
  <2> QED
    BY <1>3, <2>1, AwayIs DEF InChannel, InRead, InAnswer, Walked
<1> QED
  BY <1>1, <1>2, <1>4 DEF ChannelInv

(* Only a client of the channel walks, and only it sends without a request. *)
LEMMA WalkKeeps ==
    ASSUME ChannelInv, OneWriter, NEW c \in Clients, Walk(c)
    PROVE  ChannelInv'
<1>1. c \in ChannelClients
  BY DEF Walk, WalkEnds, WalkPadding, WalkStructural, WalkLocal, CallOver, ExecClaim, CmdXfer, CmdKeep,
         ExecFinish, OnTheWire, AtCommand, AtEntry, ChannelInv, Places
<1> QED
  BY <1>1, WalkEndsKeeps, WalkPaddingKeeps, WalkStructuralKeeps, WalkLocalKeeps, CallOverKeeps,
     ExecClaimKeeps, CmdXferKeeps, CmdKeepKeeps, ExecFinishKeeps DEF Walk

LEMMA ChannelStepKeeps ==
    ASSUME ChannelInv, OneWriter, [ChannelNext]_channelVars
    PROVE  ChannelInv'
<1>1. ASSUME NEW c \in Clients, CmdWrite(c) \/ CmdRead(c) \/ CmdOtherLength(c) PROVE ChannelInv'
  <2>1. c \in ChannelClients
    BY <1>1 DEF CmdWrite, CmdRead, CmdOtherLength, May
  <2> QED
    BY <1>1, <2>1, CmdWriteKeeps, CmdReadKeeps, CmdOtherLengthKeeps
<1>2. ASSUME NEW c \in Clients, Transaction(c) PROVE ChannelInv'
  BY <1>2, SyncClaimKeeps, SyncSendKeeps, SyncDoneKeeps DEF Transaction
<1>3. ASSUME NEW c \in Clients, EventReset(c) PROVE ChannelInv'
  BY <1>3, CmdResetKeeps, SyncResetKeeps
<1> QED
  BY <1>1, <1>2, <1>3, WalkKeeps, PakRequestKeeps, BusCompletesKeeps, WorldKeeps DEF ChannelNext

(* Of stray data only the fact is noted, so that the invariant goes on; it means something until then. *)
LEMMA ChannelKeeps ==
    ASSUME OneWriter
    PROVE  ChannelSpec => []ChannelInv
<1>1. ChannelInv /\ [ChannelNext]_channelVars => ChannelInv'
  BY ChannelStepKeeps
<1> QED
  BY <1>1, ChannelInitHolds, PTL DEF ChannelSpec

(***************************************************************************)
(* With one client of the channel, and until data comes for a call that no *)
(* longer waits for it, the driver's copy, the copy of a read and what was *)
(* answered are each some block that was written, run: its commands as     *)
(* they were, but for a last byte that is lent to the status while the     *)
(* call is out, and nothing touched behind a command that is too long      *)
(* (core_cmd_process, core_cmd_exec) - whoever else's late event wakes it. *)
(***************************************************************************)
THEOREM ChannelInvariant ==
    ASSUME OneWriter
    PROVE  ChannelSpec => [](LandsWhereWaited => ChannelInv)
<1>1. ChannelInv => (LandsWhereWaited => ChannelInv)
  OBVIOUS
<1> QED
  BY <1>1, ChannelKeeps, PTL

(***************************************************************************)
(* The commands of a block come back as they were written, whatever the    *)
(* blocks, the packets, the replies, the claims of others and the events   *)
(* of theirs that wake a call early, for as long as no status lands on a   *)
(* byte that was put back already (core_cmd_exec; LandsWhereWaited).       *)
(***************************************************************************)
THEOREM CommandsComeBackHolds ==
    ASSUME OneWriter
    PROVE  ChannelSpec => []CommandsComeBack
<1>1. ASSUME ChannelInv, NEW c \in ChannelClients, result[c].op = "read", result[c].block.entries # <<>>
      PROVE  Original(result[c].block) # {}
  <2> DEFINE b == result[c].block
  <2>1. PICK w \in Written : Follows(b, w, 0)
    BY <1>1 DEF ChannelInv, InAnswer
  <2>2. /\ Len(b.entries) = Len(w.entries) /\ b.entries \in Seq(ToSet(b.entries))
        /\ DOMAIN w.entries = 1..Len(w.entries)
    BY <2>1, EntriesAre DEF Follows
  <2>3. w \in Blocks
    <3>1. ASSUME w = EmptyBlock PROVE FALSE
      <4>1. Len(b.entries) = 0
        BY <2>2, <3>1 DEF EmptyBlock
      <4> QED
        BY <1>1, <2>2, <4>1, EmptySeq
    <3> QED
      BY <3>1 DEF Written
  <2>4. \A i \in DOMAIN w.entries :
           w.entries[i].bytes = b.entries[i].bytes /\ w.entries[i].cmd = b.entries[i].cmd
    BY <2>1, <2>2 DEF Follows
  <2>5. w \in Original(b)
    BY <2>2, <2>3, <2>4 DEF Original
  <2> QED
    BY <2>5
<1>2. ChannelInv => CommandsComeBack
  BY <1>1 DEF CommandsComeBack
<1> QED
  BY <1>2, ChannelKeeps, PTL

(* The commands of a block tell which block it is. *)
CommandsTell ==
    \A v, w \in Blocks :
        /\ Len(v.entries) = Len(w.entries)
        /\ \A i \in DOMAIN v.entries :
              v.entries[i].bytes = w.entries[i].bytes /\ v.entries[i].cmd = w.entries[i].cmd
        => v.entries = w.entries

(***************************************************************************)
(* Nothing behind a structural error is answered, for every set of blocks  *)
(* whose commands tell which block was written: with two that differ in    *)
(* their replies only, "as it was written" would not say which; and until  *)
(* data comes for a call that no longer waits for it.                      *)
(***************************************************************************)
THEOREM NothingBehindStructuralHolds ==
    ASSUME OneWriter, CommandsTell
    PROVE  ChannelSpec => []NothingBehindStructural
<1>1. ASSUME ChannelInv, NEW c \in ChannelClients, result[c].op = "read",
             NEW v \in Original(result[c].block), NEW i \in DOMAIN v.entries, Oversized(v.entries[i]),
             NEW j \in i + 1..Len(v.entries)
      PROVE  result[c].block.entries[j] = v.entries[j]
  <2> DEFINE b == result[c].block
  <2>1. PICK w \in Written : Follows(b, w, 0)
    BY <1>1 DEF ChannelInv, InAnswer
  <2>2. /\ v \in Blocks /\ Len(v.entries) = Len(b.entries)
        /\ \A k \in DOMAIN v.entries :
              v.entries[k].bytes = b.entries[k].bytes /\ v.entries[k].cmd = b.entries[k].cmd
    BY DEF Original
  <2>3. v \in Written
    BY <2>2 DEF Written
  <2>4. /\ DOMAIN v.entries = 1..Len(v.entries) /\ Len(v.entries) \in Nat
        /\ DOMAIN w.entries = 1..Len(w.entries) /\ Len(w.entries) = Len(v.entries)
    BY <2>1, <2>2, <2>3, EntriesAre DEF Follows
  <2>5. w \in Blocks
    <3>1. ASSUME w = EmptyBlock PROVE FALSE
      <4>1. Len(v.entries) = 0
        BY <2>4, <3>1 DEF EmptyBlock
      <4> QED
        BY <2>4, <4>1
    <3> QED
      BY <3>1 DEF Written
  <2>6. v.entries = w.entries
    <3>1. \A k \in DOMAIN v.entries :
             v.entries[k].bytes = w.entries[k].bytes /\ v.entries[k].cmd = w.entries[k].cmd
      BY <2>1, <2>2, <2>4 DEF Follows
    <3> QED
      BY <2>2, <2>4, <2>5, <3>1 DEF CommandsTell
  <2>7. i \in 1..Len(w.entries) /\ j \in 1..Len(w.entries) /\ i < j /\ Oversized(w.entries[i])
    BY <1>1, <2>4, <2>6
  <2> QED
    BY <2>1, <2>6, <2>7 DEF Follows
<1>2. ChannelInv => NothingBehindStructural
  BY <1>1 DEF NothingBehindStructural, Oversized
<1> QED
  BY <1>2, ChannelKeeps, PTL
--------------------------------------------------------------------------------
(* Pak requests *)

Byte == 0..255

Devices == Clients \ ChannelClients

Memory ==
    /\ DOMAIN controller = {"status", "mem", "answer"} /\ DOMAIN controller.mem = Pages
    /\ \A p \in Pages : controller.mem[p] \in PakData

(* What the controller hears is a client's, and bytes if it could be a write. *)
Heard(f) ==
    /\ f.what = "out" => f.by \in Clients
    /\ f.by \in Clients /\ f.what \in {"short", "out"} /\ Len(f.bytes) = WriteLen => f.bytes \in Seq(Byte)

(* An entry whose first half is about to be sent has the bytes it was       *)
(* written with, in which no status has landed yet.                         *)
Unsent(c) ==
    cl[c].at \in {"reset", "send"} => (cl[c].half = 2 /\ Long(Entry(c))) \/ Entry(c).bytes \in Seq(Byte)

(* An answer that succeeds is true. *)
Tells(c, req, data) ==
    Verdict(req, data) = "SUCCESS" =>
        /\ req.op = "read" => SubSeq(data, 1, BlockBytes) \in held[c]
        /\ req.op = "write" /\ c \in echo.own => req.data \in held[c]

(* The echo that waits for a fetch agrees with a block only if the page took it. *)
Echoes(answer, data, h) ==
    \/ answer = <<>>
    \/ answer = <<Inverted(DataCrc8(data))>>
    \/ answer = <<DataCrc8(data)>> /\ data \in h

(* The echo of a write is fetched at the end of it, and once. *)
Unfetched(c) == cl[c].at # "wait" \/ cl[c].half = 1 \/ flight.by = c => c \notin echo.own

(* Nothing has been delivered to a request before its last transfer, or while that is out. *)
Undelivered(c) ==
    cl[c].at # "wait" \/ (cl[c].half = 1 /\ N64Long(cl[c].req)) \/ flight.by = c => N64Reply(c) = <<>>

(***************************************************************************)
(* The transfer of a device is out while its request waits for it; when an *)
(* early event has woken that, it may go on to claim its second half while *)
(* the first is out, or have returned, with nothing.                       *)
(***************************************************************************)
Outstanding(c) ==
    flight.by = c =>
        /\ cl[c].at \in {"idle", "sync", "wait"}
        /\ cl[c].at # "idle" =>
              /\ flight.what = IF cl[c].at = "sync" THEN "out" ELSE N64Form(c)
              /\ flight.bytes = Tx(cl[c].req) /\ flight.rep = RxLen(cl[c].req)
        /\ cl[c].at = "idle" /\ Delivers(flight) => result[c].op = "none" \/ result[c].data = <<>>

(* A request under way: what it would be told now is true. *)
Underway(c) ==
    /\ Unfetched(c) /\ Undelivered(c)
    /\ cl[c].req \in Requests /\ cl[c].half \in {1, 2} /\ result[c].op = "none"
    /\ Tells(c, cl[c].req, N64Reply(c))
    /\ cl[c].req.op = "write" /\ echo.of = c => Echoes(controller.answer, cl[c].req.data, held[c])

Answered(c) ==
    result[c].op # "none" =>
        /\ result[c].op = result[c].req.op /\ result[c].req \in Requests
        /\ result[c].st = Verdict(result[c].req, result[c].data)
        /\ Tells(c, result[c].req, result[c].data)

DeviceInv(c) == (cl[c].at # "idle" => Underway(c)) /\ Answered(c) /\ Outstanding(c)

PakInv ==
    /\ DOMAIN rx = Clients /\ DOMAIN held = Clients /\ DOMAIN echo = {"of", "own"}
    /\ Memory /\ Heard(flight)
    /\ \A c \in ChannelClients : Unsent(c)
    /\ \A c \in Devices : DeviceInv(c)
(* A function on 1..n is a sequence of n elements, and the other way round. *)
LEMMA SequenceIs ==
    ASSUME NEW S, NEW n \in Nat, NEW s
    PROVE  s \in [1..n -> S] <=> s \in Seq(S) /\ Len(s) = n
<1>1. ASSUME s \in [1..n -> S] PROVE s \in Seq(S) /\ Len(s) = n
  <2>1. s \in Seq(S)
    BY <1>1, SeqDef
  <2>2. DOMAIN s = 1..n /\ DOMAIN s = 1..Len(s) /\ Len(s) \in Nat
    BY <1>1, <2>1, LenProperties
  <2> QED
    BY <2>1, <2>2
<1>2. ASSUME s \in Seq(S), Len(s) = n PROVE s \in [1..n -> S]
  BY <1>2, LenProperties
<1> QED
  BY <1>1, <1>2

(* The same of the blocks of a Pak. *)
LEMMA BlockIs ==
    ASSUME NEW d, d \in Seq(Byte), Len(d) = BlockBytes
    PROVE  d \in PakData
<1>1. BlockBytes \in Nat
  BY ChannelConstants
<1>2. d \in [1..BlockBytes -> Byte]
  BY <1>1, SequenceIs, Zenon
<1> QED
  BY <1>2 DEF PakData, Byte

(* Reversing twice is reversing not at all. *)
LEMMA ReverseIs ==
    ASSUME NEW S, NEW s \in Seq(S)
    PROVE  Reverse(s) \in Seq(S) /\ Len(Reverse(s)) = Len(s) /\ Reverse(Reverse(s)) = s
<1> DEFINE n == Len(s)
           t == [i \in 1..n |-> s[n - i + 1]]
<1>1. n \in Nat /\ s \in [1..n -> S] /\ DOMAIN s = 1..n
  BY LenProperties
<1>2. Reverse(s) = t
  BY DEF Reverse
<1>3. \A i \in 1..n : n - i + 1 \in 1..n /\ n - (n - i + 1) + 1 = i
  BY <1>1
<1> HIDE DEF n
<1>4. t \in [1..n -> S]
  BY <1>1, <1>3
<1>5. t \in Seq(S) /\ Len(t) = n
  BY <1>1, <1>4, SequenceIs
<1>7. \A i \in 1..n : t[n - i + 1] = s[i]
  BY <1>3
<1> HIDE DEF t
<1>6. Reverse(t) = [i \in 1..n |-> t[n - i + 1]]
  BY <1>5 DEF Reverse
<1>8. Reverse(t) = s
  BY <1>1, <1>6, <1>7
<1> QED
  BY <1>2, <1>5, <1>8 DEF n, t

(* What the data stage of a reply of the length that was asked for says     *)
(* when it is put the right way round: that reply, intact or damaged.       *)
LEMMA StageIs ==
    ASSUME NEW f, NEW reply \in Seq(Byte), NEW corrupt \in BOOLEAN,
           f.rep \in Nat \ {0}, Len(reply) = f.rep
    PROVE  /\ DataStage(f, reply, corrupt)[1] = IF f.what = "fetch" THEN 128 + f.rep ELSE f.rep
           /\ Reverse(Tail(DataStage(f, reply, corrupt))) = IF corrupt THEN Damaged(reply) ELSE reply
<1> DEFINE n == f.rep
           r == IF corrupt THEN Damaged(reply) ELSE reply
           status == IF f.what = "fetch" THEN 128 + n ELSE n
           wire == Reverse(r)
           stage == <<status>> \o wire
<1>1. reply # <<>> /\ n \in Nat /\ n > 0
  BY EmptySeq
<1>2. r \in Seq(Byte) /\ Len(r) = n
  <2> DEFINE m == Len(reply)
  <2>0. m \in Nat /\ m = n /\ 1 \in 1..m
    BY <1>1
  <2>1. reply \in [1..m -> Byte]
    BY LenProperties
  <2> HIDE DEF m
  <2>2. (reply[1] + 64) % 256 \in Byte
    <3>1. reply[1] \in Byte
      BY <2>0, <2>1
    <3>2. \A x \in 0..255 : (x + 64) % 256 \in 0..255
      OBVIOUS
    <3> QED
      BY <3>1, <3>2 DEF Byte
  <2>3. Damaged(reply) \in [1..m -> Byte]
    BY <2>1, <2>2 DEF Damaged
  <2>4. Damaged(reply) \in Seq(Byte) /\ Len(Damaged(reply)) = m
    BY <2>0, <2>3, SequenceIs
  <2> QED
    BY <2>0, <2>4
<1> HIDE DEF r
<1>3. wire \in Seq(Byte) /\ Len(wire) = n /\ Reverse(wire) = r
  BY <1>2, ReverseIs
<1>4. DataStage(f, reply, corrupt) = stage
  <2>1. [i \in 1..n |-> IF i > Len(wire) THEN 0 ELSE wire[i]] = [i \in 1..n |-> wire[i]]
    BY <1>1, <1>3
  <2>2. wire = [i \in 1..n |-> wire[i]]
    BY <1>1, <1>3, SequenceIs
  <2> QED
    BY <1>1, <2>1, <2>2 DEF DataStage, r
<1>5. stage[1] = status /\ Tail(stage) = wire
  <2> HIDE DEF wire
  <2>1. status \in Nat
    BY <1>1
  <2> HIDE DEF status
  <2>2. <<status>> \in Seq(Nat) /\ wire \in Seq(Nat) /\ Len(<<status>>) = 1 /\ <<status>>[1] = status
    <3>1. Byte \subseteq Nat
      BY DEF Byte
    <3>2. wire \in Seq(Nat)
      BY <1>3, <3>1, SeqMonotonic
    <3> QED
      BY <2>1, <3>2
  <2>3. stage \in Seq(Nat) /\ Len(stage) = n + 1 /\ stage[1] = status
    BY <1>1, <1>3, <2>2, ConcatProperties
  <2>4. \A i \in 1..n : stage[i + 1] = wire[i]
    BY <1>1, <1>3, <2>2, ConcatProperties
  <2>5. stage # <<>>
    BY <1>1, <2>3, EmptySeq
  <2> HIDE DEF stage
  <2>6. Tail(stage) \in Seq(Nat) /\ Len(Tail(stage)) = n /\ \A i \in 1..n : Tail(stage)[i] = stage[i + 1]
    BY <1>1, <2>3, <2>5, HeadTailProperties
  <2> QED
    <3>1. \A i \in 1..Len(wire) : Tail(stage)[i] = wire[i]
      BY <1>3, <2>4, <2>6
    <3>2. Len(Tail(stage)) = Len(wire)
      BY <1>3, <2>6
    <3>3. Tail(stage) = wire
      BY <2>2, <2>6, <3>1, <3>2, SeqEqual
    <3> QED
      BY <2>3, <3>3
<1> QED
  BY <1>3, <1>4, <1>5 DEF r

(* And that of no reply: a status that says so. *)
LEMMA SilentIs ==
    ASSUME NEW f, NEW corrupt, f.rep \in Nat
    PROVE  DataStage(f, <<>>, corrupt)[1] = 0
<1> DEFINE rest == [i \in 1..f.rep |-> IF i > Len(<<>>) THEN 0 ELSE <<>>[i]]
<1>1. Reverse(<<>>) = <<>> /\ Len(<<>>) = 0
  BY DEF Reverse
<1>2. DataStage(f, <<>>, corrupt) = <<0>> \o rest
  BY <1>1 DEF DataStage
<1>3. rest = [i \in 1..f.rep |-> 0]
  BY <1>1
<1>4. rest \in [1..f.rep -> Nat]
  BY <1>3
<1>5. rest \in Seq(Nat) /\ <<0>> \in Seq(Nat) /\ Len(<<0>>) = 1 /\ <<0>>[1] = 0
  BY <1>4, SequenceIs
<1> HIDE DEF rest
<1>6. Len(rest) \in Nat
  BY <1>5, LenProperties
<1> QED
  BY <1>2, <1>5, <1>6, ConcatProperties
--------------------------------------------------------------------------------
(* Induction and recursion over the natural numbers up to a bound *)

LEMMA LeastMember ==
    ASSUME NEW T \in SUBSET Nat, T # {}
    PROVE  \E m \in T : \A k \in T : m <= k
<1> DEFINE R == OpToRel(<, Nat)
<1>1. IsWellFoundedOn(R, Nat)
  BY NatLessThanWellFounded
<1>2. \A i, j \in Nat : i < j => <<i, j>> \in R
  BY DEF OpToRel
<1> HIDE DEF R
<1>3. PICK m \in T : \A k \in T : ~(<<k, m>> \in R)
  BY <1>1, WFMin, Zenon
<1>4. ASSUME NEW k \in T PROVE m <= k
  <2>1. m \in Nat /\ k \in Nat /\ ~(k < m)
    BY <1>2, <1>3
  <2> QED
    BY <2>1
<1> QED
  BY <1>4

(* What holds at 0, and one further wherever it holds, holds up to N. *)
LEMMA StepByStep ==
    ASSUME NEW N \in Nat, NEW T, 0 \in T, \A n \in 0..(N - 1) : n \in T => n + 1 \in T
    PROVE  \A n \in 0..N : n \in T
<1> DEFINE U == {n \in 0..N : n \notin T}
<1>1. SUFFICES ASSUME U # {} PROVE FALSE
  OBVIOUS
<1>2. U \in SUBSET Nat
  OBVIOUS
<1>3. PICK m \in U : \A k \in U : m <= k
  BY <1>1, <1>2, LeastMember, Zenon
<1>4. m \in 1..N /\ m - 1 \in 0..(N - 1) /\ (m - 1) + 1 = m
  BY <1>3
<1>5. m - 1 \in T
  BY <1>3, <1>4
<1> QED
  BY <1>3, <1>4, <1>5

(* A function defined step by step exists. *)
RunsBy(f, S, first, Move, N) ==
    /\ f \in [0..N -> S] /\ f[0] = first
    /\ \A n \in 1..N : f[n] = Move[n][f[n - 1]]

LEMMA RecursionRuns ==
    ASSUME NEW S, NEW first \in S, NEW N \in Nat, NEW Move \in [1..N -> [S -> S]]
    PROVE  \E f : RunsBy(f, S, first, Move, N)
<1> DEFINE T == {n \in 0..N : \E f : RunsBy(f, S, first, Move, n)}
<1>1. 0 \in T
  <2> DEFINE f == [n \in 0..0 |-> first]
  <2>1. RunsBy(f, S, first, Move, 0)
    BY DEF RunsBy
  <2> QED
    BY <2>1
<1>2. ASSUME NEW n \in 0..(N - 1), n \in T
      PROVE  n + 1 \in T
  <2>1. PICK f : RunsBy(f, S, first, Move, n)
    BY <1>2
  <2>2. f \in [0..n -> S] /\ f[0] = first /\ \A k \in 1..n : f[k] = Move[k][f[k - 1]]
    BY <2>1 DEF RunsBy
  <2>3. n + 1 \in 1..N /\ n \in Nat /\ n \in 0..n
    OBVIOUS
  <2>4. f[n] \in S /\ Move[n + 1][f[n]] \in S
    BY <2>2, <2>3
  <2> DEFINE g == [k \in 0..(n + 1) |-> IF k = n + 1 THEN Move[n + 1][f[n]] ELSE f[k]]
  <2>5. g \in [0..(n + 1) -> S]
    <3>1. ASSUME NEW k \in 0..(n + 1) PROVE g[k] \in S
      <4>1. k = n + 1 \/ k \in 0..n
        OBVIOUS
      <4> QED
        BY <2>2, <2>4, <4>1
    <3> QED
      BY <3>1
  <2>6. g[0] = first
    BY <2>2, <2>3
  <2>7. ASSUME NEW k \in 1..(n + 1) PROVE g[k] = Move[k][g[k - 1]]
    <3>1. CASE k = n + 1
      <4>1. k - 1 = n /\ k \in 0..(n + 1) /\ n \in 0..(n + 1) /\ n # n + 1
        BY <3>1
      <4> QED
        BY <3>1, <4>1
    <3>2. CASE k # n + 1
      <4>1. k \in 1..n /\ k - 1 \in 0..n /\ k \in 0..(n + 1) /\ k - 1 \in 0..(n + 1) /\ k - 1 # n + 1
        BY <3>2
      <4> QED
        BY <2>2, <3>2, <4>1
    <3> QED
      BY <3>1, <3>2
  <2> HIDE DEF g
  <2>8. RunsBy(g, S, first, Move, n + 1)
    BY <2>5, <2>6, <2>7 DEF RunsBy
  <2> QED
    BY <2>3, <2>8
<1> HIDE DEF T
<1>3. N \in T
  <2>1. \A n \in 0..N : n \in T
    BY <1>1, <1>2, StepByStep
  <2> QED
    BY <2>1
<1> QED
  BY <1>3 DEF T
--------------------------------------------------------------------------------
(* Registers *)

Registers(w) == [1..w -> BOOLEAN]

LEMMA GreatestIs ==
    ASSUME NEW N \in Nat, NEW s \in SUBSET (1..N), s # {}
    PROVE  Max(s) \in s /\ \A k \in s : k <= Max(s)
<1> DEFINE T == {n \in Nat : \E k \in s : n = N - k}
<1>1. T \in SUBSET Nat /\ T # {}
  <2>1. PICK k \in s : TRUE
    OBVIOUS
  <2>2. N - k \in T
    OBVIOUS
  <2> QED
    BY <2>2
<1>2. PICK m \in T : \A k \in T : m <= k
  BY <1>1, LeastMember, Zenon
<1>3. PICK g \in s : m = N - g
  BY <1>2
<1>4. ASSUME NEW k \in s PROVE k <= g
  <2>1. N - k \in T
    OBVIOUS
  <2>2. m <= N - k
    BY <1>2, <2>1
  <2> QED
    BY <1>3, <2>2
<1>5. \E x \in s : \A y \in s : x >= y
  BY <1>4
<1> QED
  BY <1>5 DEF Max

(* One turn of the register, bit by bit. *)
IsShift(w, poly, reg, b, next) ==
    /\ next \in Registers(w)
    /\ \A i \in 1..w :
          next[i] <=> ((IF i < w THEN reg[i + 1] ELSE FALSE) # ((reg[1] # b) /\ poly[i]))

LEMMA ShiftIs ==
    ASSUME NEW w \in Nat, w > 0, NEW poly \in Registers(w), NEW reg \in Registers(w),
           NEW b \in BOOLEAN
    PROVE  IsShift(w, poly, reg, b, Shift(poly, reg, b))
<1> DEFINE moved == Append(Tail(reg), FALSE)
<1>1. reg \in Seq(BOOLEAN) /\ Len(reg) = w /\ reg # <<>> /\ DOMAIN reg = 1..w
  BY DEF Registers
<1>2. Tail(reg) \in Seq(BOOLEAN) /\ Len(Tail(reg)) = w - 1 /\ \A i \in 1..(w - 1) : Tail(reg)[i] = reg[i + 1]
  BY <1>1, HeadTailProperties
<1>3. /\ moved \in Seq(BOOLEAN) /\ Len(moved) = w
      /\ \A i \in 1..w : moved[i] = IF i < w THEN reg[i + 1] ELSE FALSE
  <2> DEFINE tail == Tail(reg)
  <2> HIDE DEF tail
  <2>1. tail \in Seq(BOOLEAN) /\ Len(tail) = w - 1 /\ \A i \in 1..(w - 1) : tail[i] = reg[i + 1]
    BY <1>2 DEF tail
  <2>2. /\ Append(tail, FALSE) \in Seq(BOOLEAN) /\ Len(Append(tail, FALSE)) = Len(tail) + 1
        /\ \A i \in 1..Len(tail) : Append(tail, FALSE)[i] = tail[i]
        /\ Append(tail, FALSE)[Len(tail) + 1] = FALSE
    <3> DEFINE none == FALSE
    <3>1. tail \in Seq(BOOLEAN) /\ none \in BOOLEAN
      BY <2>1
    <3> HIDE DEF none
    <3>2. /\ Append(tail, none) \in Seq(BOOLEAN) /\ Len(Append(tail, none)) = Len(tail) + 1
          /\ \A i \in 1..Len(tail) : Append(tail, none)[i] = tail[i]
          /\ Append(tail, none)[Len(tail) + 1] = none
      BY <3>1, AppendProperties
    <3> QED
      BY <3>2 DEF none
  <2>3. moved = Append(tail, FALSE)
    BY DEF tail
  <2> HIDE DEF moved
  <2>4. Len(tail) + 1 = w /\ 1..Len(tail) = 1..(w - 1)
    BY <2>1
  <2>5. ASSUME NEW i \in 1..w
        PROVE  moved[i] = IF i < w THEN reg[i + 1] ELSE FALSE
    <3>1. CASE i = w
      <4>1. moved[w] = FALSE
        BY <2>2, <2>3, <2>4, Zenon
      <4>2. ~(i < w)
        BY <3>1
      <4> QED
        BY <3>1, <4>1, <4>2, Zenon
    <3>2. CASE i # w
      <4>1. i \in 1..(w - 1) /\ i < w
        BY <3>2
      <4> QED
        BY <2>1, <2>2, <2>3, <2>4, <4>1
    <3> QED
      BY <3>1, <3>2
  <2> QED
    BY <2>2, <2>3, <2>4, <2>5
<1>4. Head(reg) = reg[1]
  BY <1>1
<1>5. Shift(poly, reg, b) = [i \in 1..w |-> IF reg[1] # b THEN moved[i] # poly[i] ELSE moved[i]]
  BY <1>1, <1>4 DEF Shift
<1> HIDE DEF moved
<1>6. \A i \in 1..w : moved[i] \in BOOLEAN /\ poly[i] \in BOOLEAN
  BY <1>3 DEF Registers
<1>7. ASSUME NEW i \in 1..w
      PROVE  /\ Shift(poly, reg, b)[i] \in BOOLEAN
             /\ Shift(poly, reg, b)[i] <=>
                    ((IF i < w THEN reg[i + 1] ELSE FALSE) # ((reg[1] # b) /\ poly[i]))
  <2>1. moved[i] = IF i < w THEN reg[i + 1] ELSE FALSE
    BY <1>3
  <2>2. Shift(poly, reg, b)[i] = IF reg[1] # b THEN moved[i] # poly[i] ELSE moved[i]
    BY <1>5
  <2>3. moved[i] \in BOOLEAN /\ poly[i] \in BOOLEAN
    BY <1>6
  <2> QED
    BY <2>1, <2>2, <2>3
<1>8. Shift(poly, reg, b) \in Registers(w)
  BY <1>5, <1>7 DEF Registers
<1> QED
  BY <1>7, <1>8 DEF IsShift
(* The fold of Register, as a run over the message. *)
RegisterRun(poly, message, w, f) ==
    /\ f \in [0..Len(message) -> Registers(w)] /\ f[0] = Zeros(w)
    /\ \A n \in 1..Len(message) : f[n] = Shift(poly, f[n - 1], message[n])

LEMMA RegisterRuns ==
    ASSUME NEW w \in Nat, w > 0, NEW poly \in Registers(w), NEW message \in Seq(BOOLEAN)
    PROVE  \E f : RegisterRun(poly, message, w, f) /\ Register(poly, message) = f[Len(message)]
<1> DEFINE N == Len(message)
           Sets == SUBSET (1..N)
           After(g, s) == IF s = {} THEN Zeros(w)
                          ELSE Shift(poly, g[s \ {Max(s)}], message[Max(s)])
           S == [Sets -> Registers(w)]
           One(k, g) == [s \in Sets |-> IF s # {} /\ Max(s) = k
                                        THEN Shift(poly, g[s \ {k}], message[k]) ELSE g[s]]
           Move == [k \in 1..N |-> [g \in S |-> One(k, g)]]
           first == [s \in Sets |-> Zeros(w)]
<1>1. /\ N \in Nat /\ DOMAIN message = 1..N /\ \A n \in 1..N : message[n] \in BOOLEAN
      /\ poly \in Seq(BOOLEAN) /\ Len(poly) = w
      /\ Zeros(w) \in Registers(w)
  BY DEF Registers, Zeros
<1>2. ASSUME NEW k \in 1..N, NEW g \in S PROVE One(k, g) \in S
  <2>1. ASSUME NEW s \in Sets PROVE One(k, g)[s] \in Registers(w)
    <3>1. g[s] \in Registers(w) /\ s \ {k} \in Sets
      OBVIOUS
    <3>2. g[s \ {k}] \in Registers(w)
      BY <3>1
    <3>3. message[k] \in BOOLEAN
      BY <1>1
    <3>4. Shift(poly, g[s \ {k}], message[k]) \in Registers(w)
      BY <3>2, <3>3, ShiftIs, Zenon DEF IsShift
    <3> QED
      BY <3>1, <3>4
  <2> QED
    BY <2>1
<1>3. Move \in [1..N -> [S -> S]]
  <2> HIDE DEF S, One
  <2> QED
    BY <1>2
<1>4. first \in S
  BY <1>1
<1>5. PICK G : RunsBy(G, S, first, Move, N)
  <2> HIDE DEF S, Move, first
  <2> QED
    BY <1>1, <1>3, <1>4, RecursionRuns
<1>6. /\ G \in [0..N -> S] /\ G[0] = first
      /\ \A k \in 1..N : G[k] = One(k, G[k - 1])
  <2>1. /\ G \in [0..N -> S] /\ G[0] = first
        /\ \A k \in 1..N : G[k] = Move[k][G[k - 1]]
    BY <1>5 DEF RunsBy
  <2>2. ASSUME NEW k \in 1..N PROVE Move[k][G[k - 1]] = One(k, G[k - 1])
    <3>1. G[k - 1] \in S
      <4>1. k - 1 \in 0..N
        BY <1>1
      <4> HIDE DEF S
      <4> QED
        BY <2>1, <4>1
    <3> HIDE DEF S, One
    <3> QED
      BY <3>1
  <2> HIDE DEF S, One, Move
  <2> QED
    BY <2>1, <2>2
<1> DEFINE Good(k) == \A s \in Sets : s = {} \/ Max(s) <= k => G[k][s] = After(G[k], s)
           T == {k \in 0..N : Good(k)}
<1>7. \A s \in Sets : s # {} => Max(s) \in s /\ Max(s) \in 1..N
  BY <1>1, GreatestIs
<1>8. 0 \in T
  <2>1. ASSUME NEW s \in Sets, s = {} \/ Max(s) <= 0 PROVE s = {}
    BY <1>7, <2>1
  <2>2. ASSUME NEW s \in Sets, s = {} PROVE G[0][s] = Zeros(w)
    BY <1>6
  <2> QED
    BY <1>1, <2>1, <2>2
<1>9. ASSUME NEW k \in 0..(N - 1), k \in T PROVE k + 1 \in T
  <2> DEFINE n == k + 1
  <2>1. n \in 1..N /\ n - 1 = k /\ n \in 0..N
    BY <1>1
  <2>2. G[n] = One(n, G[k]) /\ G[k] \in S /\ Good(k)
    BY <1>1, <1>6, <1>9, <2>1
  <2> HIDE DEF n
  <2>3. \A s \in Sets : G[n][s] = IF s # {} /\ Max(s) = n
                                  THEN Shift(poly, G[k][s \ {n}], message[n]) ELSE G[k][s]
    BY <2>2
  <2>4. ASSUME NEW s \in Sets, s # {} PROVE G[n][s \ {Max(s)}] = IF Max(s) <= n THEN G[k][s \ {Max(s)}] ELSE G[n][s \ {Max(s)}]
    <3>1. s \ {Max(s)} \in Sets
      OBVIOUS
    <3>2. ASSUME s \ {Max(s)} # {}, Max(s) <= n PROVE Max(s \ {Max(s)}) # n
      <4>1. Max(s \ {Max(s)}) \in s \ {Max(s)}
        BY <1>7, <3>1, <3>2
      <4>2. \A j \in s : j <= Max(s)
        BY <1>1, GreatestIs, <2>4
      <4> DEFINE m == Max(s \ {Max(s)})
                 g == Max(s)
      <4>3. m \in s /\ m # g /\ m <= g /\ g <= n /\ m \in 1..N /\ g \in 1..N
        BY <4>1, <4>2, <3>2, <1>7, <2>4
      <4> HIDE DEF m, g
      <4>4. m # n
        BY <4>3, <2>1
      <4> QED
        BY <4>4 DEF m
    <3> QED
      BY <2>3, <3>1, <3>2
  <2>5. ASSUME NEW s \in Sets, s = {} \/ Max(s) <= n PROVE G[n][s] = After(G[n], s)
    <3>1. CASE s = {}
      <4>1. G[k][s] = Zeros(w)
        BY <2>2, <3>1
      <4> QED
        BY <2>3, <3>1, <4>1
    <3>2. CASE s # {} /\ Max(s) = n
      <4>1. G[n][s] = Shift(poly, G[k][s \ {n}], message[n])
        BY <2>3, <3>2
      <4>2. G[n][s \ {n}] = G[k][s \ {n}]
        <5>1. Max(s) <= n
          BY <2>1, <3>2
        <5>2. G[n][s \ {Max(s)}] = G[k][s \ {Max(s)}]
          BY <2>4, <3>2, <5>1
        <5> QED
          BY <3>2, <5>2
      <4> QED
        BY <3>2, <4>1, <4>2
    <3>3. CASE s # {} /\ Max(s) # n
      <4>1. Max(s) <= k /\ Max(s) <= n
        BY <2>5, <3>3, <1>7, <2>1
      <4>2. G[n][s] = G[k][s]
        BY <2>3, <3>3
      <4>3. G[k][s] = After(G[k], s)
        BY <2>2, <4>1
      <4>4. G[n][s \ {Max(s)}] = G[k][s \ {Max(s)}]
        BY <2>4, <3>3, <4>1
      <4> QED
        BY <3>3, <4>2, <4>3, <4>4
    <3> QED
      BY <3>1, <3>2, <3>3
  <2> HIDE DEF After
  <2>6. Good(n)
    BY <2>5
  <2> QED
    BY <2>1, <2>6 DEF n
<1>10. Good(N)
  <2> HIDE DEF Good
  <2>1. \A k \in 0..N : k \in T
    <3> HIDE DEF T
    <3> QED
      BY <1>1, <1>8, <1>9, StepByStep
  <2> QED
    BY <1>1, <2>1
<1> DEFINE Iter == [s \in Sets |-> After(G[N], s)]
<1>11. G[N] = Iter
  <2>1. G[N] \in S
    BY <1>1, <1>6
  <2>2. \A s \in Sets : G[N][s] = After(G[N], s)
    <3>1. \A s \in Sets : s = {} \/ Max(s) <= N
      BY <1>1, <1>7
    <3> HIDE DEF After
    <3> QED
      BY <1>10, <3>1
  <2>3. G[N] = [s \in Sets |-> G[N][s]]
    BY <2>1
  <2> HIDE DEF After, Sets
  <2> QED
    BY <2>2, <2>3
<1> DEFINE it == CHOOSE i : i = [s \in SUBSET DOMAIN message |-> After(i, s)]
<1>12. Register(poly, message) = it[1..N] /\ it = [s \in Sets |-> After(it, s)]
  <2>1. Register(poly, message) = it[DOMAIN message]
    BY <1>1 DEF Register, FoldLeft, MapThenFoldSet
  <2>2. \E i : i = [s \in SUBSET DOMAIN message |-> After(i, s)]
    <3>1. G[N] = [s \in SUBSET DOMAIN message |-> After(G[N], s)]
      BY <1>1, <1>11
    <3> HIDE DEF After
    <3> QED
      BY <3>1
  <2>3. it = [s \in SUBSET DOMAIN message |-> After(it, s)]
    <3> HIDE DEF After
    <3> QED
      BY <2>2
  <2> HIDE DEF it
  <2> QED
    BY <1>1, <2>1, <2>3
<1> HIDE DEF it
<1> DEFINE f == [n \in 0..N |-> it[1..n]]
<1>13. ASSUME NEW s \in Sets PROVE it[s] = After(it, s)
  <2> HIDE DEF After
  <2> QED
    BY <1>12
<1>14. f[0] = Zeros(w)
  <2>1. 1..0 = {} /\ {} \in Sets
    OBVIOUS
  <2>2. it[{}] = Zeros(w)
    BY <1>13, <2>1
  <2> QED
    BY <1>1, <2>1, <2>2
<1>15. ASSUME NEW n \in 1..N PROVE f[n] = Shift(poly, f[n - 1], message[n])
  <2>1. 1..n \in Sets /\ 1..n # {} /\ n \in 0..N /\ n - 1 \in 0..N
    <3>1. n \in 1..n /\ \A k \in 1..n : k \in 1..N
      BY <1>1
    <3>2. 1..n \in Sets /\ 1..n # {}
      BY <3>1
    <3> QED
      BY <1>1, <3>2
  <2>2. Max(1..n) = n
    <3>1. Max(1..n) \in 1..n /\ \A k \in 1..n : k <= Max(1..n)
      BY <1>1, <2>1, GreatestIs
    <3> QED
      BY <3>1
  <2>3. (1..n) \ {n} = 1..(n - 1)
    OBVIOUS
  <2>4. it[1..n] = Shift(poly, it[(1..n) \ {n}], message[n])
    BY <1>13, <2>1, <2>2
  <2> QED
    BY <2>1, <2>3, <2>4
<1> HIDE DEF f
<1>16. \A n \in 0..N : f[n] \in Registers(w)
  <2> DEFINE U == {n \in 0..N : f[n] \in Registers(w)}
  <2>1. 0 \in U
    BY <1>1, <1>14
  <2>2. ASSUME NEW n \in 0..(N - 1), n \in U PROVE n + 1 \in U
    <3>1. n + 1 \in 1..N /\ (n + 1) - 1 = n /\ n + 1 \in 0..N
      BY <1>1
    <3>2. f[n + 1] = Shift(poly, f[n], message[n + 1]) /\ f[n] \in Registers(w)
      BY <1>15, <2>2, <3>1
    <3>3. f[n + 1] \in Registers(w)
      <4>1. message[n + 1] \in BOOLEAN
        BY <1>1, <3>1
      <4>2. Shift(poly, f[n], message[n + 1]) \in Registers(w)
        BY <3>2, <4>1, ShiftIs, Zenon DEF IsShift
      <4> QED
        BY <3>2, <4>2
    <3> QED
      BY <3>1, <3>3
  <2>3. \A n \in 0..N : n \in U
    <3> HIDE DEF U
    <3> QED
      BY <1>1, <2>1, <2>2, StepByStep
  <2> QED
    BY <2>3
<1>17. f \in [0..N -> Registers(w)] /\ f[N] = it[1..N]
  <2>1. f = [n \in 0..N |-> f[n]] /\ f[N] = it[1..N]
    BY <1>1 DEF f
  <2> QED
    BY <1>16, <2>1
<1> QED
  BY <1>12, <1>14, <1>15, <1>17 DEF RegisterRun
(***************************************************************************)
(* The register is linear: what it holds after the sum of two messages is  *)
(* the sum of what it holds after each.                                    *)
(***************************************************************************)
Added(w, r, s) == [i \in 1..w |-> r[i] # s[i]]

Differ(a, b, c) == c <=> (a # b)

LEMMA ShiftLinear ==
    ASSUME NEW w \in Nat, w > 0, NEW poly \in Registers(w),
           NEW r \in Registers(w), NEW s \in Registers(w)
    PROVE  \A a, b, c \in BOOLEAN : Differ(a, b, c) =>
              Shift(poly, Added(w, r, s), c) = Added(w, Shift(poly, r, a), Shift(poly, s, b))
<1> SUFFICES ASSUME NEW a \in BOOLEAN, NEW b \in BOOLEAN, NEW c \in BOOLEAN, Differ(a, b, c)
             PROVE  Shift(poly, Added(w, r, s), c)
                      = Added(w, Shift(poly, r, a), Shift(poly, s, b))
  OBVIOUS
<1> DEFINE t == Added(w, r, s)
<1>1. t \in Registers(w) /\ \A i \in 1..w : t[i] <=> (r[i] # s[i])
  BY DEF Added, Registers
<1> HIDE DEF t
<1> DEFINE R == Shift(poly, r, a)
           S == Shift(poly, s, b)
           U == Shift(poly, t, c)
<1>2. /\ R \in Registers(w)
      /\ \A i \in 1..w : R[i] <=>
            ((IF i < w THEN r[i + 1] ELSE FALSE) # ((r[1] # a) /\ poly[i]))
  <2>1. IsShift(w, poly, r, a, R)
    BY ShiftIs, Zenon
  <2> HIDE DEF R
  <2> QED
    BY <2>1 DEF IsShift
<1>3. /\ S \in Registers(w)
      /\ \A i \in 1..w : S[i] <=>
            ((IF i < w THEN s[i + 1] ELSE FALSE) # ((s[1] # b) /\ poly[i]))
  <2>1. IsShift(w, poly, s, b, S)
    BY ShiftIs, Zenon
  <2> HIDE DEF S
  <2> QED
    BY <2>1 DEF IsShift
<1>4. /\ U \in Registers(w)
      /\ \A i \in 1..w : U[i] <=>
            ((IF i < w THEN t[i + 1] ELSE FALSE) # ((t[1] # c) /\ poly[i]))
  <2>1. t \in Registers(w)
    BY <1>1
  <2>2. IsShift(w, poly, t, c, U)
    BY <2>1, ShiftIs, Zenon
  <2> HIDE DEF U
  <2> QED
    BY <2>2 DEF IsShift
<1> HIDE DEF R, S, U
<1>5. ASSUME NEW i \in 1..w PROVE U[i] <=> (R[i] # S[i])
  <2>1. 1 \in 1..w
    OBVIOUS
  <2>2. (t[1] # c) <=> ((r[1] # a) # (s[1] # b))
    <3>1. r[1] \in BOOLEAN /\ s[1] \in BOOLEAN /\ t[1] \in BOOLEAN
      BY <1>1, <2>1 DEF Registers
    <3>2. t[1] <=> (r[1] # s[1])
      BY <1>1, <2>1
    <3> QED
      BY <3>1, <3>2 DEF Differ
  <2>3. CASE i < w
    <3>1. i + 1 \in 1..w
      BY <2>3
    <3>2. /\ r[1] \in BOOLEAN /\ s[1] \in BOOLEAN /\ t[1] \in BOOLEAN /\ poly[i] \in BOOLEAN
          /\ r[i + 1] \in BOOLEAN /\ s[i + 1] \in BOOLEAN /\ t[i + 1] \in BOOLEAN
          /\ R[i] \in BOOLEAN /\ S[i] \in BOOLEAN /\ U[i] \in BOOLEAN
      BY <1>1, <1>2, <1>3, <1>4, <2>1, <3>1 DEF Registers
    <3>3. t[i + 1] <=> (r[i + 1] # s[i + 1])
      BY <1>1, <3>1
    <3>4. /\ R[i] <=> (r[i + 1] # ((r[1] # a) /\ poly[i]))
          /\ S[i] <=> (s[i + 1] # ((s[1] # b) /\ poly[i]))
          /\ U[i] <=> (t[i + 1] # ((t[1] # c) /\ poly[i]))
      BY <1>2, <1>3, <1>4, <2>3
    <3> QED
      BY <2>2, <3>2, <3>3, <3>4
  <2>4. CASE ~(i < w)
    <3>2. /\ r[1] \in BOOLEAN /\ s[1] \in BOOLEAN /\ t[1] \in BOOLEAN /\ poly[i] \in BOOLEAN
          /\ R[i] \in BOOLEAN /\ S[i] \in BOOLEAN /\ U[i] \in BOOLEAN
      BY <1>1, <1>2, <1>3, <1>4, <2>1 DEF Registers
    <3>4. /\ R[i] <=> ((r[1] # a) /\ poly[i])
          /\ S[i] <=> ((s[1] # b) /\ poly[i])
          /\ U[i] <=> ((t[1] # c) /\ poly[i])
      BY <1>2, <1>3, <1>4, <2>4
    <3> QED
      BY <2>2, <3>2, <3>4
  <2> QED
    BY <2>3, <2>4
<1>6. ASSUME NEW i \in 1..w PROVE U[i] = (R[i] # S[i])
  <2>1. U[i] \in BOOLEAN
    BY <1>4 DEF Registers
  <2> QED
    BY <1>5, <2>1
<1>7. U = [i \in 1..w |-> U[i]]
  BY <1>4 DEF Registers
<1>8. U = Added(w, R, S)
  BY <1>6, <1>7 DEF Added
<1> QED
  BY <1>8 DEF R, S, U, t

Differs(N, m1, m2, m3) == \A n \in 1..N : m3[n] <=> (m1[n] # m2[n])

LEMMA MessageIs ==
    ASSUME NEW N \in Nat, NEW m \in [1..N -> BOOLEAN]
    PROVE  m \in Seq(BOOLEAN) /\ Len(m) = N
  OBVIOUS

LEMMA RegisterLinear ==
    ASSUME NEW w \in Nat, w > 0, NEW poly \in Registers(w), NEW N \in Nat,
           NEW m1 \in [1..N -> BOOLEAN], NEW m2 \in [1..N -> BOOLEAN],
           NEW m3 \in [1..N -> BOOLEAN],
           Differs(N, m1, m2, m3)
    PROVE  /\ Register(poly, m1) \in Registers(w) /\ Register(poly, m2) \in Registers(w)
           /\ Register(poly, m3) = Added(w, Register(poly, m1), Register(poly, m2))
<1>1. ASSUME NEW m \in [1..N -> BOOLEAN]
      PROVE  \E f : /\ f \in [0..N -> Registers(w)] /\ f[0] = Zeros(w)
                    /\ \A n \in 1..N : f[n] = Shift(poly, f[n - 1], m[n])
                    /\ Register(poly, m) = f[N]
  <2>1. m \in Seq(BOOLEAN) /\ Len(m) = N
    OBVIOUS
  <2>2. PICK f : RegisterRun(poly, m, w, f) /\ Register(poly, m) = f[Len(m)]
    BY <2>1, RegisterRuns
  <2> QED
    BY <2>1, <2>2 DEF RegisterRun
<1>2. PICK f : /\ f \in [0..N -> Registers(w)] /\ f[0] = Zeros(w)
               /\ \A n \in 1..N : f[n] = Shift(poly, f[n - 1], m1[n])
               /\ Register(poly, m1) = f[N]
  BY <1>1
<1>3. PICK g : /\ g \in [0..N -> Registers(w)] /\ g[0] = Zeros(w)
               /\ \A n \in 1..N : g[n] = Shift(poly, g[n - 1], m2[n])
               /\ Register(poly, m2) = g[N]
  BY <1>1
<1>4. PICK h : /\ h \in [0..N -> Registers(w)] /\ h[0] = Zeros(w)
               /\ \A n \in 1..N : h[n] = Shift(poly, h[n - 1], m3[n])
               /\ Register(poly, m3) = h[N]
  BY <1>1
<1> DEFINE T == {n \in 0..N : h[n] = Added(w, f[n], g[n])}
<1>5. 0 \in T
  <2>1. Zeros(w) = Added(w, Zeros(w), Zeros(w))
    BY DEF Zeros, Added
  <2> QED
    BY <1>2, <1>3, <1>4, <2>1
<1>6. ASSUME NEW n \in 0..(N - 1), n \in T PROVE n + 1 \in T
  <2>1. n + 1 \in 1..N /\ (n + 1) - 1 = n /\ n + 1 \in 0..N /\ n \in 0..N
    OBVIOUS
  <2>2. /\ f[n + 1] = Shift(poly, f[n], m1[n + 1]) /\ f[n] \in Registers(w)
        /\ g[n + 1] = Shift(poly, g[n], m2[n + 1]) /\ g[n] \in Registers(w)
        /\ h[n + 1] = Shift(poly, h[n], m3[n + 1])
    BY <1>2, <1>3, <1>4, <2>1
  <2>3. h[n] = Added(w, f[n], g[n])
    BY <1>6
  <2>4. /\ m1[n + 1] \in BOOLEAN /\ m2[n + 1] \in BOOLEAN /\ m3[n + 1] \in BOOLEAN
        /\ Differ(m1[n + 1], m2[n + 1], m3[n + 1])
    BY <2>1 DEF Differ, Differs
  <2>5. Shift(poly, Added(w, f[n], g[n]), m3[n + 1]) =
          Added(w, Shift(poly, f[n], m1[n + 1]), Shift(poly, g[n], m2[n + 1]))
    <3>1. \A a, b, c \in BOOLEAN : Differ(a, b, c) =>
             Shift(poly, Added(w, f[n], g[n]), c)
               = Added(w, Shift(poly, f[n], a), Shift(poly, g[n], b))
      <4>1. f[n] \in Registers(w) /\ g[n] \in Registers(w)
        BY <2>2
      <4> HIDE DEF T, Added
      <4> QED
        BY <4>1, ShiftLinear
    <3> QED
      BY <2>4, <3>1, Zenon
  <2> QED
    BY <2>1, <2>2, <2>3, <2>5
<1>7. N \in T
  <2>1. \A n \in 0..N : n \in T
    <3> HIDE DEF T
    <3> QED
      BY <1>5, <1>6, StepByStep
  <2> HIDE DEF T
  <2> QED
    BY <2>1
<1> QED
  BY <1>2, <1>3, <1>4, <1>7
--------------------------------------------------------------------------------
(* Registers as numbers *)

One(b) == IF b THEN 1 ELSE 0

LEMMA NumberRuns ==
    ASSUME NEW w \in Nat, NEW r \in Registers(w)
    PROVE  \E f : /\ f[0] = 0 /\ Number(r) = f[w]
                  /\ \A n \in 1..w : f[n] = 2 * f[n - 1] + One(r[n])
<1> DEFINE Move == [n \in 1..w |-> [x \in Nat |-> 2 * x + One(r[n])]]
           After(g, n) == IF n = 0 THEN 0 ELSE 2 * g[n - 1] + (IF r[n] THEN 1 ELSE 0)
           value == CHOOSE g : g = [n \in 0..w |-> After(g, n)]
<1>1. Move \in [1..w -> [Nat -> Nat]]
  BY DEF One
<1>2. PICK f : RunsBy(f, Nat, 0, Move, w)
  <2> HIDE DEF Move
  <2> QED
    BY <1>1, RecursionRuns
<1>3. /\ f \in [0..w -> Nat] /\ f[0] = 0
      /\ \A n \in 1..w : f[n] = Move[n][f[n - 1]]
  BY <1>2 DEF RunsBy
<1>4. ASSUME NEW n \in 0..w PROVE f[n] = After(f, n)
  <2>1. CASE n = 0
    BY <1>3, <2>1
  <2>2. CASE n # 0
    <3>1. n \in 1..w /\ n - 1 \in 0..w
      BY <2>2
    <3>2. f[n - 1] \in Nat
      BY <1>3, <3>1
    <3>3. f[n] = 2 * f[n - 1] + One(r[n])
      BY <1>3, <3>1, <3>2
    <3> QED
      BY <2>2, <3>3 DEF One
  <2> QED
    BY <2>1, <2>2
<1> HIDE DEF After
<1>5. f = [n \in 0..w |-> After(f, n)]
  BY <1>3, <1>4
<1>6. value = [n \in 0..w |-> After(value, n)]
  BY <1>5
<1>7. Number(r) = value[w]
  <2>1. Len(r) = w
    BY DEF Registers
  <2>2. Number(r) = value[Len(r)]
    BY <2>1 DEF Number, After
  <2> QED
    BY <2>1, <2>2
<1> HIDE DEF value
<1>8. value[0] = 0
  BY <1>6 DEF After
<1>9. ASSUME NEW n \in 1..w PROVE value[n] = 2 * value[n - 1] + One(r[n])
  <2>1. n \in 0..w /\ n # 0
    OBVIOUS
  <2>2. value[n] = After(value, n)
    BY <1>6, <2>1
  <2> QED
    BY <2>1, <2>2 DEF After, One
<1> QED
  BY <1>7, <1>8, <1>9

LEMMA NumberOf8 ==
    ASSUME NEW r \in Registers(8)
    PROVE  Number(r) = 128 * One(r[1]) + 64 * One(r[2]) + 32 * One(r[3]) + 16 * One(r[4])
                         + 8 * One(r[5]) + 4 * One(r[6]) + 2 * One(r[7]) + One(r[8])
<1>1. PICK f : /\ f[0] = 0 /\ Number(r) = f[8]
               /\ \A n \in 1..8 : f[n] = 2 * f[n - 1] + One(r[n])
  BY NumberRuns
<1>2. \A n \in 1..8 : One(r[n]) \in {0, 1}
  BY DEF One
<1>3. /\ One(r[1]) \in {0, 1} /\ One(r[2]) \in {0, 1} /\ One(r[3]) \in {0, 1} /\ One(r[4]) \in {0, 1}
      /\ One(r[5]) \in {0, 1} /\ One(r[6]) \in {0, 1} /\ One(r[7]) \in {0, 1} /\ One(r[8]) \in {0, 1}
  BY <1>2
<1>4. /\ f[1] = 2 * f[0] + One(r[1]) /\ f[2] = 2 * f[1] + One(r[2])
      /\ f[3] = 2 * f[2] + One(r[3]) /\ f[4] = 2 * f[3] + One(r[4])
      /\ f[5] = 2 * f[4] + One(r[5]) /\ f[6] = 2 * f[5] + One(r[6])
      /\ f[7] = 2 * f[6] + One(r[7]) /\ f[8] = 2 * f[7] + One(r[8])
  BY <1>1
<1> HIDE DEF One
<1>5. f[1] = One(r[1]) /\ f[2] = 2 * One(r[1]) + One(r[2])
  BY <1>1, <1>3, <1>4
<1>6. /\ f[3] = 4 * One(r[1]) + 2 * One(r[2]) + One(r[3])
      /\ f[4] = 8 * One(r[1]) + 4 * One(r[2]) + 2 * One(r[3]) + One(r[4])
  BY <1>3, <1>4, <1>5
<1>7. f[5] = 16 * One(r[1]) + 8 * One(r[2]) + 4 * One(r[3]) + 2 * One(r[4]) + One(r[5])
  BY <1>3, <1>4, <1>6
<1>8. f[6] = 32 * One(r[1]) + 16 * One(r[2]) + 8 * One(r[3]) + 4 * One(r[4]) + 2 * One(r[5]) + One(r[6])
  BY <1>3, <1>4, <1>7
<1>9. f[7] = 64 * One(r[1]) + 32 * One(r[2]) + 16 * One(r[3]) + 8 * One(r[4]) + 4 * One(r[5])
               + 2 * One(r[6]) + One(r[7])
  BY <1>3, <1>4, <1>8
<1> QED
  BY <1>1, <1>3, <1>4, <1>9

LEMMA NumberOf5 == ASSUME NEW r \in Registers(5) PROVE Number(r) \in 0..31
<1>1. PICK f : /\ f[0] = 0 /\ Number(r) = f[5]
               /\ \A n \in 1..5 : f[n] = 2 * f[n - 1] + One(r[n])
  BY NumberRuns
<1>2. \A n \in 1..5 : One(r[n]) \in {0, 1}
  BY DEF One
<1>3. /\ f[1] \in 0..1 /\ f[2] \in 0..3 /\ f[3] \in 0..7 /\ f[4] \in 0..15 /\ f[5] \in 0..31
  <2>1. f[1] = 2 * f[0] + One(r[1]) /\ One(r[1]) \in {0, 1}
    BY <1>1, <1>2
  <2>2. f[2] = 2 * f[1] + One(r[2]) /\ One(r[2]) \in {0, 1}
    BY <1>1, <1>2
  <2>3. f[3] = 2 * f[2] + One(r[3]) /\ One(r[3]) \in {0, 1}
    BY <1>1, <1>2
  <2>4. f[4] = 2 * f[3] + One(r[4]) /\ One(r[4]) \in {0, 1}
    BY <1>1, <1>2
  <2>5. f[5] = 2 * f[4] + One(r[5]) /\ One(r[5]) \in {0, 1}
    BY <1>1, <1>2
  <2> QED
    BY <1>1, <2>1, <2>2, <2>3, <2>4, <2>5
<1> QED
  BY <1>1, <1>3

(* The eight bits can be read off the number. *)
LEMMA BitsTold ==
    ASSUME NEW r \in Registers(8), NEW s \in Registers(8), Number(r) = Number(s)
    PROVE  r = s
<1>1. \A n \in 1..8 : One(r[n]) \in {0, 1} /\ One(s[n]) \in {0, 1}
  BY DEF One
<1>2. /\ One(r[1]) \in {0, 1} /\ One(r[2]) \in {0, 1} /\ One(r[3]) \in {0, 1} /\ One(r[4]) \in {0, 1}
      /\ One(r[5]) \in {0, 1} /\ One(r[6]) \in {0, 1} /\ One(r[7]) \in {0, 1} /\ One(r[8]) \in {0, 1}
  BY <1>1
<1>3. /\ One(s[1]) \in {0, 1} /\ One(s[2]) \in {0, 1} /\ One(s[3]) \in {0, 1} /\ One(s[4]) \in {0, 1}
      /\ One(s[5]) \in {0, 1} /\ One(s[6]) \in {0, 1} /\ One(s[7]) \in {0, 1} /\ One(s[8]) \in {0, 1}
  BY <1>1
<1>4. 128 * One(r[1]) + 64 * One(r[2]) + 32 * One(r[3]) + 16 * One(r[4])
        + 8 * One(r[5]) + 4 * One(r[6]) + 2 * One(r[7]) + One(r[8])
      = 128 * One(s[1]) + 64 * One(s[2]) + 32 * One(s[3]) + 16 * One(s[4])
        + 8 * One(s[5]) + 4 * One(s[6]) + 2 * One(s[7]) + One(s[8])
  BY NumberOf8
<1>5. /\ One(r[1]) = One(s[1]) /\ One(r[2]) = One(s[2]) /\ One(r[3]) = One(s[3]) /\ One(r[4]) = One(s[4])
      /\ One(r[5]) = One(s[5]) /\ One(r[6]) = One(s[6]) /\ One(r[7]) = One(s[7]) /\ One(r[8]) = One(s[8])
  <2>1. One(r[1]) = One(s[1])
    BY <1>2, <1>3, <1>4
  <2>2. One(r[2]) = One(s[2])
    BY <1>2, <1>3, <1>4, <2>1
  <2>3. One(r[3]) = One(s[3]) /\ One(r[4]) = One(s[4])
    BY <1>2, <1>3, <1>4, <2>1, <2>2
  <2> QED
    BY <1>2, <1>3, <1>4, <2>1, <2>2, <2>3
<1>6. \A n \in 1..8 : n = 1 \/ n = 2 \/ n = 3 \/ n = 4 \/ n = 5 \/ n = 6 \/ n = 7 \/ n = 8
  OBVIOUS
<1>7. \A n \in 1..8 : One(r[n]) = One(s[n])
  BY <1>5, <1>6, Zenon
<1>8. \A n \in 1..8 : r[n] = s[n]
  <2>1. \A n \in 1..8 : r[n] \in BOOLEAN /\ s[n] \in BOOLEAN
    BY DEF Registers
  <2> QED
    BY <1>7, <2>1 DEF One
<1> QED
  BY <1>8 DEF Registers

TopBit == [i \in 1..8 |-> i = 1]

LEMMA InvertedIs ==
    ASSUME NEW r \in Registers(8)
    PROVE  /\ Number(r) \in 0..255 /\ Added(8, r, TopBit) \in Registers(8)
           /\ Inverted(Number(r)) = Number(Added(8, r, TopBit))
<1> DEFINE t == Added(8, r, TopBit)
<1>1. t \in Registers(8) /\ \A n \in 1..8 : r[n] \in BOOLEAN /\ t[n] = (r[n] # (n = 1))
  BY DEF Added, Registers, TopBit
<1> HIDE DEF t
<1>2. \A n \in 1..8 : One(r[n]) \in {0, 1} /\ One(t[n]) = IF n = 1 THEN 1 - One(r[n]) ELSE One(r[n])
  <2>1. ASSUME NEW n \in 1..8
        PROVE  One(r[n]) \in {0, 1} /\ One(t[n]) = IF n = 1 THEN 1 - One(r[n]) ELSE One(r[n])
    <3>1. r[n] \in BOOLEAN /\ t[n] \in BOOLEAN /\ (t[n] <=> (r[n] # (n = 1)))
      BY <1>1 DEF Registers
    <3> QED
      BY <3>1 DEF One
  <2> QED
    BY <2>1
<1>3. /\ One(r[1]) \in {0, 1} /\ One(r[2]) \in {0, 1} /\ One(r[3]) \in {0, 1} /\ One(r[4]) \in {0, 1}
      /\ One(r[5]) \in {0, 1} /\ One(r[6]) \in {0, 1} /\ One(r[7]) \in {0, 1} /\ One(r[8]) \in {0, 1}
      /\ One(t[1]) = 1 - One(r[1]) /\ One(t[2]) = One(r[2]) /\ One(t[3]) = One(r[3])
      /\ One(t[4]) = One(r[4]) /\ One(t[5]) = One(r[5]) /\ One(t[6]) = One(r[6])
      /\ One(t[7]) = One(r[7]) /\ One(t[8]) = One(r[8])
  BY <1>2
<1>4. /\ Number(r) = 128 * One(r[1]) + 64 * One(r[2]) + 32 * One(r[3]) + 16 * One(r[4])
                       + 8 * One(r[5]) + 4 * One(r[6]) + 2 * One(r[7]) + One(r[8])
      /\ Number(t) = 128 * One(t[1]) + 64 * One(t[2]) + 32 * One(t[3]) + 16 * One(t[4])
                       + 8 * One(t[5]) + 4 * One(t[6]) + 2 * One(t[7]) + One(t[8])
  BY <1>1, NumberOf8
<1>5. /\ Number(r) \in 0..255
      /\ Number(t) = IF Number(r) >= 128 THEN Number(r) - 128 ELSE Number(r) + 128
  BY <1>3, <1>4
<1>6. Inverted(Number(r)) = Number(t)
  BY <1>5 DEF Inverted
<1> QED
  BY <1>1, <1>5, <1>6 DEF t
--------------------------------------------------------------------------------
(* The damage, bit by bit *)

(* Adding 64 to a byte: its second bit, and the first if that was set. *)
Wrong(n) == IF (n \div 64) % 2 = 1 THEN {1, 2} ELSE {2}

BitsAre(n) ==
    /\ (Bits(n, 8)[1] <=> (n \div 128 % 2 = 1)) /\ (Bits(n, 8)[2] <=> (n \div 64 % 2 = 1))
    /\ (Bits(n, 8)[3] <=> (n \div 32 % 2 = 1)) /\ (Bits(n, 8)[4] <=> (n \div 16 % 2 = 1))
    /\ (Bits(n, 8)[5] <=> (n \div 8 % 2 = 1)) /\ (Bits(n, 8)[6] <=> (n \div 4 % 2 = 1))
    /\ (Bits(n, 8)[7] <=> (n \div 2 % 2 = 1)) /\ (Bits(n, 8)[8] <=> (n \div 1 % 2 = 1))

LEMMA BitOf ==
    ASSUME NEW n \in 0..255
    PROVE  BitsAre(n)
<1>1. /\ 2^7 = 128 /\ 2^6 = 64 /\ 2^5 = 32 /\ 2^4 = 16 /\ 2^3 = 8 /\ 2^2 = 4 /\ 2^1 = 2 /\ 2^0 = 1
  OBVIOUS
<1>2. /\ 8 - 1 = 7 /\ 8 - 2 = 6 /\ 8 - 3 = 5 /\ 8 - 4 = 4 /\ 8 - 5 = 3 /\ 8 - 6 = 2 /\ 8 - 7 = 1 /\ 8 - 8 = 0
  OBVIOUS
<1>3. /\ Bits(n, 8)[1] = (n \div 128 % 2 = 1) /\ Bits(n, 8)[2] = (n \div 64 % 2 = 1)
      /\ Bits(n, 8)[3] = (n \div 32 % 2 = 1) /\ Bits(n, 8)[4] = (n \div 16 % 2 = 1)
      /\ Bits(n, 8)[5] = (n \div 8 % 2 = 1) /\ Bits(n, 8)[6] = (n \div 4 % 2 = 1)
      /\ Bits(n, 8)[7] = (n \div 2 % 2 = 1) /\ Bits(n, 8)[8] = (n \div 1 % 2 = 1)
  BY <1>1, <1>2 DEF Bits
<1> QED
  BY <1>3, Zenon DEF BitsAre

DamagedBit(n, i) == Bits((n + 64) % 256, 8)[i] <=> (Bits(n, 8)[i] # (i \in Wrong(n)))

LEMMA DamagedBits == \A n \in 0..255, i \in 1..8 : DamagedBit(n, i)
<1> SUFFICES ASSUME NEW n \in 0..255, NEW i \in 1..8
             PROVE  Bits((n + 64) % 256, 8)[i] <=> (Bits(n, 8)[i] # (i \in Wrong(n)))
  BY DEF DamagedBit
<1> DEFINE m == (n + 64) % 256
<1>1. m \in 0..255 /\ m = IF n < 192 THEN n + 64 ELSE n - 192
  OBVIOUS
<1> HIDE DEF m
<1>0. BitsAre(m) /\ BitsAre(n)
  BY <1>1, BitOf, Zenon
<1>2. CASE i = 1
  <2>1. (m \div 128 % 2 = 1) <=> ((n \div 128 % 2 = 1) # (n \div 64 % 2 = 1))
    BY <1>1
  <2>2. (i \in Wrong(n)) <=> (n \div 64 % 2 = 1)
    BY <1>2 DEF Wrong
  <2>3. (Bits(m, 8)[1] <=> (m \div 128 % 2 = 1)) /\ (Bits(n, 8)[1] <=> (n \div 128 % 2 = 1))
    BY <1>0, Zenon DEF BitsAre
  <2>4. Bits(m, 8)[i] <=> (Bits(n, 8)[i] # (i \in Wrong(n)))
    <3>1. Bits(n, 8)[i] \in BOOLEAN /\ Bits(m, 8)[i] \in BOOLEAN
      BY DEF Bits
    <3> QED
      BY <1>2, <2>1, <2>2, <2>3, <3>1
  <2> QED
    BY <2>4 DEF m
<1>3. CASE i = 2
  <2>1. (m \div 64 % 2 = 1) <=> ~(n \div 64 % 2 = 1)
    BY <1>1
  <2>2. i \in Wrong(n)
    BY <1>3 DEF Wrong
  <2>3. (Bits(m, 8)[2] <=> (m \div 64 % 2 = 1)) /\ (Bits(n, 8)[2] <=> (n \div 64 % 2 = 1))
    BY <1>0, Zenon DEF BitsAre
  <2>4. Bits(m, 8)[i] <=> (Bits(n, 8)[i] # (i \in Wrong(n)))
    <3>1. Bits(n, 8)[i] \in BOOLEAN /\ Bits(m, 8)[i] \in BOOLEAN
      BY DEF Bits
    <3> QED
      BY <1>3, <2>1, <2>2, <2>3, <3>1
  <2> QED
    BY <2>4 DEF m
<1>4. CASE i \in 3..8
  <2>1. /\ (m \div 32 % 2 = 1) <=> (n \div 32 % 2 = 1)
        /\ (m \div 16 % 2 = 1) <=> (n \div 16 % 2 = 1)
        /\ (m \div 8 % 2 = 1) <=> (n \div 8 % 2 = 1)
        /\ (m \div 4 % 2 = 1) <=> (n \div 4 % 2 = 1)
        /\ (m \div 2 % 2 = 1) <=> (n \div 2 % 2 = 1)
        /\ (m \div 1 % 2 = 1) <=> (n \div 1 % 2 = 1)
    BY <1>1
  <2>2. i \notin Wrong(n)
    BY <1>4 DEF Wrong
  <2>3. i = 3 \/ i = 4 \/ i = 5 \/ i = 6 \/ i = 7 \/ i = 8
    BY <1>4
  <2>4. /\ (Bits(m, 8)[3] <=> (m \div 32 % 2 = 1)) /\ (Bits(n, 8)[3] <=> (n \div 32 % 2 = 1))
        /\ (Bits(m, 8)[4] <=> (m \div 16 % 2 = 1)) /\ (Bits(n, 8)[4] <=> (n \div 16 % 2 = 1))
        /\ (Bits(m, 8)[5] <=> (m \div 8 % 2 = 1)) /\ (Bits(n, 8)[5] <=> (n \div 8 % 2 = 1))
        /\ (Bits(m, 8)[6] <=> (m \div 4 % 2 = 1)) /\ (Bits(n, 8)[6] <=> (n \div 4 % 2 = 1))
        /\ (Bits(m, 8)[7] <=> (m \div 2 % 2 = 1)) /\ (Bits(n, 8)[7] <=> (n \div 2 % 2 = 1))
        /\ (Bits(m, 8)[8] <=> (m \div 1 % 2 = 1)) /\ (Bits(n, 8)[8] <=> (n \div 1 % 2 = 1))
    BY <1>0, Zenon DEF BitsAre
  <2>5. Bits(m, 8)[i] <=> Bits(n, 8)[i]
    BY <2>1, <2>3, <2>4, Zenon
  <2>6. Bits(m, 8)[i] \in BOOLEAN /\ Bits(n, 8)[i] \in BOOLEAN
    BY DEF Bits
  <2>7. Bits(m, 8)[i] <=> (Bits(n, 8)[i] # (i \in Wrong(n)))
    BY <2>2, <2>5, <2>6
  <2> QED
    BY <2>7 DEF m
<1> QED
  BY <1>2, <1>3, <1>4

LEMMA DamageIs ==
    ASSUME NEW d \in PakData
    PROVE  /\ Damaged(d) \in PakData
           /\ \E wrong \in {{2}, {1, 2}} : \A i \in 1..8 * BlockBytes :
                 DataBits(Damaged(d))[i] <=> (DataBits(d)[i] # (i \in wrong))
<1> DEFINE e == Damaged(d)
           wrong == Wrong(d[1])
<1>1. BlockBytes \in Nat /\ BlockBytes >= 2 /\ 1 \in 1..BlockBytes
  BY ChannelConstants
<1>2. /\ d[1] \in 0..255 /\ e[1] = (d[1] + 64) % 256
      /\ \A j \in 1..BlockBytes : j # 1 => e[j] = d[j]
  BY <1>1 DEF PakData, Damaged
<1>3. e \in PakData
  <2>1. (d[1] + 64) % 256 \in 0..255
    BY <1>2
  <2> QED
    BY <2>1 DEF PakData, Damaged
<1>4. Len(d) = BlockBytes /\ Len(e) = BlockBytes
  BY <1>1, <1>3 DEF PakData
<1>5. wrong \in {{2}, {1, 2}}
  BY DEF Wrong
<1> HIDE DEF e
<1>6. ASSUME NEW i \in 1..8 * BlockBytes
      PROVE  DataBits(e)[i] <=> (DataBits(d)[i] # (i \in wrong))
  <2> DEFINE j == 1 + ((i - 1) \div 8)
             k == 1 + ((i - 1) % 8)
  <2>1. /\ DataBits(e)[i] = Bits(e[j], 8)[k]
        /\ DataBits(d)[i] = Bits(d[j], 8)[k]
    BY <1>4 DEF DataBits
  <2>2. j \in 1..BlockBytes /\ k \in 1..8 /\ (j = 1 => k = i) /\ (j # 1 => i > 8)
    BY <1>1
  <2> HIDE DEF j, k, wrong
  <2>3. CASE j = 1
    <3>1. Bits(e[1], 8)[i] <=> (Bits(d[1], 8)[i] # (i \in wrong))
      <4>1. d[1] \in 0..255 /\ i \in 1..8 /\ e[1] = (d[1] + 64) % 256
        BY <1>2, <2>2, <2>3
      <4>2. DamagedBit(d[1], i)
        BY <4>1, DamagedBits, Zenon
      <4> QED
        BY <4>1, <4>2, Zenon DEF DamagedBit, wrong
    <3> QED
      BY <2>1, <2>2, <2>3, <3>1
  <2>4. CASE j # 1
    <3>1. e[j] = d[j]
      BY <1>2, <2>2, <2>4
    <3>2. i \notin wrong
      BY <1>5, <2>2, <2>4
    <3>3. Bits(d[j], 8)[k] \in BOOLEAN
      BY <2>2 DEF Bits
    <3> QED
      BY <2>1, <3>1, <3>2, <3>3
  <2> QED
    BY <2>3, <2>4
<1> HIDE DEF wrong
<1> QED
  BY <1>3, <1>5, <1>6 DEF e

(* Eight turns at once are the eight turns of the run. *)
LEMMA EightIs ==
    ASSUME NEW wrong, NEW f \in [0..8 -> Registers(8)],
           \A i \in 1..8 : f[i] = Shift(Poly8, f[i - 1], i \in wrong)
    PROVE  Eight(wrong)[f[0]] = f[8]
<1> DEFINE Rolled(g, i) == IF i = 0 THEN f[0] ELSE Shift(Poly8, g[i - 1], i \in wrong)
           in == CHOOSE g : g = [i \in 0..8 |-> Rolled(g, i)]
<1>1. f = [i \in 0..8 |-> Rolled(f, i)]
  <2>1. ASSUME NEW i \in 0..8 PROVE f[i] = Rolled(f, i)
    <3>1. i = 0 \/ i \in 1..8
      OBVIOUS
    <3> QED
      BY <3>1
  <2> HIDE DEF Rolled
  <2> QED
    BY <2>1
<1>2. f[0] \in [1..8 -> BOOLEAN]
  BY DEF Registers
<1>3. Eight(wrong)[f[0]] = in[8]
  BY <1>2 DEF Eight
<1> HIDE DEF Rolled
<1>4. in = [i \in 0..8 |-> Rolled(in, i)]
  BY <1>1
<1> HIDE DEF in
<1> DEFINE T == {i \in 0..8 : in[i] = f[i]}
<1>5. 0 \in T
  BY <1>4 DEF Rolled
<1>6. ASSUME NEW i \in 0..7, i \in T PROVE i + 1 \in T
  <2>1. i + 1 \in 1..8 /\ i + 1 \in 0..8 /\ i + 1 # 0 /\ (i + 1) - 1 = i
    OBVIOUS
  <2>2. in[i + 1] = Rolled(in, i + 1)
    BY <1>4, <2>1
  <2>3. in[i + 1] = Shift(Poly8, in[i], i + 1 \in wrong)
    BY <2>1, <2>2 DEF Rolled
  <2>4. f[i + 1] = Shift(Poly8, f[i], i + 1 \in wrong)
    BY <2>1
  <2> QED
    BY <1>6, <2>1, <2>3, <2>4
<1>7. 8 \in Nat /\ 8 - 1 = 7 /\ 8 \in 0..8
  OBVIOUS
<1>8. \A i \in 0..8 : i \in T
  <2> HIDE DEF T
  <2> QED
    BY <1>5, <1>6, <1>7, StepByStep
<1> QED
  BY <1>3, <1>7, <1>8

(* The register that the wrong bits alone leave, byte after byte. *)
LEMMA ErrorsAre ==
    ASSUME NEW bytes \in Nat, ErrorsTold(bytes), NEW wrong \in {{2}, {1, 2}}
    PROVE  Register(Poly8, [i \in 1..8 * bytes |-> i \in wrong])
             \notin {Zeros(8), [i \in 1..8 |-> i = 1]}
<1> DEFINE N == 8 * bytes
           message == [i \in 1..N |-> i \in wrong]
           Bytes(g, n) == IF n = 0 THEN Zeros(8) ELSE Eight(IF n = 1 THEN wrong ELSE {})[g[n - 1]]
           left == CHOOSE g : g = [n \in 0..bytes |-> Bytes(g, n)]
<1>1. N \in Nat /\ message \in [1..N -> BOOLEAN] /\ message \in Seq(BOOLEAN) /\ Len(message) = N
  OBVIOUS
<1>2. Poly8 \in Registers(8)
  BY DEF Poly8, Bits, Registers
<1>3. PICK f : /\ f \in [0..N -> Registers(8)] /\ f[0] = Zeros(8)
               /\ \A n \in 1..N : f[n] = Shift(Poly8, f[n - 1], n \in wrong)
               /\ Register(Poly8, message) = f[N]
  <2>1. \A n \in 1..N : message[n] = (n \in wrong)
    OBVIOUS
  <2> HIDE DEF message, N
  <2>2. 8 \in Nat /\ 8 > 0
    OBVIOUS
  <2>3. PICK f : RegisterRun(Poly8, message, 8, f) /\ Register(Poly8, message) = f[Len(message)]
    BY <1>1, <1>2, <2>2, RegisterRuns
  <2> QED
    BY <1>1, <2>1, <2>3 DEF RegisterRun
<1> DEFINE eights == [n \in 0..bytes |-> f[8 * n]]
<1>4. ASSUME NEW n \in 1..bytes
      PROVE  f[8 * n] = Eight(IF n = 1 THEN wrong ELSE {})[f[8 * (n - 1)]]
  <2> DEFINE set == IF n = 1 THEN wrong ELSE {}
             h == [i \in 0..8 |-> f[8 * (n - 1) + i]]
  <2>1. ASSUME NEW i \in 0..8 PROVE 8 * (n - 1) + i \in 0..N
    OBVIOUS
  <2>2. h \in [0..8 -> Registers(8)]
    BY <1>3, <2>1
  <2>3. ASSUME NEW i \in 1..8 PROVE h[i] = Shift(Poly8, h[i - 1], i \in set)
    <3> DEFINE k == 8 * (n - 1) + i
    <3>1. k \in 1..N /\ k - 1 = 8 * (n - 1) + (i - 1) /\ i \in 0..8 /\ i - 1 \in 0..8
      OBVIOUS
    <3>2. (k \in wrong) = (i \in set)
      <4>1. CASE n = 1
        BY <4>1
      <4>2. CASE n # 1
        <5>1. k > 8
          BY <4>2
        <5> QED
          BY <4>2, <5>1
      <4> QED
        BY <4>1, <4>2
    <3>3. h[i] = f[k] /\ h[i - 1] = f[k - 1]
      BY <3>1
    <3> HIDE DEF h, k, set
    <3>4. f[k] = Shift(Poly8, f[k - 1], k \in wrong)
      BY <1>3, <3>1
    <3> QED
      BY <3>2, <3>3, <3>4
  <2>4. h[0] = f[8 * (n - 1)] /\ h[8] = f[8 * n]
    <3>1. 8 * (n - 1) + 8 = 8 * n /\ 8 * (n - 1) + 0 = 8 * (n - 1)
      OBVIOUS
    <3> QED
      BY <3>1
  <2> HIDE DEF h, set
  <2>5. Eight(set)[h[0]] = h[8]
    BY <2>2, <2>3, EightIs
  <2> QED
    BY <2>4, <2>5 DEF set
<1>5. eights = [n \in 0..bytes |-> Bytes(eights, n)]
  <2>1. ASSUME NEW n \in 0..bytes PROVE eights[n] = Bytes(eights, n)
    <3>1. CASE n = 0
      <4>1. 8 * n = 0
        BY <3>1
      <4> QED
        BY <1>3, <3>1, <4>1
    <3>2. CASE n # 0
      <4>1. n \in 1..bytes /\ n - 1 \in 0..bytes
        BY <3>2
      <4>2. eights[n] = f[8 * n] /\ eights[n - 1] = f[8 * (n - 1)]
        BY <4>1
      <4> HIDE DEF eights
      <4> QED
        BY <1>4, <3>2, <4>1, <4>2
    <3> QED
      BY <3>1, <3>2
  <2>2. eights = [n \in 0..bytes |-> eights[n]]
    OBVIOUS
  <2> HIDE DEF eights, Bytes
  <2> QED
    BY <2>1, <2>2
<1>6. left[bytes] \notin {Zeros(8), [i \in 1..8 |-> i = 1]}
  BY DEF ErrorsTold
<1> HIDE DEF Bytes, message
<1>7. left = [n \in 0..bytes |-> Bytes(left, n)]
  <2> HIDE DEF eights
  <2> QED
    BY <1>5
<1> HIDE DEF left, N
<1> DEFINE T == {n \in 0..bytes : left[n] = eights[n]}
<1>8. 0 \in T
  <2>1. 0 \in 0..bytes
    OBVIOUS
  <2>2. left[0] = Bytes(left, 0) /\ eights[0] = Bytes(eights, 0)
    <3> HIDE DEF eights
    <3> QED
      BY <1>5, <1>7, <2>1
  <2> HIDE DEF eights
  <2> QED
    BY <2>1, <2>2 DEF Bytes
<1>9. ASSUME NEW n \in 0..(bytes - 1), n \in T PROVE n + 1 \in T
  <2>1. n + 1 \in 0..bytes /\ n + 1 # 0 /\ (n + 1) - 1 = n
    OBVIOUS
  <2> HIDE DEF eights
  <2>2. left[n + 1] = Bytes(left, n + 1) /\ eights[n + 1] = Bytes(eights, n + 1)
    BY <1>5, <1>7, <2>1
  <2>3. Bytes(left, n + 1) = Bytes(eights, n + 1)
    BY <1>9, <2>1 DEF Bytes
  <2> QED
    BY <2>1, <2>2, <2>3
<1>10. left[bytes] = eights[bytes]
  <2>1. \A n \in 0..bytes : n \in T
    <3> HIDE DEF T
    <3> QED
      BY <1>8, <1>9, StepByStep
  <2> QED
    BY <2>1
<1>11. eights[bytes] = f[N]
  BY DEF N
<1> HIDE DEF eights
<1> QED
  BY <1>3, <1>6, <1>10, <1>11 DEF message, N

(***************************************************************************)
(* The checksums tell a block from the block damaged, whatever the block,  *)
(* if the damage alone leaves neither a register of zeros nor one with     *)
(* only its first bit: the register is linear.                             *)
(***************************************************************************)
THEOREM ChecksumsTellHolds ==
    ASSUME ErrorsTold(BlockBytes)
    PROVE  ChecksumsTell
<1>1. BlockBytes \in Nat /\ 8 * BlockBytes \in Nat
  BY ChannelConstants
<1>2. Poly8 \in Registers(8) /\ Poly5 \in Registers(5)
  BY DEF Poly8, Poly5, Bits, Registers
<1>3. ASSUME NEW page \in Pages PROVE AddrCrc5(page) \in 0..31
  <2> DEFINE message == Bits(page, CORE_PAK_ADDR_BITS)
  <2>1. message \in [1..11 -> BOOLEAN]
    BY DEF Bits, CORE_PAK_ADDR_BITS
  <2> HIDE DEF message
  <2>2. message \in Seq(BOOLEAN) /\ Len(message) = 11
    <3>1. 11 \in Nat
      OBVIOUS
    <3> QED
      BY <2>1, <3>1, MessageIs, Zenon
  <2>3. \E f : RegisterRun(Poly5, message, 5, f) /\ Register(Poly5, message) = f[Len(message)]
    <3>1. 5 \in Nat /\ 5 > 0
      OBVIOUS
    <3> QED
      BY <1>2, <2>2, <3>1, RegisterRuns, Zenon
  <2>4. Register(Poly5, message) \in Registers(5)
    <3>1. PICK f : RegisterRun(Poly5, message, 5, f) /\ Register(Poly5, message) = f[Len(message)]
      BY <2>3
    <3> QED
      BY <2>2, <3>1 DEF RegisterRun
  <2> QED
    BY <2>4, NumberOf5 DEF AddrCrc5, message
<1>4. ASSUME NEW d \in PakData
      PROVE  DataCrc8(d) \in 0..255 /\ DataCrc8(Damaged(d)) \notin {DataCrc8(d), Inverted(DataCrc8(d))}
  <2> DEFINE N == 8 * BlockBytes
             R == Register(Poly8, DataBits(d))
             S == Register(Poly8, DataBits(Damaged(d)))
  <2>1. PICK wrong \in {{2}, {1, 2}} : \A i \in 1..N :
                 DataBits(Damaged(d))[i] <=> (DataBits(d)[i] # (i \in wrong))
    BY DamageIs
  <2> DEFINE message == [i \in 1..N |-> i \in wrong]
             E == Register(Poly8, message)
  <2>2. /\ DataBits(d) \in [1..N -> BOOLEAN] /\ DataBits(Damaged(d)) \in [1..N -> BOOLEAN]
        /\ message \in [1..N -> BOOLEAN]
    <3>1. ASSUME NEW b \in PakData PROVE DataBits(b) \in [1..N -> BOOLEAN]
      <4>1. Len(b) = BlockBytes
        BY <1>1 DEF PakData
      <4>2. ASSUME NEW i \in 1..N
            PROVE  Bits(b[1 + ((i - 1) \div 8)], 8)[1 + ((i - 1) % 8)] \in BOOLEAN
        <5>1. 1 + ((i - 1) % 8) \in 1..8
          BY <1>1
        <5> QED
          BY <5>1 DEF Bits
      <4> QED
        BY <4>1, <4>2 DEF DataBits
    <3> QED
      BY <3>1, DamageIs
  <2>3. \A i \in 1..N : message[i] = (i \in wrong)
    OBVIOUS
  <2> HIDE DEF message
  <2>4. /\ R \in Registers(8) /\ E \in Registers(8) /\ S = Added(8, R, E)
    <3> DEFINE m1 == DataBits(d)
               m3 == DataBits(Damaged(d))
    <3>1. Differs(N, m1, message, m3)
      BY <2>1, <2>3 DEF Differs
    <3>4. m1 \in [1..N -> BOOLEAN] /\ m3 \in [1..N -> BOOLEAN] /\ message \in [1..N -> BOOLEAN]
      BY <2>2
    <3> HIDE DEF m1, m3, N
    <3>2. N \in Nat /\ 8 \in Nat /\ 8 > 0
      BY <1>1 DEF N
    <3>3. /\ Register(Poly8, m1) \in Registers(8) /\ Register(Poly8, message) \in Registers(8)
          /\ Register(Poly8, m3) = Added(8, Register(Poly8, m1), Register(Poly8, message))
      <4>1. Poly8 \in Registers(8)
        BY <1>2
      <4> HIDE DEF R, S, E
      <4> QED
        BY <4>1, <3>1, <3>2, <3>4, RegisterLinear
    <3> QED
      BY <3>3 DEF m1, m3
  <2>5. E # Zeros(8) /\ E # TopBit
    BY <1>1, <2>1, ErrorsAre DEF TopBit, message
  <2>6. DataCrc8(d) = Number(R) /\ DataCrc8(Damaged(d)) = Number(S)
    BY DEF DataCrc8
  <2> HIDE DEF R, S, E
  <2>7. S \in Registers(8) /\ \A i \in 1..8 : S[i] <=> (R[i] # E[i])
    BY <2>4 DEF Added, Registers
  <2>8. Number(S) # Number(R)
    <3>1. ASSUME Number(S) = Number(R) PROVE FALSE
      <4>1. S = R
        BY <2>4, <2>7, <3>1, BitsTold
      <4>2. \A i \in 1..8 : E[i] = FALSE
        BY <2>4, <2>7, <4>1 DEF Registers
      <4>3. E = Zeros(8)
        BY <2>4, <4>2 DEF Registers, Zeros
      <4> QED
        BY <2>5, <4>3
    <3> QED
      BY <3>1
  <2>9. Number(S) # Inverted(Number(R))
    <3>1. ASSUME Number(S) = Inverted(Number(R)) PROVE FALSE
      <4>1. Added(8, R, TopBit) \in Registers(8) /\ Number(S) = Number(Added(8, R, TopBit))
        BY <2>4, <3>1, InvertedIs
      <4>2. S = Added(8, R, TopBit)
        BY <2>7, <4>1, BitsTold
      <4>3. \A i \in 1..8 : S[i] = (R[i] # (i = 1))
        BY <4>2 DEF Added, TopBit
      <4>4. \A i \in 1..8 : E[i] = (i = 1)
        BY <2>4, <2>7, <4>3 DEF Registers
      <4>5. E = TopBit
        BY <2>4, <4>4 DEF Registers, TopBit
      <4> QED
        BY <2>5, <4>5
    <3> QED
      BY <3>1
  <2>10. Number(R) \in 0..255
    BY <2>4, InvertedIs
  <2> QED
    BY <2>6, <2>8, <2>9, <2>10
<1> QED
  BY <1>3, <1>4 DEF ChecksumsTell
--------------------------------------------------------------------------------
(* What a request puts on the bus *)

LEMMA HalvesOf ==
    ASSUME NEW w \in Nat, w < 65536
    PROVE  w \div 256 \in Byte /\ w % 256 \in Byte /\ 256 * (w \div 256) + (w % 256) = w
<1>1. w \div 256 \in 0..255 /\ w % 256 \in 0..255
  OBVIOUS
<1>2. 256 * (w \div 256) + (w % 256) = w
  OBVIOUS
<1> QED
  BY <1>1, <1>2 DEF Byte

LEMMA AddressIs ==
    ASSUME ChecksumsTell, NEW page \in Pages
    PROVE  LET word == AddrEncode(page)
           IN  /\ word \div 256 \in Byte /\ word % 256 \in Byte
               /\ PageOf(word \div 256, word % 256) = page
<1> DEFINE word == AddrEncode(page)
           crc == AddrCrc5(page)
<1>1. page \in Nat /\ page < 2048
  BY ChannelConstants
<1>2. crc \in Nat /\ crc < 32
  BY DEF ChecksumsTell
<1>3. word = page * 32 + crc
  BY DEF AddrEncode
<1> HIDE DEF word, crc
<1>4. word \in Nat /\ word < 65536 /\ word \div 32 = page
  BY <1>1, <1>2, <1>3
<1> QED
  BY <1>4, HalvesOf DEF PageOf, word

LEMMA RequestIs ==
    ASSUME NEW req \in Requests
    PROVE  /\ req.op \in {"status", "read", "write", "passthru"}
           /\ req.op \in {"read", "write"} => req.page \in Pages
           /\ req.op = "write" => req.data \in Seq(Byte) /\ Len(req.data) = BlockBytes /\ req.data \in PakData
           /\ req.op = "passthru" => req.tx \in Seq(Byte)
           /\ BlockBytes \in Nat /\ BlockBytes >= 2
<1>1. BlockBytes \in Nat /\ BlockBytes >= 2
  BY ChannelConstants
<1>2. req.op = "write" => req.data \in Seq(Byte) /\ Len(req.data) = BlockBytes
  BY ChannelConstants DEF Byte
<1>3. req.op = "write" => req.data \in PakData
  BY <1>2, BlockIs, Zenon
<1>4. req.op = "passthru" => req.tx \in Seq(Byte)
  BY ChannelConstants DEF Byte
<1> QED
  BY <1>1, <1>2, <1>3, <1>4, ChannelConstants

LEMMA FrontIs ==
    ASSUME NEW S, NEW a \in S, NEW x \in S, NEW y \in S, NEW s, s = <<a>> \o <<x, y>>
    PROVE  s \in Seq(S) /\ Len(s) = 3 /\ s[1] = a /\ s[2] = x /\ s[3] = y
<1>1. /\ <<a>> \in Seq(S) /\ Len(<<a>>) = 1 /\ <<a>>[1] = a
      /\ <<x, y>> \in Seq(S) /\ Len(<<x, y>>) = 2 /\ <<x, y>>[1] = x /\ <<x, y>>[2] = y
  OBVIOUS
<1> DEFINE u == <<a>>
           v == <<x, y>>
<1>2. u \in Seq(S) /\ Len(u) = 1 /\ u[1] = a /\ v \in Seq(S) /\ Len(v) = 2 /\ v[1] = x /\ v[2] = y
  BY <1>1
<1>3. s = u \o v
  OBVIOUS
<1> HIDE DEF u, v
<1>4. /\ u \o v \in Seq(S) /\ Len(u \o v) = Len(u) + Len(v)
      /\ \A i \in 1..Len(u) + Len(v) : (u \o v)[i] = IF i <= Len(u) THEN u[i] ELSE v[i - Len(u)]
  BY <1>2, ConcatProperties
<1> QED
  BY <1>2, <1>3, <1>4

LEMMA ReadIs ==
    ASSUME ChecksumsTell, NEW req \in Requests, req.op = "read"
    PROVE  /\ Len(Tx(req)) = 3 /\ Tx(req)[1] = 2 /\ PageOf(Tx(req)[2], Tx(req)[3]) = req.page
           /\ RxLen(req) = ReadLen /\ ~N64Long(req)
<1> DEFINE hi == AddrEncode(req.page) \div 256
           lo == AddrEncode(req.page) % 256
<1>1. req.page \in Pages
  BY RequestIs
<1>2. hi \in Byte /\ lo \in Byte /\ PageOf(hi, lo) = req.page
  BY <1>1, AddressIs
<1>3. Tx(req) = <<2>> \o <<hi, lo>>
  BY DEF Tx
<1> HIDE DEF hi, lo
<1>4. 2 \in Byte
  BY DEF Byte
<1>5. Len(Tx(req)) = 3 /\ Tx(req)[1] = 2 /\ Tx(req)[2] = hi /\ Tx(req)[3] = lo
  BY <1>2, <1>3, <1>4, FrontIs
<1> QED
  BY <1>2, <1>5 DEF RxLen, N64Long

LEMMA WriteIs ==
    ASSUME ChecksumsTell, NEW req \in Requests, req.op = "write"
    PROVE  /\ Len(Tx(req)) = WriteLen /\ Tx(req)[1] = 3 /\ PageOf(Tx(req)[2], Tx(req)[3]) = req.page
           /\ SubSeq(Tx(req), 4, WriteLen) = req.data
           /\ Tx(req) \in Seq(Byte) /\ RxLen(req) = 1 /\ N64Long(req)
<1> DEFINE hi == AddrEncode(req.page) \div 256
           lo == AddrEncode(req.page) % 256
           front == <<3>> \o <<hi, lo>>
           data == req.data
           b == front \o data
<1>1. /\ req.page \in Pages /\ data \in Seq(Byte) /\ Len(data) = BlockBytes
      /\ BlockBytes \in Nat /\ BlockBytes >= 2
  BY RequestIs
<1>2. hi \in Byte /\ lo \in Byte /\ PageOf(hi, lo) = req.page
  BY <1>1, AddressIs
<1>3. Tx(req) = b
  BY DEF Tx
<1> HIDE DEF hi, lo, data
<1>4. /\ front \in Seq(Byte) /\ Len(front) = 3
      /\ front[1] = 3 /\ front[2] = hi /\ front[3] = lo
  <2>1. 3 \in Byte
    BY DEF Byte
  <2> QED
    BY <1>2, <2>1, FrontIs
<1> HIDE DEF front
<1>5. /\ b \in Seq(Byte) /\ Len(b) = Len(front) + Len(data)
      /\ \A i \in 1..Len(front) + Len(data) : b[i] = IF i <= Len(front) THEN front[i] ELSE data[i - Len(front)]
  BY <1>1, <1>4, ConcatProperties
<1> HIDE DEF b
<1>6. Len(b) = WriteLen /\ WriteLen = BlockBytes + 3 /\ WriteLen \in Nat /\ WriteLen >= 5
  BY <1>1, <1>4, <1>5 DEF WriteLen
<1>7. b[1] = 3 /\ b[2] = hi /\ b[3] = lo /\ \A i \in 1..BlockBytes : b[i + 3] = data[i]
  BY <1>1, <1>4, <1>5
<1>8. SubSeq(b, 4, WriteLen) = data
  <2> DEFINE s == SubSeq(b, 4, WriteLen)
  <2>1. \A i \in 4..WriteLen : b[i] \in Byte
    BY <1>5, <1>6, ElementOfSeq
  <2>2. 4 \in Int /\ WriteLen \in Int
    BY <1>6
  <2>3. /\ s \in Seq(Byte)
        /\ Len(s) = IF 4 <= WriteLen THEN WriteLen - 4 + 1 ELSE 0
        /\ \A i \in 1..WriteLen - 4 + 1 : s[i] = b[4 + i - 1]
    BY <2>1, <2>2, SubSeqProperties
  <2> HIDE DEF s
  <2>4. Len(s) = BlockBytes /\ \A i \in 1..BlockBytes : s[i] = data[i]
    BY <1>1, <1>6, <1>7, <2>3
  <2>5. s = data
    BY <1>1, <2>3, <2>4, SeqEqual
  <2> QED
    BY <2>5 DEF s
<1> QED
  BY <1>2, <1>3, <1>5, <1>6, <1>7, <1>8 DEF RxLen, N64Long, data

(* A request that is as long as a write is a sequence of bytes. *)
LEMMA RequestBytes ==
    ASSUME ChecksumsTell, NEW req \in Requests, Len(Tx(req)) = WriteLen
    PROVE  Tx(req) \in Seq(Byte)
<1>1. WriteLen \in Nat /\ WriteLen >= 5
  BY ChannelConstants DEF WriteLen
<1>2. req.op # "status"
  <2>1. ASSUME req.op = "status" PROVE Len(Tx(req)) = 1
    BY <2>1 DEF Tx
  <2> QED
    BY <1>1, <2>1
<1>3. req.op # "read"
  BY <1>1, ReadIs
<1>4. CASE req.op = "write"
  BY <1>4, WriteIs
<1>5. CASE req.op = "passthru"
  BY <1>5, RequestIs DEF Tx
<1> QED
  BY <1>2, <1>3, <1>4, <1>5, RequestIs

(* What a write of bytes leaves in a page. *)
LEMMA BlockOfBytes ==
    ASSUME NEW b \in Seq(Byte), Len(b) = WriteLen
    PROVE  SubSeq(b, 4, WriteLen) \in PakData
<1> DEFINE s == SubSeq(b, 4, WriteLen)
<1>1. BlockBytes \in Nat /\ WriteLen = BlockBytes + 3
  BY ChannelConstants DEF WriteLen
<1>2. \A i \in 4..WriteLen : b[i] \in Byte
  BY <1>1, ElementOfSeq
<1>3. 4 \in Int /\ WriteLen \in Int
  BY <1>1
<1>4. s \in Seq(Byte) /\ Len(s) = IF 4 <= WriteLen THEN WriteLen - 4 + 1 ELSE 0
  BY <1>2, <1>3, SubSeqProperties
<1> HIDE DEF s
<1>5. Len(s) = BlockBytes
  BY <1>1, <1>4
<1>6. s \in PakData
  <2>1. s \in Seq(Byte)
    BY <1>4
  <2> QED
    BY <1>5, <2>1, BlockIs, Zenon
<1> QED
  BY <1>6 DEF s
--------------------------------------------------------------------------------
(* What a request is told *)

(* The reply put the right way round, if its status byte is as it should be. *)
Turned(req, stage) ==
    LET status == stage[1]
        ok == IF N64Long(req) THEN status >= 128 /\ status % 64 = RxLen(req) ELSE status # 0
    IN  IF ok THEN Reverse(Tail(stage)) ELSE <<>>

LEMMA NothingTold ==
    ASSUME NEW req \in Requests, req.op \in {"read", "write"}
    PROVE  Verdict(req, <<>>) # "SUCCESS"
<1>1. RxLen(req) # 0
  BY RequestIs DEF RxLen, ReadLen
<1>2. Len(<<>>) # RxLen(req)
  BY <1>1
<1>3. Verdict(req, <<>>) = "DATA_ERROR"
  BY <1>2 DEF Verdict
<1> QED
  BY <1>3

(* The echo of a write agrees with its block only if the page took it. *)
LEMMA EchoTold ==
    ASSUME ChecksumsTell, NEW req \in Requests, req.op = "write", NEW answer, NEW h,
           Echoes(answer, req.data, h), NEW corrupt \in BOOLEAN, NEW f, f.what = "fetch", f.rep = RxLen(req),
           Verdict(req, Turned(req, DataStage(f, answer, corrupt))) = "SUCCESS"
    PROVE  req.data \in h
<1> DEFINE crc == DataCrc8(req.data)
           stage == DataStage(f, answer, corrupt)
           data == Turned(req, stage)
<1>1. RxLen(req) = 1 /\ f.rep = 1 /\ N64Long(req)
  BY WriteIs
<1>2. crc \in Byte /\ Inverted(crc) \in Byte /\ Inverted(crc) # crc
  <2>1. req.data \in PakData
    BY RequestIs
  <2>2. crc \in 0..255
    BY <2>1 DEF ChecksumsTell
  <2> HIDE DEF crc
  <2>3. Inverted(crc) \in 0..255 /\ Inverted(crc) # crc
    BY <2>2 DEF Inverted
  <2> QED
    BY <2>2, <2>3 DEF Byte
<1>3. data # <<>>
  BY NothingTold
<1>4. answer # <<>>
  <2>1. ASSUME answer = <<>> PROVE FALSE
    <3>1. stage[1] = 0
      BY <1>1, <2>1, SilentIs
    <3> HIDE DEF stage
    <3> QED
      BY <1>1, <1>3, <3>1 DEF Turned
  <2> QED
    BY <2>1
<1>5. PICK x \in Byte : answer = <<x>> /\ (x = Inverted(crc) \/ (x = crc /\ req.data \in h))
  BY <1>2, <1>4 DEF Echoes
<1>6. answer \in Seq(Byte) /\ Len(answer) = 1 /\ answer[1] = x
  BY <1>5
<1>7. data = IF corrupt THEN Damaged(answer) ELSE answer
  <2>1. stage[1] = 129 /\ Reverse(Tail(stage)) = IF corrupt THEN Damaged(answer) ELSE answer
    <3>1. f.rep \in Nat \ {0} /\ Len(answer) = f.rep /\ 128 + f.rep = 129
      BY <1>1, <1>6
    <3> QED
      BY <1>6, <3>1, StageIs
  <2> HIDE DEF stage
  <2> QED
    BY <1>1, <2>1 DEF Turned
<1>8. data[1] = crc
  <2> HIDE DEF data, crc
  <2>1. CrcVerdict(DataCrc8(req.data), data[1]) = "SUCCESS"
    BY DEF Verdict, data
  <2> QED
    BY <2>1 DEF CrcVerdict, crc
<1> HIDE DEF data, crc
<1>9. data[1] = IF corrupt THEN (x + 64) % 256 ELSE x
  BY <1>6, <1>7 DEF Damaged
<1>10. x # Inverted(crc)
  <2>1. \A y \in 0..255 : (Inverted(y) + 64) % 256 # y
    BY DEF Inverted
  <2> QED
    BY <1>2, <1>8, <1>9, <2>1 DEF Byte
<1> QED
  BY <1>5, <1>10 DEF crc

(* A block read is what the page holds, if its checksum agrees. *)
LEMMA BlockTold ==
    ASSUME ChecksumsTell, NEW req \in Requests, req.op = "read", NEW d \in PakData,
           NEW x \in {DataCrc8(d), Inverted(DataCrc8(d))},
           NEW corrupt \in BOOLEAN, NEW f, f.what = "short", f.rep = RxLen(req),
           Verdict(req, Turned(req, DataStage(f, d \o <<x>>, corrupt))) = "SUCCESS"
    PROVE  SubSeq(Turned(req, DataStage(f, d \o <<x>>, corrupt)), 1, BlockBytes) = d
<1> DEFINE reply == d \o <<x>>
           stage == DataStage(f, reply, corrupt)
           data == Turned(req, stage)
<1>1. RxLen(req) = ReadLen /\ ~N64Long(req) /\ ReadLen = BlockBytes + 1 /\ BlockBytes \in Nat /\ BlockBytes >= 2
  BY ReadIs, RequestIs DEF ReadLen
<1>2. x \in Byte /\ d \in Seq(Byte) /\ Len(d) = BlockBytes
  <2>1. DataCrc8(d) \in 0..255
    BY DEF ChecksumsTell
  <2>2. Inverted(DataCrc8(d)) \in 0..255
    BY <2>1 DEF Inverted
  <2>3. d \in [1..BlockBytes -> Byte]
    BY DEF PakData, Byte
  <2>4. d \in Seq(Byte) /\ Len(d) = BlockBytes
    BY <1>1, <2>3, SequenceIs
  <2> QED
    BY <2>1, <2>2, <2>4 DEF Byte
<1>3. /\ reply \in Seq(Byte) /\ Len(reply) = ReadLen /\ reply[ReadLen] = x
      /\ \A i \in 1..BlockBytes : reply[i] = d[i]
  <2> DEFINE u == <<x>>
  <2>1. u \in Seq(Byte) /\ Len(u) = 1 /\ u[1] = x
    BY <1>2
  <2> HIDE DEF u
  <2>2. /\ d \o u \in Seq(Byte) /\ Len(d \o u) = Len(d) + Len(u)
        /\ \A i \in 1..Len(d) + Len(u) : (d \o u)[i] = IF i <= Len(d) THEN d[i] ELSE u[i - Len(d)]
    BY <1>2, <2>1, ConcatProperties
  <2>3. /\ d \o u \in Seq(Byte) /\ Len(d \o u) = ReadLen /\ (d \o u)[ReadLen] = x
        /\ \A i \in 1..BlockBytes : (d \o u)[i] = d[i]
    BY <1>1, <1>2, <2>1, <2>2
  <2> QED
    BY <2>3 DEF u
<1> HIDE DEF reply
<1>4. data = IF corrupt THEN Damaged(reply) ELSE reply
  <2>1. f.rep \in Nat \ {0} /\ Len(reply) = f.rep
    BY <1>1, <1>3
  <2>2. stage[1] = ReadLen /\ Reverse(Tail(stage)) = IF corrupt THEN Damaged(reply) ELSE reply
    BY <1>1, <1>3, <2>1, StageIs
  <2> HIDE DEF stage
  <2> QED
    BY <1>1, <2>2 DEF Turned
<1> DEFINE s == SubSeq(data, 1, BlockBytes)
           e == IF corrupt THEN Damaged(d) ELSE d
<1>5. \A i \in 1..BlockBytes : data[i] = e[i]
  <2>1. DOMAIN reply = 1..ReadLen /\ DOMAIN d = 1..BlockBytes
    BY <1>2, <1>3, LenProperties
  <2> HIDE DEF data
  <2> QED
    BY <1>1, <1>3, <1>4, <2>1 DEF Damaged
<1>6. e \in PakData
  <2>1. Damaged(d) \in PakData /\ d \in PakData
    BY <1>1, DamageIs
  <2> QED
    BY <2>1
<1>7. e \in Seq(Byte) /\ Len(e) = BlockBytes
  <2> HIDE DEF e
  <2>1. e \in [1..BlockBytes -> Byte]
    BY <1>6 DEF PakData, Byte
  <2> QED
    BY <1>1, <2>1, SequenceIs
<1>8. s = e
  <2> HIDE DEF data, e
  <2>1. \A i \in 1..BlockBytes : data[i] \in Byte
    BY <1>5, <1>7, ElementOfSeq
  <2>2. 1 \in Int /\ BlockBytes \in Int
    BY <1>1
  <2>3. /\ s \in Seq(Byte) /\ Len(s) = IF 1 <= BlockBytes THEN BlockBytes - 1 + 1 ELSE 0
        /\ \A i \in 1..BlockBytes - 1 + 1 : s[i] = data[1 + i - 1]
    BY <2>1, <2>2, SubSeqProperties
  <2> HIDE DEF s
  <2>4. Len(s) = BlockBytes /\ \A i \in 1..BlockBytes : s[i] = e[i]
    BY <1>1, <1>5, <2>3
  <2> QED
    BY <1>7, <2>3, <2>4, SeqEqual
<1>9. DataCrc8(e) = x
  <2>1. data[ReadLen] = x /\ Len(data) = ReadLen
    <3>1. DOMAIN reply = 1..ReadLen
      BY <1>3, LenProperties
    <3>2. corrupt => Damaged(reply) \in Seq(Byte) /\ Len(Damaged(reply)) = Len(reply)
      <4>1. 1 \in 1..Len(reply)
        BY <1>1, <1>3
      <4>2. \A y \in 0..255 : (y + 64) % 256 \in 0..255
        OBVIOUS
      <4>3. reply[1] \in Byte
        BY <1>3, <4>1, ElementOfSeq
      <4>4. (reply[1] + 64) % 256 \in Byte
        BY <4>2, <4>3 DEF Byte
      <4> QED
        BY <1>3, <4>1, <4>4, ExceptSeq DEF Damaged
    <3>3. Damaged(reply)[ReadLen] = reply[ReadLen]
      BY <1>1, <3>1 DEF Damaged
    <3> HIDE DEF data
    <3> QED
      BY <1>3, <1>4, <3>2, <3>3
  <2>4. Verdict(req, data) = "SUCCESS"
    BY DEF reply
  <2> HIDE DEF data, s, e
  <2>2. CrcVerdict(ReadCrc(data), data[ReadLen]) = "SUCCESS"
    BY <1>1, <2>1, <2>4 DEF Verdict
  <2>3. ReadCrc(data) = data[ReadLen]
    BY <2>2 DEF CrcVerdict
  <2> QED
    BY <1>8, <2>1, <2>3 DEF ReadCrc, s
<1>10. ~corrupt
  BY <1>9 DEF ChecksumsTell
<1> QED
  BY <1>8, <1>10 DEF reply
--------------------------------------------------------------------------------
(* The steps of others *)

LEMMA ReplyIs == \A c \in Clients : N64Reply(c) = Turned(cl[c].req, rx[c])
BY DEF N64Reply, Turned

(* A step that leaves a device's request and its echo alone. *)
LEMMA DeviceStays ==
    ASSUME NEW c \in Devices, DeviceInv(c), cl'[c] = cl[c], rx'[c] = rx[c], result'[c] = result[c],
           held[c] \subseteq held'[c], c \in echo'.own => c \in echo.own,
           flight'.by = c => flight' = flight,
           cl[c].at # "idle" /\ echo'.of = c => echo.of = c /\ controller'.answer = controller.answer
    PROVE  DeviceInv(c)'
<1>1. N64Reply(c)' = N64Reply(c)
  BY DEF N64Reply
<1>2. ASSUME NEW req, NEW data, Tells(c, req, data)
      PROVE  Verdict(req, data) = "SUCCESS" =>
                /\ req.op = "read" => SubSeq(data, 1, BlockBytes) \in held'[c]
                /\ req.op = "write" /\ c \in echo'.own => req.data \in held'[c]
  BY <1>2 DEF Tells
<1>3. Answered(c)'
  BY <1>2 DEF DeviceInv, Answered, Tells
<1>4. ASSUME cl[c].at # "idle" PROVE Underway(c)'
  <2>1. Underway(c)
    BY <1>4 DEF DeviceInv
  <2>2. Tells(c, cl[c].req, N64Reply(c))'
    BY <1>1, <1>2, <2>1 DEF Underway, Tells
  <2>3. cl[c].req.op = "write" /\ echo'.of = c => Echoes(controller'.answer, cl[c].req.data, held'[c])
    BY <1>4, <2>1 DEF Underway, Echoes
  <2>4. Unfetched(c)'
    BY <2>1 DEF Underway, Unfetched
  <2>5. Undelivered(c)'
    BY <1>1, <2>1 DEF Underway, Undelivered
  <2> QED
    BY <2>1, <2>2, <2>3, <2>4, <2>5 DEF Underway
<1>5. Outstanding(c)'
  BY DEF DeviceInv, Outstanding, N64Form, Delivers
<1> QED
  BY <1>3, <1>4, <1>5 DEF DeviceInv

(* What no device sees: a step of the channel, of the core or of the world. *)
LEMMA OthersKeepPak ==
    ASSUME PakInv, UNCHANGED <<rx, held, echo>>,
           Memory', controller'.answer = controller.answer,
           \A c \in Devices : cl'[c] = cl[c] /\ result'[c] = result[c],
           Heard(flight)', flight'.by \in Devices => flight' = flight,
           \A c \in ChannelClients : Unsent(c)'
    PROVE  PakInv'
<1>1. ASSUME NEW c \in Devices PROVE DeviceInv(c)'
  BY DeviceStays DEF PakInv
<1> QED
  BY <1>1 DEF PakInv

(* The transfer that is out stays what it was. *)
LEMMA HeardStays ==
    ASSUME Heard(flight), flight' = flight
    PROVE  Heard(flight)'
BY DEF Heard

LEMMA CoreIsHeard ==
    ASSUME flight'.by \in {CoreOwn, Nobody}, flight'.what # "out"
    PROVE  Heard(flight)'
<1>1. flight'.by \notin Clients
  BY ChannelConstants DEF CoreOwn, Nobody
<1> QED
  BY <1>1 DEF Heard

LEMMA UnsentStays ==
    ASSUME NEW c, Unsent(c), UNCHANGED <<channel, buf>>, cl'[c] = cl[c]
    PROVE  Unsent(c)'
<1>1. Entry(c)' = Entry(c)
  BY DEF Entry, Block
<1> QED
  BY <1>1 DEF Unsent, Long

LEMMA WorldKeepsPak ==
    ASSUME PakInv,
           CoreSends \/ EventSet \/ Packet \/ AccessoryChanges \/ InterfaceChanges \/ UNCHANGED channelVars
    PROVE  PakInv'
<1>1. UNCHANGED <<channel, buf, cl, rx, result, held, echo>>
  BY DEF CoreSends, EventSet, Packet, AccessoryChanges, InterfaceChanges, channelVars, histVars
<1>2. Memory' /\ controller'.answer = controller.answer
  <2>1. CASE AccessoryChanges
    <3>1. controller' = [controller EXCEPT !.status = IF @ = 0 THEN 3 ELSE 0]
      BY <2>1 DEF AccessoryChanges
    <3> QED
      BY <3>1 DEF PakInv, Memory
  <2>2. CASE controller' = controller
    BY <2>2 DEF PakInv, Memory
  <2> QED
    BY <2>1, <2>2 DEF CoreSends, EventSet, Packet, InterfaceChanges, channelVars, envVars
<1>3. Heard(flight)' /\ (flight'.by \in Devices => flight' = flight)
  <2>1. CASE CoreSends
    <3>1. flight'.by = CoreOwn /\ flight'.what = "core"
      BY <2>1 DEF CoreSends, PutOnBus, NoFlight
    <3> QED
      BY <3>1, CoreIsHeard, ChannelConstants DEF Devices, CoreOwn
  <2>2. CASE flight' = flight
    BY <2>2, HeardStays DEF PakInv
  <2> QED
    BY <2>1, <2>2 DEF EventSet, Packet, AccessoryChanges, InterfaceChanges, channelVars, slotVars
<1>4. \A c \in ChannelClients : Unsent(c)'
  BY <1>1, UnsentStays DEF PakInv
<1> QED
  BY <1>1, <1>2, <1>3, <1>4, OthersKeepPak
(* A step of the one client of the channel. *)
LEMMA WriterKeepsPak ==
    ASSUME PakInv, OneWriter, NEW c \in ChannelClients, UNCHANGED <<rx, controller, held, echo>>,
           \A d \in Clients \ {c} : cl'[d] = cl[d] /\ result'[d] = result[d],
           Heard(flight)', flight'.by \in Devices => flight' = flight, Unsent(c)'
    PROVE  PakInv'
<1>1. Memory' /\ controller'.answer = controller.answer
  BY DEF PakInv, Memory
<1>2. \A d \in Devices : cl'[d] = cl[d] /\ result'[d] = result[d]
  BY DEF Devices
<1>3. \A d \in ChannelClients : Unsent(d)'
  <2>1. \A d \in ChannelClients : d = c
    BY DEF OneWriter
  <2> QED
    BY <2>1
<1> QED
  BY <1>1, <1>2, <1>3, OthersKeepPak

(* Where the walk is after a step that sends nothing. *)
LEMMA WalkerIsAt ==
    ASSUME ChannelInv, NEW c \in ChannelClients,
           \/ CmdWrite(c) \/ CmdRead(c) \/ CmdOtherLength(c) \/ WalkEnds(c) \/ WalkPadding(c)
           \/ WalkStructural(c) \/ WalkLocal(c) \/ CallOver(c) \/ ExecFinish(c)
    PROVE  /\ cl'[c].at \notin {"reset", "send"} /\ UNCHANGED <<rx, controller, held, echo>>
           /\ \A d \in Clients \ {c} : cl'[d] = cl[d] /\ result'[d] = result[d]
           /\ flight' = flight \/ (flight'.by = CoreOwn /\ flight'.what # "out")
<1>1. c \in Clients /\ DOMAIN cl = Clients /\ DOMAIN result = Clients /\ DOMAIN cl[c] = WalkFields
  BY ChannelConstants DEF ChannelInv, Places
<1>2. UNCHANGED <<rx, controller, held, echo>>
  BY DEF CmdWrite, CmdRead, CmdOtherLength, WalkEnds, WalkPadding, WalkStructural, WalkLocal, CallOver,
         ExecFinish, envVars, histVars
<1>3. \A d \in Clients \ {c} : result'[d] = result[d]
  BY <1>1 DEF CmdWrite, CmdRead, CmdOtherLength, WalkEnds, WalkPadding, WalkStructural, WalkLocal, CallOver,
         ExecFinish, Answer
<1>4. \A d \in Clients \ {c} : cl'[d] = cl[d]
  BY <1>1 DEF CmdWrite, CmdRead, CmdOtherLength, WalkEnds, WalkPadding, WalkStructural, WalkLocal, CallOver,
         ExecFinish, Stop
<1>5. flight' = flight \/ (flight'.by = CoreOwn /\ flight'.what # "out")
  <2>1. CASE WalkLocal(c)
    <3>1. ASSUME NEW on, SetDeviceEnable(on) PROVE flight' = flight \/ (flight'.by = CoreOwn /\ flight'.what # "out")
      BY <3>1 DEF SetDeviceEnable, PutOnBus, NoFlight
    <3> QED
      BY <2>1, <3>1 DEF WalkLocal, slotVars
  <2> QED
    BY <2>1 DEF CmdWrite, CmdRead, CmdOtherLength, WalkEnds, WalkPadding, WalkStructural, CallOver,
         ExecFinish, slotVars
<1>6. cl'[c].at \notin {"reset", "send"}
  <2>1. \A e : Advanced(cl[c], e).at = "walk"
    BY <1>1 DEF Advanced, WalkFields
  <2>2. CASE CmdWrite(c) \/ CmdRead(c) \/ CmdOtherLength(c)
    <3>1. cl[c].at = "idle"
      BY <2>2 DEF CmdWrite, CmdRead, CmdOtherLength, May
    <3>2. CASE CmdOtherLength(c)
      BY <3>1, <3>2 DEF CmdOtherLength
    <3>3. CASE CmdWrite(c)
      <4> DEFINE l == [Away EXCEPT !.at = "walk"]
      <4>1. l.at = "walk"
        BY DEF Away
      <4> HIDE DEF l
      <4>2. cl' = [cl EXCEPT ![c] = l] \/ cl' = cl
        BY <3>3 DEF CmdWrite, l
      <4> QED
        BY <1>1, <3>1, <4>1, <4>2
    <3>4. CASE CmdRead(c)
      <4> DEFINE l == [Away EXCEPT !.at = IF channel.block.go = 1 THEN "walk" ELSE "over", !.pass = 1]
      <4>1. l.at \in {"walk", "over"}
        BY DEF Away
      <4> HIDE DEF l
      <4>2. cl' = [cl EXCEPT ![c] = l]
        BY <3>4 DEF CmdRead, l
      <4> QED
        BY <1>1, <4>1, <4>2
    <3> QED
      BY <2>2, <3>2, <3>3, <3>4
  <2>3. CASE WalkEnds(c) \/ WalkStructural(c)
    BY <1>1, <2>3 DEF WalkEnds, WalkStructural, Stop, WalkFields
  <2>4. CASE WalkPadding(c)
    BY <1>1, <2>1, <2>4 DEF WalkPadding
  <2>5. CASE WalkLocal(c)
    BY <1>1, <2>1, <2>5 DEF WalkLocal
  <2>6. CASE ExecFinish(c)
    BY <1>1, <2>1, <2>6 DEF ExecFinish
  <2>7. CASE CallOver(c)
    BY <1>1, <2>7 DEF CallOver, Away
  <2> QED
    BY <2>2, <2>3, <2>4, <2>5, <2>6, <2>7
<1> QED
  BY <1>2, <1>3, <1>4, <1>5, <1>6

LEMMA WalkKeepsPak ==
    ASSUME ChannelInv, PakInv, OneWriter, NEW c \in ChannelClients,
           \/ CmdWrite(c) \/ CmdRead(c) \/ CmdOtherLength(c) \/ WalkEnds(c) \/ WalkPadding(c)
           \/ WalkStructural(c) \/ WalkLocal(c) \/ CallOver(c) \/ ExecFinish(c)
    PROVE  PakInv'
<1>1. /\ cl'[c].at \notin {"reset", "send"} /\ UNCHANGED <<rx, controller, held, echo>>
      /\ \A d \in Clients \ {c} : cl'[d] = cl[d] /\ result'[d] = result[d]
      /\ flight' = flight \/ (flight'.by = CoreOwn /\ flight'.what # "out")
  BY WalkerIsAt
<1>2. Unsent(c)'
  BY <1>1 DEF Unsent
<1>3. Heard(flight)'
  BY <1>1, HeardStays, CoreIsHeard DEF PakInv, Devices
<1>4. flight'.by \in Devices => flight' = flight
  BY <1>1, ChannelConstants DEF Devices, CoreOwn
<1> QED
  BY <1>1, <1>2, <1>3, <1>4, WriterKeepsPak

LEMMA ExecClaimKeepsPak ==
    ASSUME ChannelInv, PakInv, OneWriter, NEW c \in ChannelClients, ExecClaim(c)
    PROVE  PakInv'
<1> DEFINE e == [Entry(c) EXCEPT !.failed = FALSE]
<1>1. /\ c \in Clients /\ DOMAIN cl = Clients /\ DOMAIN cl[c] = WalkFields /\ DOMAIN result = Clients
      /\ cl[c].pass \in {0, 1} /\ DOMAIN buf = Clients /\ DOMAIN channel = {"block", "swap"}
  BY ChannelConstants DEF ChannelInv, Places
<1>2. /\ AtEntry(c) /\ cl[c].at = "walk" /\ SetEntry(c, e)
      /\ UNCHANGED <<rx, controller, held, echo, flight, result>>
  BY DEF ExecClaim, OnTheWire, AtCommand, AtEntry, envVars, histVars
<1>3. /\ \A d \in Clients \ {c} : cl'[d] = cl[d]
      /\ cl'[c].at = "reset" => cl'[c].i = cl[c].i /\ cl'[c].pass = cl[c].pass
  <2>1. CASE slot = "FREE"
    BY <1>1, <2>1 DEF ExecClaim, WalkFields
  <2>2. CASE slot # "FREE"
    <3>1. cl' = [cl EXCEPT ![c] = Advanced(cl[c], e)]
      BY <2>2 DEF ExecClaim
    <3>2. Advanced(cl[c], e).at = "walk"
      BY <1>1 DEF Advanced, WalkFields
    <3> HIDE DEF e
    <3> QED
      BY <1>1, <3>1, <3>2
  <2> QED
    BY <2>1, <2>2
<1>4. PICK w \in Written : Walked(Block(c), w, cl[c])
  BY <1>1, <1>2 DEF ChannelInv, InChannel, InRead, Block
<1>5. /\ cl[c].i \in 1..Len(w.entries) /\ Follows(Block(c), w, 0)
      /\ DOMAIN Entry(c) = EntryFields /\ Entry(c).bytes = w.entries[cl[c].i].bytes
  BY <1>2, <1>4, EntryIs
<1>6. Entry(c).bytes \in Seq(Byte)
  <2> DEFINE S == [cmd : 0..255, rep : 0..255, bytes : Seq(0..255), failed : BOOLEAN, reply : Seq(0..255)]
  <2>1. w.entries \in Seq(S)
    BY EntriesAre
  <2>2. \A r \in S : r.bytes \in Seq(Byte)
    BY DEF Byte
  <2> HIDE DEF S
  <2>3. w.entries[cl[c].i] \in S
    BY <1>5, <2>1, ElementOfSeq
  <2> QED
    BY <1>5, <2>2, <2>3
<1>7. ASSUME cl'[c].at = "reset" PROVE Entry(c)'.bytes = Entry(c).bytes
  <2>1. cl'[c].i = cl[c].i /\ cl'[c].pass = cl[c].pass
    BY <1>3, <1>7
  <2>2. DOMAIN Block(c) = BlockFields /\ cl[c].i \in DOMAIN Block(c).entries
    <3>1. Block(c).entries \in Seq(ToSet(Block(c).entries)) /\ Len(Block(c).entries) = Len(w.entries)
      BY <1>5 DEF Follows
    <3>2. DOMAIN Block(c).entries = 1..Len(w.entries)
      BY <3>1, LenProperties
    <3> QED
      BY <1>5, <3>2 DEF Follows
  <2>3. e.bytes = Entry(c).bytes
    BY <1>5 DEF EntryFields
  <2> DEFINE b == [Block(c) EXCEPT !.entries[cl[c].i] = e]
  <2>4. b.entries[cl[c].i] = e
    BY <2>2 DEF BlockFields
  <2>5. Becomes(c, b)
    BY <1>2, SetIs
  <2> HIDE DEF b, e
  <2>6. Block(c)' = b
    BY <1>1, <2>1, <2>5 DEF Becomes, Block
  <2>7. Entry(c)' = e
    BY <2>1, <2>4, <2>6 DEF Entry
  <2> QED
    BY <2>3, <2>7
<1>10. cl'[c].at # "send"
  <2>1. CASE slot = "FREE"
    BY <1>1, <2>1 DEF ExecClaim, WalkFields
  <2>2. CASE slot # "FREE"
    <3>1. cl' = [cl EXCEPT ![c] = Advanced(cl[c], e)]
      BY <2>2 DEF ExecClaim
    <3>2. Advanced(cl[c], e).at = "walk"
      BY <1>1 DEF Advanced, WalkFields
    <3> HIDE DEF e
    <3> QED
      BY <1>1, <3>1, <3>2
  <2> QED
    BY <2>1, <2>2
<1>8. Unsent(c)'
  BY <1>6, <1>7, <1>10 DEF Unsent
<1>9. Heard(flight)'
  BY <1>2, <1>3, HeardStays DEF PakInv, Devices
<1> QED
  BY <1>2, <1>3, <1>8, <1>9, WriterKeepsPak

LEMMA CmdKeepKeepsPak ==
    ASSUME ChannelInv, PakInv, OneWriter, NEW c \in ChannelClients, CmdKeep(c)
    PROVE  PakInv'
<1>1. /\ c \in Clients /\ DOMAIN cl = Clients /\ DOMAIN cl[c] = WalkFields
  BY ChannelConstants DEF ChannelInv, Places
<1>2. /\ Long(Entry(c)) /\ cl' = [cl EXCEPT ![c].at = "reset", ![c].half = 2]
      /\ UNCHANGED <<rx, controller, held, echo, flight, result, channel, buf>>
  BY DEF CmdKeep, envVars, histVars
<1>3. /\ cl'[c].half = 2 /\ cl'[c].i = cl[c].i /\ cl'[c].pass = cl[c].pass
      /\ \A d \in Clients \ {c} : cl'[d] = cl[d]
  BY <1>1, <1>2 DEF WalkFields
<1>4. Entry(c)' = Entry(c)
  BY <1>2, <1>3 DEF Entry, Block
<1>5. Unsent(c)'
  BY <1>2, <1>3, <1>4 DEF Unsent, Long
<1>6. Heard(flight)'
  BY <1>2, <1>3, HeardStays DEF PakInv, Devices
<1> QED
  BY <1>2, <1>3, <1>5, <1>6, WriterKeepsPak

LEMMA CmdResetKeepsPak ==
    ASSUME ChannelInv, PakInv, OneWriter, NEW c \in ChannelClients, EventReset(c)
    PROVE  PakInv'
<1>1. /\ c \in Clients /\ DOMAIN cl = Clients /\ DOMAIN cl[c] = WalkFields
  BY ChannelConstants DEF ChannelInv, Places
<1>2. /\ cl[c].at = "reset" /\ cl' = [cl EXCEPT ![c].at = "send"]
      /\ UNCHANGED <<rx, controller, held, echo, flight, result, channel, buf>>
  BY DEF EventReset, envVars, histVars
<1>3. /\ cl'[c].half = cl[c].half /\ cl'[c].i = cl[c].i /\ cl'[c].pass = cl[c].pass
      /\ \A d \in Clients \ {c} : cl'[d] = cl[d]
  BY <1>1, <1>2 DEF WalkFields
<1>4. Entry(c)' = Entry(c)
  BY <1>2, <1>3 DEF Entry, Block
<1>5. Unsent(c)'
  BY <1>2, <1>3, <1>4 DEF PakInv, Unsent, Long
<1>6. Heard(flight)'
  BY <1>2, HeardStays DEF PakInv
<1> QED
  BY <1>2, <1>3, <1>5, <1>6, WriterKeepsPak

LEMMA CmdXferKeepsPak ==
    ASSUME ChannelInv, PakInv, OneWriter, NEW c \in ChannelClients, CmdXfer(c)
    PROVE  PakInv'
<1>1. /\ c \in Clients /\ DOMAIN cl = Clients /\ DOMAIN cl[c] = WalkFields
  BY ChannelConstants DEF ChannelInv, Places
<1>2. /\ cl[c].at = "send" /\ cl' = [cl EXCEPT ![c].at = "wait"]
      /\ UNCHANGED <<rx, controller, held, echo, result, channel, buf>>
  BY DEF CmdXfer, envVars, histVars
<1>3. cl'[c].at = "wait" /\ \A d \in Clients \ {c} : cl'[d] = cl[d]
  BY <1>1, <1>2 DEF WalkFields
<1>4. Unsent(c)'
  BY <1>3 DEF Unsent
<1>5. Heard(flight)' /\ (flight'.by \in Devices => flight' = flight)
  <2>1. CASE flight' = flight
    BY <1>3, <2>1, HeardStays DEF PakInv, Devices
  <2>2. CASE flight' = [by |-> c, what |-> CmdForm(c), bytes |-> Entry(c).bytes, rep |-> Entry(c).rep]
    <3>1. flight'.by = c /\ flight'.what = CmdForm(c) /\ flight'.bytes = Entry(c).bytes
      BY <2>2
    <3>2. (cl[c].half = 2 /\ Long(Entry(c))) \/ Entry(c).bytes \in Seq(Byte)
      BY <1>2 DEF PakInv, Unsent
    <3>3. CmdForm(c) \in {"short", "out"} => Entry(c).bytes \in Seq(Byte)
      BY <3>2 DEF CmdForm
    <3> QED
      BY <1>1, <3>1, <3>3 DEF Heard, Devices
  <2> QED
    BY <2>1, <2>2 DEF CmdXfer, PutOnBus
<1> QED
  BY <1>2, <1>3, <1>4, <1>5, WriterKeepsPak
--------------------------------------------------------------------------------
(* The steps of a request *)

(* A step of one device leaves the answers of the others true. *)
LEMMA DeviceKeepsPak ==
    ASSUME PakInv, NEW c \in Devices, UNCHANGED <<channel, buf, controller>>,
           DOMAIN rx' = Clients, DOMAIN held' = Clients, DOMAIN echo' = {"of", "own"},
           \A d \in Clients \ {c} : /\ cl'[d] = cl[d] /\ rx'[d] = rx[d]
                                    /\ result'[d] = result[d] /\ held'[d] = held[d],
           echo'.own \subseteq echo.own, echo'.of = echo.of \/ echo'.of = Nobody,
           Heard(flight)', flight'.by \in Devices \ {c} => flight' = flight, DeviceInv(c)'
    PROVE  PakInv'
<1>1. Memory'
  BY DEF PakInv, Memory
<1>2. ASSUME NEW d \in Devices PROVE DeviceInv(d)'
  <2>1. CASE d = c
    BY <2>1
  <2>2. CASE d # c
    <3>1. echo'.of = d => echo.of = d
      BY ChannelConstants DEF Devices, Nobody
    <3>2. d \in Clients \ {c} /\ DeviceInv(d)
      BY <2>2 DEF Devices, PakInv
    <3>3. cl'[d] = cl[d] /\ rx'[d] = rx[d] /\ result'[d] = result[d] /\ held'[d] = held[d]
      BY <3>2
    <3> QED
      BY <2>2, <3>1, <3>2, <3>3, DeviceStays
  <2> QED
    BY <2>1, <2>2
<1>3. ASSUME NEW d \in ChannelClients PROVE Unsent(d)'
  <2>1. d \in Clients \ {c}
    BY ChannelConstants DEF Devices
  <2>2. cl'[d] = cl[d] /\ Unsent(d)
    BY <2>1 DEF PakInv
  <2> QED
    BY <2>2, UnsentStays
<1> QED
  BY <1>1, <1>2, <1>3 DEF PakInv

LEMMA DeviceIs ==
    ASSUME ChannelInv, PakInv, NEW c \in Devices
    PROVE  /\ c \in Clients /\ c \notin ChannelClients
           /\ DOMAIN cl = Clients /\ DOMAIN result = Clients /\ DOMAIN cl[c] = WalkFields
           /\ DOMAIN rx = Clients /\ DOMAIN held = Clients /\ DOMAIN echo = {"of", "own"} /\ DeviceInv(c)
BY DEF ChannelInv, Places, PakInv, Devices

(* What comes back from a refusal is no success of a read or a write. *)
LEMMA RefusalTells ==
    ASSUME NEW c, NEW req \in Requests
    PROVE  Verdict(req, <<>>) = "SUCCESS" => req.op # "read" /\ req.op # "write"
BY NothingTold

(* The answer of a device: with no data, or with those it holds. *)
LEMMA AnswerTells ==
    ASSUME NEW c \in Clients, DOMAIN result = Clients, NEW req \in Requests, NEW data, NEW attempted,
           PakAnswer(c, req, attempted, data),
           Verdict(req, data) = "SUCCESS" =>
               /\ req.op = "read" => SubSeq(data, 1, BlockBytes) \in held'[c]
               /\ req.op = "write" /\ c \in echo'.own => req.data \in held'[c]
    PROVE  Answered(c)'
<1> DEFINE r == [op |-> req.op, req |-> req, st |-> Verdict(req, data), data |-> data, attempted |-> attempted]
<1>1. result'[c] = r
  BY DEF PakAnswer, Answer
<1>2. r.op = req.op /\ r.req = req /\ r.st = Verdict(req, data) /\ r.data = data
  OBVIOUS
<1> HIDE DEF r
<1> QED
  BY <1>1, <1>2 DEF Answered, Tells

LEMMA ReturnKeepsPak ==
    ASSUME ChannelInv, PakInv, NEW c \in Devices, cl[c].at # "idle",
           UNCHANGED <<channel, buf, controller, held, echo, flight>>,
           NEW data, data = <<>> \/ (data = N64Reply(c) /\ cl[c].at = "wait"), N64Return(c, data)
    PROVE  PakInv'
<1>1. /\ c \in Clients /\ c \notin ChannelClients /\ DOMAIN result = Clients /\ DOMAIN rx = Clients
      /\ DOMAIN held = Clients /\ DOMAIN echo = {"of", "own"} /\ DOMAIN cl = Clients /\ DeviceInv(c)
  BY DeviceIs
<1>2. /\ PakAnswer(c, cl[c].req, TRUE, data) /\ cl' = [cl EXCEPT ![c] = Away]
      /\ rx' = [rx EXCEPT ![c] = <<>>]
  BY DEF N64Return
<1>3. DOMAIN rx' = Clients /\ \A d \in Clients \ {c} : rx'[d] = rx[d]
  BY <1>1, <1>2
<1>4. cl'[c] = Away /\ \A d \in Clients \ {c} : cl'[d] = cl[d]
  BY <1>1, <1>2
<1>5. \A d \in Clients \ {c} : result'[d] = result[d]
  BY <1>1, <1>2 DEF PakAnswer, Answer
<1>6. cl[c].req \in Requests /\ Tells(c, cl[c].req, N64Reply(c))
  BY <1>1 DEF DeviceInv, Underway
<1>7. Verdict(cl[c].req, data) = "SUCCESS" =>
          /\ cl[c].req.op = "read" => SubSeq(data, 1, BlockBytes) \in held'[c]
          /\ cl[c].req.op = "write" /\ c \in echo'.own => cl[c].req.data \in held'[c]
  <2>1. CASE data = <<>>
    BY <1>6, <2>1, RefusalTells
  <2>2. CASE data = N64Reply(c)
    BY <1>6, <2>2 DEF Tells
  <2> QED
    BY <2>1, <2>2
<1>8. Answered(c)'
  BY <1>1, <1>2, <1>6, <1>7, AnswerTells
<1>9. DeviceInv(c)'
  <2>1. ASSUME flight.by = c PROVE data = <<>>
    BY <1>1, <2>1 DEF DeviceInv, Underway, Undelivered
  <2>2. result'[c].data = data
    <3> DEFINE r == [op |-> cl[c].req.op, req |-> cl[c].req, st |-> Verdict(cl[c].req, data), data |-> data,
                     attempted |-> TRUE]
    <3>1. result'[c] = r
      BY <1>1, <1>2 DEF PakAnswer, Answer
    <3>2. r.data = data
      OBVIOUS
    <3> HIDE DEF r
    <3> QED
      BY <3>1, <3>2
  <2>3. Outstanding(c)'
    BY <1>4, <2>1, <2>2, AwayIs DEF Outstanding
  <2> QED
    BY <1>4, <1>8, <2>3, AwayIs DEF DeviceInv
<1>10. Heard(flight)'
  BY HeardStays DEF PakInv
<1> QED
  BY <1>1, <1>3, <1>4, <1>5, <1>9, <1>10, DeviceKeepsPak

(* A request goes on to another place: what it would be told stays true. *)
LEMMA GoesOnKeepsPak ==
    ASSUME ChannelInv, PakInv, NEW c \in Devices, cl[c].at # "idle",
           UNCHANGED <<channel, buf, controller, held, echo, rx, result>>, Heard(flight)',
           \A d \in Clients \ {c} : cl'[d] = cl[d],
           flight' = flight \/ flight'.by = c, Unfetched(c)', Undelivered(c)', Outstanding(c)',
           cl'[c].req = cl[c].req, cl'[c].half \in {1, 2}
    PROVE  PakInv'
<1>1. /\ DOMAIN rx = Clients /\ DOMAIN held = Clients /\ DOMAIN echo = {"of", "own"} /\ DeviceInv(c)
  BY DeviceIs
<1>2. Underway(c)
  BY <1>1 DEF DeviceInv
<1>3. N64Reply(c)' = N64Reply(c)
  BY DEF N64Reply
<1>4. Tells(c, cl[c].req, N64Reply(c))'
  BY <1>2, <1>3 DEF Underway, Tells
<1>5. cl'[c].req.op = "write" /\ echo'.of = c => Echoes(controller'.answer, cl'[c].req.data, held'[c])
  BY <1>2 DEF Underway
<1>6. Underway(c)'
  BY <1>2, <1>4, <1>5 DEF Underway
<1>7. DeviceInv(c)'
  BY <1>1, <1>6 DEF DeviceInv, Answered, Tells
<1> QED
  BY <1>1, <1>7, DeviceKeepsPak

LEMMA SyncClaimKeepsPak ==
    ASSUME ChannelInv, PakInv, NEW c \in Devices, SyncClaim(c)
    PROVE  PakInv'
<1>1. /\ c \in Clients /\ DOMAIN cl = Clients /\ DOMAIN cl[c] = WalkFields /\ DeviceInv(c)
  BY DeviceIs
<1>2. /\ cl[c].at = "sync"
      /\ UNCHANGED <<channel, buf, controller, held, echo, flight>>
  BY <1>1 DEF SyncClaim, envVars, histVars
<1>3. cl[c].half \in {1, 2} /\ c \notin echo.own /\ N64Reply(c) = <<>>
  BY <1>1, <1>2 DEF DeviceInv, Underway, Unfetched, Undelivered
<1>4. CASE slot = "FREE"
  <2>1. UNCHANGED <<rx, result>> /\ cl' = [cl EXCEPT ![c].at = "reset"]
    BY <1>4 DEF SyncClaim
  <2>2. /\ cl'[c].req = cl[c].req /\ cl'[c].half = cl[c].half
        /\ \A d \in Clients \ {c} : cl'[d] = cl[d]
    BY <1>1, <2>1 DEF WalkFields
  <2>3. Heard(flight)'
    BY <1>2, HeardStays DEF PakInv
  <2>4. Unfetched(c)'
    BY <1>2, <1>3 DEF Unfetched
  <2>5. Undelivered(c)'
    <3>1. N64Reply(c)' = N64Reply(c)
      BY <2>1, <2>2 DEF N64Reply
    <3> QED
      BY <1>3, <3>1 DEF Undelivered
  <2>6. Outstanding(c)'
    <3>1. flight'.by # c
      BY <1>1, <1>2, <1>4 DEF ChannelInv, FlightHasSender
    <3> QED
      BY <3>1 DEF Outstanding
  <2> QED
    BY <1>2, <1>3, <2>1, <2>2, <2>3, <2>4, <2>5, <2>6, GoesOnKeepsPak
<1>5. CASE slot # "FREE"
  <2>1. N64Return(c, <<>>)
    BY <1>5 DEF SyncClaim
  <2> QED
    BY <1>2, <2>1, ReturnKeepsPak
<1> QED
  BY <1>4, <1>5

LEMMA SyncResetKeepsPak ==
    ASSUME ChannelInv, PakInv, NEW c \in Devices, EventReset(c)
    PROVE  PakInv'
<1>1. /\ c \in Clients /\ DOMAIN cl = Clients /\ DOMAIN cl[c] = WalkFields /\ DeviceInv(c)
  BY DeviceIs
<1>2. /\ cl[c].at = "reset" /\ cl' = [cl EXCEPT ![c].at = "send"]
      /\ UNCHANGED <<channel, buf, controller, held, echo, flight, rx, result>>
  BY DEF EventReset, envVars, histVars
<1>3. cl[c].half \in {1, 2} /\ c \notin echo.own /\ N64Reply(c) = <<>> /\ flight.by # c
  BY <1>1, <1>2 DEF DeviceInv, Underway, Unfetched, Undelivered, Outstanding
<1>4. /\ cl'[c].req = cl[c].req /\ cl'[c].half = cl[c].half
      /\ \A d \in Clients \ {c} : cl'[d] = cl[d]
  BY <1>1, <1>2 DEF WalkFields
<1>5. Heard(flight)'
  BY <1>2, HeardStays DEF PakInv
<1>6. Unfetched(c)' /\ Outstanding(c)'
  BY <1>2, <1>3 DEF Unfetched, Outstanding
<1>7. Undelivered(c)'
  <2>1. N64Reply(c)' = N64Reply(c)
    BY <1>2, <1>4 DEF N64Reply
  <2> QED
    BY <1>3, <2>1 DEF Undelivered
<1> QED
  BY <1>2, <1>3, <1>4, <1>5, <1>6, <1>7, GoesOnKeepsPak

LEMMA SyncSendKeepsPak ==
    ASSUME ChannelInv, PakInv, ChecksumsTell, NEW c \in Devices, SyncSend(c)
    PROVE  PakInv'
<1>1. /\ c \in Clients /\ c \notin ChannelClients
      /\ DOMAIN cl = Clients /\ DOMAIN cl[c] = WalkFields /\ DeviceInv(c)
  BY DeviceIs
<1>2. /\ cl[c].at = "send" /\ UNCHANGED <<channel, buf, controller, held, echo>>
  BY <1>1 DEF SyncSend, envVars, histVars
<1>3. CASE /\ flight' = [by |-> c, what |-> N64Form(c), bytes |-> Tx(cl[c].req), rep |-> RxLen(cl[c].req)]
           /\ cl' = [cl EXCEPT ![c].at = "wait"] /\ UNCHANGED <<rx, result>>
  <2>1. /\ cl'[c].at = "wait" /\ cl'[c].req = cl[c].req /\ cl'[c].half = cl[c].half
        /\ \A d \in Clients \ {c} : cl'[d] = cl[d]
    BY <1>1, <1>3 DEF WalkFields
  <2>2. N64Form(c)' = N64Form(c)
    BY <2>1 DEF N64Form
  <2>3. /\ flight'.by = c /\ flight'.what = N64Form(c)
        /\ flight'.bytes = Tx(cl[c].req) /\ flight'.rep = RxLen(cl[c].req)
    BY <1>3
  <2>4. Heard(flight)'
    <3>1. cl[c].req \in Requests
      BY <1>1, <1>2 DEF DeviceInv, Underway
    <3> QED
      BY <1>1, <2>3, <3>1, RequestBytes DEF Heard
  <2>5. cl'[c].half \in {1, 2} /\ Unfetched(c)'
    BY <1>1, <1>2, <2>1 DEF DeviceInv, Underway, Unfetched
  <2>6. Undelivered(c)'
    <3>1. N64Reply(c)' = N64Reply(c)
      BY <1>3, <2>1 DEF N64Reply
    <3>2. N64Reply(c) = <<>>
      BY <1>1, <1>2 DEF DeviceInv, Underway, Undelivered
    <3> QED
      BY <3>1, <3>2 DEF Undelivered
  <2>7. Outstanding(c)'
    BY <2>1, <2>2, <2>3 DEF Outstanding
  <2> QED
    BY <1>2, <1>3, <2>1, <2>3, <2>4, <2>5, <2>6, <2>7, GoesOnKeepsPak
<1>4. CASE N64Return(c, <<>>) /\ flight' = flight
  BY <1>2, <1>4, ReturnKeepsPak
<1> QED
  BY <1>3, <1>4 DEF SyncSend, PutOnBus

LEMMA SyncDoneKeepsPak ==
    ASSUME ChannelInv, PakInv, NEW c \in Devices, SyncDone(c)
    PROVE  PakInv'
<1>1. /\ c \in Clients /\ DOMAIN cl = Clients /\ DOMAIN cl[c] = WalkFields /\ DeviceInv(c)
  BY DeviceIs
<1>2. /\ cl[c].at = "wait"
      /\ UNCHANGED <<channel, buf, controller, held, echo, flight>>
  BY <1>1 DEF SyncDone, slotVars, envVars, histVars
<1>3. CASE N64Long(cl[c].req) /\ cl[c].half = 1 /\ cl' = [cl EXCEPT ![c].at = "sync", ![c].half = 2] /\ UNCHANGED <<rx, result>>
  <2>1. /\ cl'[c].at = "sync" /\ cl'[c].req = cl[c].req /\ cl'[c].half = 2
        /\ \A d \in Clients \ {c} : cl'[d] = cl[d]
    BY <1>1, <1>3 DEF WalkFields
  <2>2. Heard(flight)'
    BY <1>2, HeardStays DEF PakInv
  <2>3. Unfetched(c)'
    BY <1>1, <1>2, <1>3 DEF DeviceInv, Underway, Unfetched
  <2>4. Undelivered(c)'
    <3>1. N64Reply(c)' = N64Reply(c)
      BY <1>3, <2>1 DEF N64Reply
    <3>2. N64Reply(c) = <<>>
      BY <1>1, <1>2, <1>3 DEF DeviceInv, Underway, Undelivered
    <3> QED
      BY <3>1, <3>2 DEF Undelivered
  <2>5. Outstanding(c)'
    BY <1>1, <1>2, <1>3, <2>1 DEF DeviceInv, Outstanding, N64Form
  <2> QED
    BY <1>2, <1>3, <2>1, <2>2, <2>3, <2>4, <2>5, GoesOnKeepsPak
<1>4. CASE N64Return(c, <<>>)
  BY <1>2, <1>4, ReturnKeepsPak
<1>5. CASE N64Return(c, N64Reply(c))
  BY <1>2, <1>5, ReturnKeepsPak
<1> QED
  BY <1>3, <1>4, <1>5 DEF SyncDone

LEMMA PakRequestKeepsPak ==
    ASSUME ChannelInv, PakInv, NEW c \in Devices, PakRequest(c)
    PROVE  PakInv'
<1>1. /\ c \in Clients /\ c \notin ChannelClients /\ DOMAIN result = Clients /\ DOMAIN rx = Clients
      /\ DOMAIN held = Clients /\ DOMAIN echo = {"of", "own"} /\ DOMAIN cl = Clients
  BY DeviceIs
<1>2. /\ cl[c].at = "idle" /\ UNCHANGED <<channel, buf, controller, flight>>
  BY <1>1 DEF PakRequest, envVars
<1>3. PICK req \in Requests :
          /\ held' = [held EXCEPT ![c] = PageHeld(req)]
          /\ echo' = [of |-> IF echo.of = c THEN Nobody ELSE echo.of, own |-> echo.own \ {c}]
          /\ \/ PakAnswer(c, req, FALSE, <<>>) /\ UNCHANGED <<cl, rx>>
             \/ /\ slot = "FREE"
                /\ rx' = [rx EXCEPT ![c] = [i \in 1..RxLen(req) + 1 |-> 0]]
                /\ cl' = [cl EXCEPT ![c] = [Away EXCEPT !.at = "sync", !.req = req]]
                /\ Answer(c, NoAnswer)
  BY DEF PakRequest
<1>4. /\ DOMAIN held' = Clients /\ \A d \in Clients \ {c} : held'[d] = held[d]
      /\ DOMAIN echo' = {"of", "own"} /\ echo'.own \subseteq echo.own /\ echo'.of # c
      /\ echo'.of = echo.of \/ echo'.of = Nobody
  BY <1>1, <1>3, ChannelConstants DEF Nobody
<1>5. CASE PakAnswer(c, req, FALSE, <<>>) /\ UNCHANGED <<cl, rx>>
  <2>1. \A d \in Clients \ {c} : result'[d] = result[d]
    BY <1>1, <1>5 DEF PakAnswer, Answer
  <2>2. Answered(c)'
    BY <1>1, <1>5, RefusalTells, AnswerTells
  <2>5. Outstanding(c)'
    <3> DEFINE r == [op |-> req.op, req |-> req, st |-> Verdict(req, <<>>), data |-> <<>>, attempted |-> FALSE]
    <3>1. result'[c] = r
      BY <1>1, <1>5 DEF PakAnswer, Answer
    <3>2. r.data = <<>>
      OBVIOUS
    <3> HIDE DEF r
    <3> QED
      BY <1>2, <1>5, <3>1, <3>2 DEF Outstanding
  <2>3. DeviceInv(c)'
    BY <1>2, <1>5, <2>2, <2>5 DEF DeviceInv
  <2>4. Heard(flight)'
    BY <1>2, HeardStays DEF PakInv
  <2> QED
    BY <1>1, <1>2, <1>4, <1>5, <2>1, <2>3, <2>4, DeviceKeepsPak
<1>6. CASE /\ slot = "FREE"
           /\ rx' = [rx EXCEPT ![c] = [i \in 1..RxLen(req) + 1 |-> 0]]
           /\ cl' = [cl EXCEPT ![c] = [Away EXCEPT !.at = "sync", !.req = req]]
           /\ Answer(c, NoAnswer)
  <2> DEFINE l == [Away EXCEPT !.at = "sync", !.req = req]
             zeros == [i \in 1..RxLen(req) + 1 |-> 0]
  <2>1. l.req = req /\ l.half = 1
    BY DEF Away
  <2>2. zeros[1] = 0
    <3>1. RxLen(req) \in Nat
      BY ChannelConstants DEF RxLen, ReadLen
    <3> QED
      BY <3>1
  <2>3. cl' = [cl EXCEPT ![c] = l] /\ rx' = [rx EXCEPT ![c] = zeros]
    BY <1>6
  <2> HIDE DEF l, zeros
  <2>4. /\ cl'[c] = l /\ \A d \in Clients \ {c} : cl'[d] = cl[d]
        /\ rx'[c] = zeros /\ DOMAIN rx' = Clients /\ \A d \in Clients \ {c} : rx'[d] = rx[d]
    BY <1>1, <2>3
  <2>5. result'[c].op = "none" /\ \A d \in Clients \ {c} : result'[d] = result[d]
    BY <1>1, <1>6 DEF Answer, NoAnswer
  <2>6. N64Reply(c)' = <<>>
    BY <2>1, <2>2, <2>4 DEF N64Reply
  <2>7. Tells(c, cl[c].req, N64Reply(c))'
    BY <2>1, <2>4, <2>6, RefusalTells DEF Tells
  <2>8. Unfetched(c)'
    BY <1>3 DEF Unfetched
  <2>12. Undelivered(c)'
    BY <2>6 DEF Undelivered
  <2>13. Outstanding(c)'
    <3>1. flight'.by # c
      BY <1>1, <1>2, <1>6 DEF ChannelInv, FlightHasSender
    <3> QED
      BY <3>1 DEF Outstanding
  <2>9. Underway(c)'
    BY <1>4, <2>8, <2>12, <2>1, <2>4, <2>5, <2>7 DEF Underway
  <2>10. DeviceInv(c)'
    BY <2>5, <2>9, <2>13 DEF DeviceInv, Answered
  <2>11. Heard(flight)'
    BY <1>2, HeardStays DEF PakInv
  <2> QED
    BY <1>1, <1>2, <1>4, <2>4, <2>5, <2>10, <2>11, DeviceKeepsPak
<1> QED
  BY <1>3, <1>5, <1>6
--------------------------------------------------------------------------------
(* A completion *)

(* A transfer that completes with ok, and with what the controller said. *)
Completes(ok, heard, corrupt, reply) ==
    /\ heard => ok /\ flight.by # CoreOwn
    /\ ~heard => reply = <<>>
    /\ heard => reply = IF flight.what = "fetch" THEN controller.answer ELSE Reply(flight.bytes)
    /\ Delivers(flight) /\ ok => Land(flight.by, DataStage(flight, reply, corrupt))
    /\ ~(Delivers(flight) /\ ok) => UNCHANGED <<channel, buf, rx, stray>>
    /\ flight.what = "out" /\ ok =>
          controller' = [(IF heard THEN AfterCommand(flight.bytes) ELSE controller) EXCEPT !.answer = reply]
    /\ flight.what = "short" /\ heard => controller' = AfterCommand(flight.bytes)
    /\ ~(flight.what = "out" /\ ok) /\ ~(flight.what = "short" /\ heard) => controller' = controller
    /\ flight.what = "out" /\ ok => echo' = [echo EXCEPT !.of = flight.by]
    /\ flight.what = "fetch" /\ ok /\ echo.of = flight.by => echo' = [echo EXCEPT !.own = @ \cup {flight.by}]
    /\ ~(flight.what = "out" /\ ok) /\ ~(flight.what = "fetch" /\ ok /\ echo.of = flight.by) => echo' = echo

LEMMA CompletesIs ==
    ASSUME BusCompletes
    PROVE  \E ok, heard, corrupt \in BOOLEAN : \E reply : Completes(ok, heard, corrupt, reply)
<1>1. PICK outcome \in {"error", "silent", "reply", "corrupt"} :
          LET heard == outcome \in {"reply", "corrupt"} /\ flight.by # CoreOwn
              reply == IF ~heard THEN <<>>
                       ELSE IF flight.what = "fetch" THEN controller.answer
                       ELSE Reply(flight.bytes)
          IN  /\ IF Delivers(flight) /\ outcome # "error"
                 THEN Land(flight.by, DataStage(flight, reply, outcome = "corrupt"))
                 ELSE UNCHANGED <<channel, buf, rx, stray>>
              /\ controller' = CASE flight.what = "out" /\ outcome # "error" ->
                                        [(IF heard THEN AfterCommand(flight.bytes) ELSE controller)
                                            EXCEPT !.answer = reply]
                                 [] flight.what = "short" /\ heard -> AfterCommand(flight.bytes)
                                 [] OTHER -> controller
              /\ echo' = CASE flight.what = "out" /\ outcome # "error" -> [echo EXCEPT !.of = flight.by]
                          [] flight.what = "fetch" /\ outcome # "error" /\ echo.of = flight.by ->
                                [echo EXCEPT !.own = @ \cup {flight.by}]
                          [] OTHER -> echo
  BY ZenonT(60) DEF BusCompletes
<1> DEFINE ok == outcome # "error"
           heard == outcome \in {"reply", "corrupt"} /\ flight.by # CoreOwn
           corrupt == outcome = "corrupt"
           reply == IF ~heard THEN <<>>
                    ELSE IF flight.what = "fetch" THEN controller.answer
                    ELSE Reply(flight.bytes)
<1>2. /\ IF Delivers(flight) /\ ok THEN Land(flight.by, DataStage(flight, reply, corrupt))
         ELSE UNCHANGED <<channel, buf, rx, stray>>
      /\ controller' = CASE flight.what = "out" /\ ok ->
                                [(IF heard THEN AfterCommand(flight.bytes) ELSE controller)
                                    EXCEPT !.answer = reply]
                         [] flight.what = "short" /\ heard -> AfterCommand(flight.bytes)
                         [] OTHER -> controller
      /\ echo' = CASE flight.what = "out" /\ ok -> [echo EXCEPT !.of = flight.by]
                  [] flight.what = "fetch" /\ ok /\ echo.of = flight.by ->
                        [echo EXCEPT !.own = @ \cup {flight.by}]
                  [] OTHER -> echo
  BY <1>1
<1>3. /\ ok \in BOOLEAN /\ heard \in BOOLEAN /\ corrupt \in BOOLEAN /\ (heard => ok /\ flight.by # CoreOwn)
      /\ (~heard => reply = <<>>)
      /\ (heard => reply = IF flight.what = "fetch" THEN controller.answer ELSE Reply(flight.bytes))
  BY <1>1
<1> HIDE DEF ok, heard, corrupt, reply
<1>4. Completes(ok, heard, corrupt, reply)
  <2>1. /\ Delivers(flight) /\ ok => Land(flight.by, DataStage(flight, reply, corrupt))
        /\ ~(Delivers(flight) /\ ok) => UNCHANGED <<channel, buf, rx, stray>>
    BY <1>2
  <2>2. /\ flight.what = "out" /\ ok =>
              controller' = [(IF heard THEN AfterCommand(flight.bytes) ELSE controller) EXCEPT !.answer = reply]
        /\ flight.what = "short" /\ heard => controller' = AfterCommand(flight.bytes)
        /\ ~(flight.what = "out" /\ ok) /\ ~(flight.what = "short" /\ heard) => controller' = controller
    BY <1>2
  <2>3. /\ flight.what = "out" /\ ok => echo' = [echo EXCEPT !.of = flight.by]
        /\ flight.what = "fetch" /\ ok /\ echo.of = flight.by => echo' = [echo EXCEPT !.own = @ \cup {flight.by}]
        /\ ~(flight.what = "out" /\ ok) /\ ~(flight.what = "fetch" /\ ok /\ echo.of = flight.by) => echo' = echo
    BY <1>2
  <2> QED
    BY <1>3, <2>1, <2>2, <2>3 DEF Completes
<1> QED
  BY <1>3, <1>4

(* What a command leaves in the controller's memory. *)
LEMMA AfterIs ==
    ASSUME Memory, NEW b, Len(b) = WriteLen => b \in Seq(Byte)
    PROVE  /\ DOMAIN AfterCommand(b) = {"status", "mem", "answer"} /\ AfterCommand(b).answer = controller.answer
           /\ DOMAIN AfterCommand(b).mem = Pages /\ \A p \in Pages : AfterCommand(b).mem[p] \in PakData
           /\ ~Stores(b) => AfterCommand(b).mem = controller.mem
           /\ Stores(b) => AfterCommand(b).mem[PageOf(b[2], b[3])] = SubSeq(b, 4, WriteLen)
<1> DEFINE mem == IF Stores(b) THEN [controller.mem EXCEPT ![PageOf(b[2], b[3])] = SubSeq(b, 4, WriteLen)]
                  ELSE controller.mem
<1>1. /\ DOMAIN AfterCommand(b) = {"status", "mem", "answer"} /\ AfterCommand(b).answer = controller.answer
      /\ AfterCommand(b).mem = mem
  BY DEF AfterCommand, Memory
<1>2. ASSUME Stores(b) PROVE PageOf(b[2], b[3]) \in Pages /\ SubSeq(b, 4, WriteLen) \in PakData
  <2>1. Len(b) = WriteLen /\ Reply(b) # <<>>
    BY <1>2 DEF Stores
  <2>2. WriteLen # 1 /\ WriteLen # 3
    BY ChannelConstants DEF WriteLen
  <2>3. PageOf(b[2], b[3]) \in Pages
    BY <2>1, <2>2 DEF Reply
  <2> QED
    BY <2>1, <2>3, BlockOfBytes
<1>3. DOMAIN controller.mem = Pages /\ \A p \in Pages : controller.mem[p] \in PakData
  BY DEF Memory
<1>4. /\ DOMAIN mem = Pages /\ \A p \in Pages : mem[p] \in PakData
      /\ ~Stores(b) => mem = controller.mem
      /\ Stores(b) => mem[PageOf(b[2], b[3])] = SubSeq(b, 4, WriteLen)
  BY <1>2, <1>3
<1> QED
  BY <1>1, <1>4

(* A transfer that the controller hears carries bytes, if it could be a write. *)
LEMMA BytesHeard ==
    ASSUME ChannelInv, PakInv, flight.what \in {"short", "out"}, Len(flight.bytes) = WriteLen
    PROVE  flight.bytes \in Seq(Byte)
<1>1. Heard(flight)
  BY DEF PakInv
<1>2. flight.by \in Clients
  BY <1>1 DEF ChannelInv, FlightHasSender, Delivers, Heard
<1> QED
  BY <1>1, <1>2 DEF Heard

LEMMA MemoryKept ==
    ASSUME ChannelInv, PakInv, ChecksumsTell, NEW ok \in BOOLEAN, NEW heard \in BOOLEAN, NEW corrupt \in BOOLEAN,
           NEW reply, Completes(ok, heard, corrupt, reply)
    PROVE  /\ Memory'
           /\ ~(flight.what = "out" /\ ok) => controller'.answer = controller.answer
           /\ flight.what = "out" /\ ok => controller'.answer = reply
           /\ heard /\ flight.what \in {"out", "short"} => controller'.mem = AfterCommand(flight.bytes).mem
<1> DEFINE a == AfterCommand(flight.bytes)
<1>1. ASSUME flight.what \in {"out", "short"}
      PROVE  /\ DOMAIN a = {"status", "mem", "answer"} /\ a.answer = controller.answer
             /\ DOMAIN a.mem = Pages /\ \A p \in Pages : a.mem[p] \in PakData
  BY <1>1, BytesHeard, AfterIs DEF PakInv
<1> HIDE DEF a
<1>2. /\ DOMAIN controller = {"status", "mem", "answer"}
      /\ DOMAIN controller.mem = Pages /\ \A p \in Pages : controller.mem[p] \in PakData
  BY DEF PakInv, Memory
<1>3. CASE flight.what = "out" /\ ok
  <2>1. controller' = [(IF heard THEN a ELSE controller) EXCEPT !.answer = reply]
    BY <1>3 DEF Completes, a
  <2>2. CASE heard
    BY <1>1, <1>3, <2>1, <2>2 DEF Memory, a
  <2>3. CASE ~heard
    BY <1>2, <1>3, <2>1, <2>3 DEF Memory
  <2> QED
    BY <2>2, <2>3
<1>4. CASE flight.what = "short" /\ heard
  <2>1. controller' = a
    BY <1>4 DEF Completes, a
  <2> QED
    BY <1>1, <1>4, <2>1 DEF Memory, a
<1>5. CASE ~(flight.what = "out" /\ ok) /\ ~(flight.what = "short" /\ heard)
  <2>1. controller' = controller
    BY <1>5 DEF Completes
  <2>2. heard => ok
    BY DEF Completes
  <2> QED
    BY <1>2, <1>5, <2>1, <2>2 DEF Memory
<1> QED
  BY <1>3, <1>4, <1>5

(* Where the data of a completion go. *)
LEMMA RxAfter ==
    ASSUME ChannelInv, PakInv, NEW ok \in BOOLEAN, NEW heard \in BOOLEAN, NEW corrupt \in BOOLEAN,
           NEW reply, Completes(ok, heard, corrupt, reply)
    PROVE  /\ DOMAIN rx' = Clients
           /\ \A d \in Clients : d # flight.by \/ ~(Delivers(flight) /\ ok) \/ cl[d].at # "wait" => rx'[d] = rx[d]
           /\ flight.by \in Devices /\ cl[flight.by].at = "wait" /\ Delivers(flight) /\ ok =>
                 rx'[flight.by] = DataStage(flight, reply, corrupt)
           /\ UNCHANGED <<channel, buf>> \/ (flight.by \in ChannelClients /\ cl[flight.by].at = "wait")
<1>1. DOMAIN rx = Clients
  BY DEF PakInv
<1>2. CASE ~(Delivers(flight) /\ ok)
  <2>1. UNCHANGED <<channel, buf, rx>>
    BY <1>2 DEF Completes
  <2> QED
    BY <1>1, <1>2, <2>1
<1>3. CASE Delivers(flight) /\ ok
  <2> DEFINE c == flight.by
             stage == DataStage(flight, reply, corrupt)
  <2>1. c \in Clients /\ Land(c, stage)
    BY <1>3 DEF Completes, ChannelInv, FlightHasSender
  <2> HIDE DEF stage
  <2>2. CASE cl[c].at = "wait" /\ cl[c].req.op # "none"
    <3>1. rx' = [rx EXCEPT ![c] = stage] /\ UNCHANGED <<channel, buf>>
      BY <2>1, <2>2 DEF Land
    <3>2. DOMAIN rx' = Clients /\ rx'[c] = stage /\ \A d \in Clients \ {c} : rx'[d] = rx[d]
      BY <1>1, <2>1, <3>1
    <3> QED
      BY <1>3, <2>2, <3>1, <3>2 DEF stage
  <2>3. CASE cl[c].at = "wait" /\ cl[c].req.op = "none"
    <3>1. rx' = rx
      BY <2>1, <2>3 DEF Land
    <3>2. c \in ChannelClients
      BY <2>1, <2>3, ClientIs
    <3> QED
      BY <1>1, <2>1, <2>3, <3>1, <3>2 DEF Devices
  <2>4. CASE cl[c].at # "wait"
    <3>1. UNCHANGED <<channel, buf, rx>>
      BY <2>1, <2>4 DEF Land
    <3> QED
      BY <1>1, <2>4, <3>1
  <2> QED
    BY <2>2, <2>3, <2>4
<1> QED
  BY <1>2, <1>3
(* A completion that answers with these bytes, intact or damaged. *)
Answers(reply, corrupt) == \E ok, heard \in BOOLEAN : Completes(ok, heard, corrupt, reply)

(* A block that is read and whose checksum agrees is the one in the page. *)
LEMMA ReadDelivered ==
    ASSUME ChannelInv, PakInv, ChecksumsTell, NEW c \in Devices, flight.by = c, flight.what = "short", cl[c].at = "wait",
           NEW corrupt \in BOOLEAN, NEW reply, Answers(reply, corrupt), NEW req \in Requests, req = cl[c].req, req.op = "read",
           NEW stage, stage = DataStage(flight, reply, corrupt),
           Verdict(req, Turned(req, stage)) = "SUCCESS"
    PROVE  SubSeq(Turned(req, stage), 1, BlockBytes) = controller'.mem[req.page]
<1> DEFINE data == Turned(req, stage)
           b == Tx(req)
           d == controller.mem[req.page]
<1>0. PICK ok \in BOOLEAN, heard \in BOOLEAN : Completes(ok, heard, corrupt, reply)
  BY DEF Answers
<1>1. /\ flight.bytes = b /\ flight.rep = RxLen(req) /\ req.page \in Pages
      /\ Memory
  BY RequestIs DEF PakInv, DeviceInv, Outstanding
<1>2. /\ Len(b) = 3 /\ b[1] = 2 /\ PageOf(b[2], b[3]) = req.page
      /\ RxLen(req) = ReadLen /\ ~N64Long(req) /\ ReadLen \in Nat /\ ReadLen # 0
  BY ReadIs, RequestIs DEF ReadLen
<1>3. reply # <<>>
  <2>1. ASSUME reply = <<>> PROVE FALSE
    <3>1. stage[1] = 0
      BY <1>1, <1>2, <2>1, SilentIs
    <3>2. data = <<>>
      BY <1>2, <3>1 DEF Turned
    <3> QED
      BY <3>2, NothingTold
  <2> QED
    BY <2>1
<1>4. heard /\ reply = Reply(b)
  BY <1>0, <1>1, <1>3 DEF Completes
<1>5. reply = d \o <<WithAccessory(DataCrc8(d))>>
  <2> HIDE DEF b
  <2>1. Len(b) # 1 /\ Len(b) # WriteLen
    BY <1>2, ChannelConstants DEF WriteLen
  <2>2. \/ Reply(b) = <<>>
        \/ Reply(b) = controller.mem[PageOf(b[2], b[3])] \o
                      <<WithAccessory(DataCrc8(controller.mem[PageOf(b[2], b[3])]))>>
    BY <1>2, <2>1 DEF Reply
  <2> QED
    BY <1>2, <1>3, <1>4, <2>2
<1>6. WithAccessory(DataCrc8(d)) \in {DataCrc8(d), Inverted(DataCrc8(d))}
  BY DEF WithAccessory
<1>7. d \in PakData
  BY <1>1 DEF Memory
<1>8. controller'.mem[req.page] = d
  <2> HIDE DEF b, d
  <2>1. ~Stores(b)
    BY <1>2, ChannelConstants DEF Stores, WriteLen
  <2>2. Len(b) # WriteLen
    BY <1>2, ChannelConstants DEF WriteLen
  <2>3. AfterCommand(b).mem = controller.mem
    BY <1>1, <2>1, <2>2, AfterIs
  <2> QED
    BY <1>0, <1>1, <1>4, <2>3, MemoryKept DEF d
<1> DEFINE x == WithAccessory(DataCrc8(d))
<1>9. reply = d \o <<x>> /\ x \in {DataCrc8(d), Inverted(DataCrc8(d))}
  BY <1>5, <1>6
<1> HIDE DEF b, d, x
<1>10. stage = DataStage(flight, d \o <<x>>, corrupt)
  BY <1>9
<1>11. Verdict(req, Turned(req, DataStage(flight, d \o <<x>>, corrupt))) = "SUCCESS"
  BY <1>10
<1>12. SubSeq(Turned(req, DataStage(flight, d \o <<x>>, corrupt)), 1, BlockBytes) = d
  BY <1>1, <1>7, <1>9, <1>11, BlockTold
<1> QED
  BY <1>8, <1>10, <1>12

(* What the controller answers to a write, and where the block is then. *)
LEMMA WriteHeard ==
    ASSUME ChannelInv, PakInv, ChecksumsTell, NEW c \in Devices, flight.by = c, flight.what = "out", cl[c].at # "idle",
           NEW ok \in BOOLEAN, NEW heard \in BOOLEAN, NEW corrupt \in BOOLEAN, NEW reply,
           Completes(ok, heard, corrupt, reply), ok, NEW req \in Requests, req = cl[c].req, req.op = "write",
           NEW h, controller'.mem[req.page] \in h
    PROVE  Echoes(controller'.answer, req.data, h)
<1> DEFINE b == Tx(req)
<1>1. flight.bytes = b /\ controller'.answer = reply /\ Memory
  BY MemoryKept DEF PakInv, DeviceInv, Outstanding
<1>2. /\ Len(b) = WriteLen /\ b[1] = 3 /\ PageOf(b[2], b[3]) = req.page
      /\ SubSeq(b, 4, WriteLen) = req.data /\ b \in Seq(Byte)
  BY WriteIs
<1>3. CASE ~heard
  BY <1>1, <1>3 DEF Completes, Echoes
<1>4. CASE heard
  <2>1. reply = Reply(b) /\ controller'.mem = AfterCommand(b).mem
    BY <1>1, <1>4, MemoryKept DEF Completes
  <2> HIDE DEF b
  <2>2. Len(b) # 1 /\ Len(b) # 3
    BY <1>2, ChannelConstants DEF WriteLen
  <2>3. Reply(b) = <<>> \/ Reply(b) = <<WithAccessory(DataCrc8(req.data))>>
    BY <1>2, <2>2 DEF Reply
  <2>4. CASE Reply(b) = <<>>
    BY <1>1, <2>1, <2>4 DEF Echoes
  <2>5. CASE Reply(b) = <<WithAccessory(DataCrc8(req.data))>> /\ controller.status = 0
    BY <1>1, <2>1, <2>5 DEF Echoes, WithAccessory
  <2>6. CASE Reply(b) = <<WithAccessory(DataCrc8(req.data))>> /\ controller.status # 0
    <3>1. Reply(b) # <<>>
      BY <2>6
    <3>2. Stores(b)
      BY <1>2, <2>6, <3>1 DEF Stores
    <3>3. controller'.mem[req.page] = req.data
      BY <1>1, <1>2, <2>1, <3>2, AfterIs
    <3> QED
      BY <1>1, <2>1, <2>6, <3>3 DEF Echoes, WithAccessory
  <2> QED
    BY <2>3, <2>4, <2>5, <2>6
<1> QED
  BY <1>3, <1>4
(* Whose transfer it was is told the truth, waiting for it or woken before it ended. *)
LEMMA SenderTold ==
    ASSUME ChannelInv, PakInv, ChecksumsTell, NEW c \in Devices, flight.by = c,
           NEW ok \in BOOLEAN, NEW heard \in BOOLEAN, NEW corrupt \in BOOLEAN, NEW reply,
           Completes(ok, heard, corrupt, reply), UNCHANGED <<cl, result>>,
           flight'.by # c, held[c] \subseteq held'[c],
           cl[c].at # "idle" /\ cl[c].req.op \in {"read", "write"} => controller'.mem[cl[c].req.page] \in held'[c]
    PROVE  DeviceInv(c)'
<1> DEFINE req == cl[c].req
           data == Turned(req, rx'[c])
           Told == Verdict(req, data) = "SUCCESS" =>
                       /\ req.op = "read" => SubSeq(data, 1, BlockBytes) \in held'[c]
                       /\ req.op = "write" /\ c \in echo'.own => req.data \in held'[c]
<1>1. /\ c \in Clients /\ DOMAIN echo = {"of", "own"} /\ DeviceInv(c)
      /\ cl[c].at \in {"idle", "sync", "wait"} /\ Outstanding(c)'
  BY DeviceIs DEF DeviceInv, Outstanding
<1>2. CASE ~ok
  <2>1. echo' = echo /\ controller' = controller
    BY <1>2 DEF Completes
  <2>2. rx'[c] = rx[c]
    BY <1>1, <1>2, RxAfter
  <2> QED
    BY <1>1, <2>1, <2>2, DeviceStays
<1>3. CASE ok /\ cl[c].at = "idle"
  <2>1. Answered(c)'
    <3>1. CASE Delivers(flight)
      <4>1. result[c].op = "none" \/ result[c].data = <<>>
        BY <1>1, <1>3, <3>1 DEF DeviceInv, Outstanding
      <4> QED
        BY <1>1, <4>1, RefusalTells DEF DeviceInv, Answered, Tells
    <3>2. CASE ~Delivers(flight)
      <4>1. echo'.own = echo.own
        BY <1>1, <3>2 DEF Completes, Delivers
      <4> QED
        BY <1>1, <4>1 DEF DeviceInv, Answered, Tells
    <3> QED
      BY <3>1, <3>2
  <2> QED
    BY <1>1, <1>3, <2>1 DEF DeviceInv
<1>4. CASE ok /\ cl[c].at # "idle"
  <2>1. /\ req \in Requests /\ Underway(c) /\ c \notin echo.own /\ N64Reply(c) = <<>>
        /\ flight.bytes = Tx(req) /\ flight.rep = RxLen(req)
        /\ flight.what = IF cl[c].at = "sync" THEN "out" ELSE N64Form(c)
    BY <1>1, <1>4 DEF DeviceInv, Underway, Unfetched, Undelivered, Outstanding
  <2>2. Answers(reply, corrupt)
    BY DEF Answers
  <2>3. N64Reply(c)' = data /\ N64Reply(c) = Turned(req, rx[c])
    BY DEF N64Reply, Turned
  <2>4. ASSUME Told, Unfetched(c)', Undelivered(c)',
               req.op = "write" /\ echo'.of = c => Echoes(controller'.answer, req.data, held'[c])
        PROVE  DeviceInv(c)'
    <3>1. Tells(c, cl[c].req, N64Reply(c))'
      BY <2>3, <2>4 DEF Tells
    <3>2. Underway(c)'
      BY <2>1, <2>4, <3>1 DEF Underway
    <3> QED
      BY <1>1, <2>1, <3>2 DEF DeviceInv, Answered, Underway
  <2>5. CASE flight.what = "out"
    <3>1. echo' = [echo EXCEPT !.of = c] /\ rx'[c] = rx[c]
      BY <1>1, <1>4, <2>5, RxAfter DEF Completes, Delivers
    <3>2. echo'.own = echo.own
      BY <1>1, <3>1
    <3>3. data = <<>>
      BY <2>1, <2>3, <3>1
    <3>4. Told
      BY <2>1, <3>3, RefusalTells
    <3>5. req.op = "write" /\ echo'.of = c => Echoes(controller'.answer, req.data, held'[c])
      <4>1. ASSUME req.op = "write" PROVE controller'.mem[req.page] \in held'[c]
        BY <1>4, <4>1
      <4> QED
        BY <1>4, <2>1, <2>5, <4>1, WriteHeard
    <3>6. Unfetched(c)' /\ Undelivered(c)'
      BY <2>1, <2>3, <3>2, <3>3 DEF Unfetched, Undelivered
    <3> QED
      BY <2>4, <3>4, <3>5, <3>6
  <2>6. CASE flight.what = "short"
    <3>0. cl[c].at = "wait" /\ ~N64Long(req)
      BY <1>1, <1>4, <2>1, <2>6 DEF N64Form
    <3>1. echo' = echo /\ rx'[c] = DataStage(flight, reply, corrupt)
      BY <1>1, <1>4, <2>6, <3>0, RxAfter DEF Completes, Delivers
    <3>2. req.op # "write"
      BY <2>1, <3>0, WriteIs
    <3>3. ASSUME Verdict(req, data) = "SUCCESS", req.op = "read"
          PROVE  SubSeq(data, 1, BlockBytes) = controller'.mem[req.page]
      <4>1. req \in Requests /\ req = cl[c].req /\ req.op = "read" /\ flight.what = "short"
        BY <2>1, <2>6, <3>3
      <4> HIDE DEF req, Told
      <4> QED
        BY <2>2, <3>0, <3>1, <3>3, <4>1, ReadDelivered
    <3>4. Told
      BY <1>4, <3>2, <3>3
    <3>5. Unfetched(c)' /\ Undelivered(c)'
      BY <2>1, <3>0, <3>1 DEF Unfetched, Undelivered
    <3> QED
      BY <2>4, <3>2, <3>4, <3>5
  <2>7. CASE flight.what = "fetch"
    <3>0. cl[c].at = "wait" /\ N64Long(req) /\ cl[c].half # 1
      BY <1>1, <1>4, <2>1, <2>7 DEF N64Form
    <3>1. rx'[c] = DataStage(flight, reply, corrupt) /\ controller' = controller
      BY <1>1, <1>4, <2>7, <3>0, RxAfter DEF Completes, Delivers
    <3>2. req.op # "read"
      BY <2>1, <3>0, ReadIs
    <3>3. echo'.of = echo.of /\ (echo.of # c => echo' = echo)
      BY <1>1, <1>4, <2>7 DEF Completes
    <3>4. ASSUME req.op = "write", c \in echo'.own, Verdict(req, data) = "SUCCESS"
          PROVE  req.data \in held'[c]
      <4>1. echo.of = c
        BY <2>1, <3>3, <3>4
      <4>2. Echoes(controller.answer, req.data, held[c])
        BY <2>1, <3>4, <4>1 DEF Underway
      <4>3. Echoes(reply, req.data, held[c])
        BY <2>7, <4>2 DEF Completes, Echoes
      <4>4. /\ req \in Requests /\ req.op = "write" /\ flight.rep = RxLen(req)
            /\ Verdict(req, Turned(req, DataStage(flight, reply, corrupt))) = "SUCCESS"
        BY <2>1, <3>1, <3>4
      <4>5. req.data \in held[c]
        <5> HIDE DEF req, data
        <5> QED
          BY <2>7, <4>3, <4>4, EchoTold
      <4> QED
        BY <2>7, <4>5
    <3>5. Told
      BY <3>2, <3>4
    <3>6. req.op = "write" /\ echo'.of = c => Echoes(controller'.answer, req.data, held'[c])
      BY <2>1, <3>1, <3>3 DEF Underway, Echoes
    <3>7. Unfetched(c)' /\ Undelivered(c)'
      BY <3>0 DEF Unfetched, Undelivered
    <3> QED
      BY <2>4, <3>5, <3>6, <3>7
  <2> QED
    BY <2>1, <2>5, <2>6, <2>7 DEF N64Form
<1> QED
  BY <1>2, <1>3, <1>4

LEMMA BusKeepsPak ==
    ASSUME ChannelInv, PakInv, OneWriter, ChecksumsTell, BusCompletes
    PROVE  PakInv'
<1>1. PICK ok \in BOOLEAN, heard \in BOOLEAN, corrupt \in BOOLEAN : \E reply : Completes(ok, heard, corrupt, reply)
  BY CompletesIs
<1>2. UNCHANGED <<cl, result>>
  BY DEF BusCompletes
<1>3. Memory' /\ (~(flight.what = "out" /\ ok) => controller'.answer = controller.answer)
  BY <1>1, MemoryKept
<1>4. /\ DOMAIN rx' = Clients
      /\ \A d \in Clients : d # flight.by \/ ~(Delivers(flight) /\ ok) \/ cl[d].at # "wait" => rx'[d] = rx[d]
      /\ UNCHANGED <<channel, buf>> \/ (flight.by \in ChannelClients /\ cl[flight.by].at = "wait")
  BY <1>1, RxAfter
<1>5. flight'.by \in {CoreOwn, Nobody} /\ flight'.what # "out"
  <2>1. PICK pass : PassOn(pass)
    BY DEF BusCompletes
  <2>2. \/ \E what \in {"kick", "idle"} : flight' = [NoFlight EXCEPT !.by = CoreOwn, !.what = what]
        \/ flight' = NoFlight
    BY <2>1 DEF PassOn, PutOnBus
  <2>3. ASSUME NEW what \in {"kick", "idle"}, flight' = [NoFlight EXCEPT !.by = CoreOwn, !.what = what]
        PROVE  flight'.by = CoreOwn /\ flight'.what # "out"
    BY <2>3 DEF NoFlight
  <2>4. ASSUME flight' = NoFlight PROVE flight'.by = Nobody /\ flight'.what # "out"
    BY <2>4 DEF NoFlight
  <2> QED
    BY <2>2, <2>3, <2>4
<1>6. Heard(flight)' /\ flight'.by \notin Clients
  BY <1>5, CoreIsHeard, ChannelConstants DEF CoreOwn, Nobody
<1>7. DOMAIN held' = Clients /\ \A c \in Clients :
          /\ held[c] \subseteq held'[c]
          /\ cl[c].at # "idle" /\ cl[c].req.op \in {"read", "write"} => controller'.mem[cl[c].req.page] \in held'[c]
  BY DEF BusCompletes
<1>8. DOMAIN echo' = {"of", "own"} /\ echo'.own \subseteq echo.own \cup {flight.by}
      /\ (echo'.of = echo.of \/ echo'.of = flight.by) /\ (flight.what = "out" /\ ok => echo'.of = flight.by)
  <2>1. DOMAIN echo = {"of", "own"}
    BY DEF PakInv
  <2>2. \/ echo' = echo \/ echo' = [echo EXCEPT !.of = flight.by]
        \/ echo' = [echo EXCEPT !.own = @ \cup {flight.by}]
    BY <1>1 DEF Completes
  <2>3. flight.what = "out" /\ ok => echo' = [echo EXCEPT !.of = flight.by]
    BY <1>1 DEF Completes
  <2> QED
    BY <2>1, <2>2, <2>3
<1>9. ASSUME NEW c \in Devices PROVE DeviceInv(c)'
  <2>0. c \in Clients /\ DeviceInv(c)
    BY DeviceIs
  <2>1. CASE flight.by = c
    <3>2. /\ held[c] \subseteq held'[c] /\ flight'.by # c
          /\ cl[c].at # "idle" /\ cl[c].req.op \in {"read", "write"} =>
                controller'.mem[cl[c].req.page] \in held'[c]
      BY <1>6, <1>7, <2>0
    <3> QED
      BY <1>1, <1>2, <2>1, <3>2, SenderTold
  <2>2. CASE flight.by # c
    <3>1. rx'[c] = rx[c] /\ held[c] \subseteq held'[c] /\ cl'[c] = cl[c] /\ result'[c] = result[c]
      BY <1>2, <1>4, <1>7, <2>0, <2>2
    <3>2. (c \in echo'.own => c \in echo.own) /\ flight'.by # c
      BY <1>6, <1>8, <2>0, <2>2
    <3>3. echo'.of = c => echo.of = c /\ controller'.answer = controller.answer
      BY <1>3, <1>8, <2>2
    <3> QED
      BY <2>0, <3>1, <3>2, <3>3, DeviceStays
  <2> QED
    BY <2>1, <2>2
<1>10. ASSUME NEW c \in ChannelClients PROVE Unsent(c)'
  <2>1. CASE UNCHANGED <<channel, buf>>
    BY <1>2, <2>1, UnsentStays DEF PakInv
  <2>2. CASE flight.by \in ChannelClients /\ cl[flight.by].at = "wait"
    <3>1. cl'[c].at = "wait"
      BY <1>2, <2>2 DEF OneWriter
    <3> QED
      BY <3>1 DEF Unsent
  <2> QED
    BY <1>4, <2>1, <2>2
<1> QED
  BY <1>3, <1>4, <1>6, <1>7, <1>8, <1>9, <1>10 DEF PakInv
--------------------------------------------------------------------------------
(* What a Pak request is told *)

LEMMA PakInitHolds == ChannelInit => PakInv
<1> SUFFICES ASSUME ChannelInit PROVE PakInv
  OBVIOUS
<1>1. PICK d \in Contents : controller = [status |-> 1, mem |-> [p \in Pages |-> d], answer |-> <<>>]
  BY DEF ChannelInit
<1>2. d \in PakData
  <2>1. d \in Seq(Byte) /\ Len(d) = BlockBytes
    BY ChannelConstants DEF Byte
  <2> QED
    BY <2>1, BlockIs, Zenon
<1>3. Memory
  BY <1>1, <1>2 DEF Memory
<1>4. Heard(flight)
  <2>1. flight.by = Nobody /\ flight.what = "none" /\ Nobody \notin Clients /\ Nobody \notin ChannelClients
    BY ChannelConstants DEF ChannelInit, NoFlight, Nobody
  <2> QED
    BY <2>1 DEF Heard, Devices
<1>5. DOMAIN rx = Clients /\ DOMAIN held = Clients /\ DOMAIN echo = {"of", "own"}
  BY DEF ChannelInit
<1>6. \A c \in Clients : cl[c].at = "idle" /\ result[c].op = "none"
  BY DEF ChannelInit, Away, NoAnswer
<1>7. \A c \in ChannelClients : Unsent(c)
  BY <1>6, ChannelConstants DEF Unsent
<1>8. flight.by \notin Clients
  BY ChannelConstants DEF ChannelInit, NoFlight, Nobody
<1>9. \A c \in Devices : DeviceInv(c)
  BY <1>6, <1>8 DEF Devices, DeviceInv, Answered, Outstanding
<1> QED
  BY <1>3, <1>4, <1>5, <1>7, <1>9 DEF PakInv

LEMMA PakStepKeeps ==
    ASSUME ChannelInv, PakInv, OneWriter, ChecksumsTell, [ChannelNext]_channelVars
    PROVE  PakInv'
<1>1. CASE BusCompletes
  BY <1>1, BusKeepsPak
<1>2. CASE CoreSends \/ EventSet \/ Packet \/ AccessoryChanges \/ InterfaceChanges \/ UNCHANGED channelVars
  BY <1>2, WorldKeepsPak
<1>3. ASSUME NEW c \in ChannelClients, CmdWrite(c) \/ CmdRead(c) \/ CmdOtherLength(c) \/ Walk(c)
      PROVE  PakInv'
  <2>1. CASE ExecClaim(c)
    BY <2>1, ExecClaimKeepsPak
  <2>2. CASE CmdXfer(c)
    BY <2>2, CmdXferKeepsPak
  <2>3. CASE CmdKeep(c)
    BY <2>3, CmdKeepKeepsPak
  <2> QED
    BY <1>3, <2>1, <2>2, <2>3, WalkKeepsPak DEF Walk
<1>4. ASSUME NEW c \in Devices, PakRequest(c) \/ Transaction(c) PROVE PakInv'
  BY <1>4, PakRequestKeepsPak, SyncClaimKeepsPak, SyncSendKeepsPak, SyncDoneKeepsPak DEF Transaction
<1>5. ASSUME NEW c \in Clients, CmdWrite(c) \/ CmdRead(c) \/ CmdOtherLength(c) \/ Walk(c)
      PROVE  c \in ChannelClients
  <2>1. CASE CmdWrite(c) \/ CmdRead(c) \/ CmdOtherLength(c)
    BY <2>1 DEF CmdWrite, CmdRead, CmdOtherLength, May
  <2>2. CASE Walk(c)
    <3>1. cl[c].at \in {"walk", "over"} \/ (cl[c].at \in {"reset", "send", "wait"} /\ cl[c].req.op = "none")
      BY <2>2 DEF Walk, WalkEnds, WalkPadding, WalkStructural, WalkLocal, CallOver, ExecClaim, OnTheWire,
                  CmdXfer, CmdKeep, ExecFinish, AtCommand, AtEntry
    <3> QED
      BY <3>1 DEF ChannelInv, Places
  <2> QED
    BY <1>5, <2>1, <2>2
<1>6. ASSUME NEW c \in Clients, PakRequest(c) \/ Transaction(c) PROVE c \in Devices
  <2>1. c \notin ChannelClients
    BY <1>6 DEF PakRequest, Transaction, SyncClaim, SyncSend, SyncDone, ChannelInv, Places
  <2> QED
    BY <2>1 DEF Devices
<1>7. ASSUME NEW c \in Clients, EventReset(c) PROVE PakInv'
  BY <1>7, CmdResetKeepsPak, SyncResetKeepsPak DEF Devices
<1> QED
  BY <1>1, <1>2, <1>3, <1>4, <1>5, <1>6, <1>7 DEF ChannelNext

(***************************************************************************)
(* A Pak request that succeeds was told the truth, whatever used the slot  *)
(* in between: the block read is one the page held while the request ran,  *)
(* and a block written, when the echo that was fetched is that of this     *)
(* write, was in the page (core_pak_read_block, core_pak_write_block,      *)
(* core_n64_transaction) - an early wake gives no data, and no success.    *)
(* It rests on one client of the channel, on the register that the damage  *)
(* alone leaves, and on data landing where it is waited for.               *)
(***************************************************************************)
THEOREM PakAnswerIsTrueHolds ==
    ASSUME OneWriter, ErrorsTold(BlockBytes)
    PROVE  ChannelSpec => []PakAnswerIsTrue
<1>0. ChecksumsTell
  BY ChecksumsTellHolds
<1>1. ChannelInit => ChannelInv /\ PakInv
  BY ChannelInitHolds, PakInitHolds
<1>2. (ChannelInv /\ PakInv) /\ [ChannelNext]_channelVars => (ChannelInv /\ PakInv)'
  BY <1>0, ChannelStepKeeps, PakStepKeeps
<1>3. ChannelInv /\ PakInv => PakAnswerIsTrue
  <2> SUFFICES ASSUME PakInv, NEW c \in Clients \ ChannelClients
               PROVE  /\ Succeeded(c, "read") => SubSeq(result[c].data, 1, BlockBytes) \in held[c]
                      /\ Succeeded(c, "write") /\ c \in echo.own => result[c].req.data \in held[c]
    BY DEF PakAnswerIsTrue
  <2>1. Answered(c)
    BY DEF PakInv, DeviceInv, Devices
  <2> QED
    BY <2>1 DEF Answered, Tells, Succeeded
<1> QED
  BY <1>1, <1>2, <1>3, PTL DEF ChannelSpec
--------------------------------------------------------------------------------
(* The emulated Pak *)

(* The steps that leave a client where it is. *)
LEMMA OthersStay ==
    ASSUME ChannelInv, NEW c \in Clients, NEW d \in Clients, d # c,
           CmdWrite(d) \/ CmdRead(d) \/ CmdOtherLength(d) \/ Walk(d) \/ PakRequest(d) \/ Transaction(d)
           \/ EventReset(d)
    PROVE  cl'[c] = cl[c]
<1>1. DOMAIN cl = Clients
  BY DEF ChannelInv, Places
<1>2. CASE CmdWrite(d) \/ CmdRead(d) \/ CmdOtherLength(d) \/ PakRequest(d) \/ EventReset(d)
  BY <1>1, <1>2 DEF CmdWrite, CmdRead, CmdOtherLength, PakRequest, EventReset
<1>3. CASE Walk(d)
  BY <1>1, <1>3 DEF Walk, WalkEnds, WalkPadding, WalkStructural, WalkLocal, CallOver, ExecClaim, CmdXfer,
                    CmdKeep, ExecFinish, Stop
<1>4. CASE Transaction(d)
  BY <1>1, <1>4 DEF Transaction, SyncClaim, SyncSend, SyncDone, N64Return
<1> QED
  BY <1>2, <1>3, <1>4

(* An entry that the driver answers itself is passed by no other step. *)
LEMMA OnlyLocal ==
    ASSUME ChannelInv, NEW c \in ChannelClients, AtCommand(c), ~Structural(cl[c], Entry(c)),
           EmulatedWrite(Entry(c)), [ChannelNext]_channelVars, cl'[c].i = cl[c].i + 1
    PROVE  WalkLocal(c)
<1>1. c \in Clients /\ cl[c].at = "walk" /\ cl[c].i \in Nat /\ AtEntry(c)
  BY ClientIs, ChannelConstants DEF AtCommand, AtEntry
<1>2. cl'[c] # cl[c]
  BY <1>1
<1>3. CASE CoreSends \/ BusCompletes \/ EventSet \/ Packet \/ AccessoryChanges \/ InterfaceChanges \/ UNCHANGED channelVars
  BY <1>2, <1>3 DEF CoreSends, BusCompletes, EventSet, Packet, AccessoryChanges, InterfaceChanges, channelVars
<1>4. ASSUME NEW d \in Clients,
             CmdWrite(d) \/ CmdRead(d) \/ CmdOtherLength(d) \/ Walk(d) \/ PakRequest(d) \/ Transaction(d)
             \/ EventReset(d)
      PROVE  WalkLocal(c)
  <2>1. d = c
    BY <1>1, <1>2, <1>4, OthersStay
  <2>2. ~CmdWrite(c) /\ ~CmdRead(c) /\ ~CmdOtherLength(c) /\ ~PakRequest(c) /\ ~Transaction(c)
        /\ ~EventReset(c)
    BY <1>1 DEF CmdWrite, CmdRead, CmdOtherLength, May, PakRequest, Transaction, SyncClaim, SyncSend, SyncDone,
              EventReset
  <2>3. ~WalkEnds(c) /\ ~WalkPadding(c) /\ ~WalkStructural(c) /\ ~CallOver(c) /\ ~ExecClaim(c)
    BY <1>1 DEF WalkEnds, WalkPadding, AtCommand, WalkStructural, CallOver, ExecClaim, OnTheWire
  <2>4. ~CmdXfer(c) /\ ~CmdKeep(c) /\ ~ExecFinish(c)
    BY <1>1 DEF CmdXfer, CmdKeep, ExecFinish
  <2> QED
    BY <1>4, <2>1, <2>2, <2>3, <2>4 DEF Walk
<1> QED
  BY <1>3, <1>4 DEF ChannelNext

(* The answer of the emulation is the checksum, or that inverted. *)
LEMMA AnswerIsCrc ==
    ASSUME TableIsReal, NEW e, e.bytes[4] \in DOMAIN RealCrc
    PROVE  EmulatedAnswer(e) = IF emu.present THEN RealCrc[e.bytes[4]] ELSE 255 - RealCrc[e.bytes[4]]
<1> DEFINE v == e.bytes[4]
<1>1. v \in {0, 1, 128, 254}
  BY DEF RealCrc
<1>2. EmulatedCrc(v, e.reply[1]) = EmulatedCrc(v, 0)
  BY <1>1 DEF EmulatedCrc
<1>3. 0 \in 0..255
  OBVIOUS
<1> HIDE DEF v
<1>4. EmulatedCrc(v, 0) = RealCrc[v]
  BY <1>3 DEF TableIsReal, v
<1> QED
  BY <1>2, <1>4 DEF EmulatedAnswer, v

LEMMA EmulatedIs ==
    ASSUME ChannelInv, NEW c \in ChannelClients, cl[c].pass = 0, cl[c].index = 0,
           ~Structural(cl[c], Entry(c)), EmulatedWrite(Entry(c)), WalkLocal(c)
    PROVE  channel'.block.entries[cl[c].i].reply[1] = EmulatedAnswer(Entry(c))
<1> DEFINE e == Entry(c)
           f == [[e EXCEPT !.failed = FALSE] EXCEPT !.reply = <<EmulatedAnswer(e)>>]
<1>1. /\ c \in Clients /\ DOMAIN cl = Clients /\ AtEntry(c) /\ DOMAIN channel = {"block", "swap"}
      /\ DOMAIN buf = Clients
  BY ClientIs, ChannelConstants DEF WalkLocal, AtCommand, ChannelInv, Places
<1>2. e.cmd = WriteLen /\ WriteLen \in Nat /\ WriteLen >= 5 /\ e.rep = 1
  BY ChannelConstants DEF EmulatedWrite, WriteLen
<1>3. CORE_CMD_MAX_LEN > 1
  BY <1>2, ChannelConstants DEF Structural
<1>4. ~StateRead(e) /\ ~Identify(e) /\ ~EmulatedRead(e)
  BY <1>2 DEF StateRead, Identify, EmulatedRead
<1>5. Turn(e) = cl[c].pass /\ Reachable(cl[c], e)
  BY <1>2, <1>3, <1>4 DEF Turn, Reachable
<1>6. SetEntry(c, f)
  BY <1>4, <1>5 DEF WalkLocal
<1>7. PICK w \in Written : Walked(Block(c), w, cl[c])
  BY <1>1 DEF ChannelInv, InChannel, Block
<1>8. cl[c].i \in 1..Len(w.entries) /\ Follows(Block(c), w, 0) /\ DOMAIN e = EntryFields
  BY <1>1, <1>7, EntryIs
<1>9. f.reply[1] = EmulatedAnswer(e)
  BY <1>8 DEF EntryFields
<1>10. DOMAIN Block(c) = BlockFields /\ cl[c].i \in DOMAIN Block(c).entries
  <2>1. Block(c).entries \in Seq(ToSet(Block(c).entries)) /\ Len(Block(c).entries) = Len(w.entries)
    BY <1>8 DEF Follows
  <2>2. DOMAIN Block(c).entries = 1..Len(w.entries)
    BY <2>1, LenProperties
  <2> QED
    BY <1>8, <2>2 DEF Follows
<1> HIDE DEF f
<1> DEFINE b == [Block(c) EXCEPT !.entries[cl[c].i] = f]
<1>11. b.entries[cl[c].i] = f
  BY <1>10 DEF BlockFields
<1>12. Becomes(c, b)
  BY <1>6, SetIs
<1> HIDE DEF b
<1>13. channel'.block = b
  BY <1>1, <1>12 DEF Becomes
<1> QED
  BY <1>9, <1>11, <1>13

(***************************************************************************)
(* A Pak write that the driver answers itself is answered with the         *)
(* checksum of what was written, or with that inverted when the last       *)
(* identify found no accessory (ioctl.c, cmd_emulated_crc): for any block, *)
(* whatever else uses the adapter.  That the four values of the table are  *)
(* the checksums they stand for is a matter of computing them.             *)
(***************************************************************************)
THEOREM EmulationAnswersCrcHolds ==
    ASSUME OneWriter, TableIsReal
    PROVE  ChannelSpec => EmulationAnswersCrc
<1>1. ASSUME ChannelInv, [ChannelNext]_channelVars, NEW c \in ChannelClients,
             cl[c].pass = 0, AtCommand(c), ~Structural(cl[c], Entry(c)),
             cl'[c].i = cl[c].i + 1, cl[c].index = 0,
             EmulatedWrite(Entry(c)), Entry(c).bytes[4] \in DOMAIN RealCrc
      PROVE  channel'.block.entries[cl[c].i].reply[1] =
                 IF emu.present THEN RealCrc[Entry(c).bytes[4]] ELSE 255 - RealCrc[Entry(c).bytes[4]]
  <2>1. WalkLocal(c)
    BY <1>1, OnlyLocal
  <2>2. channel'.block.entries[cl[c].i].reply[1] = EmulatedAnswer(Entry(c))
    BY <1>1, <2>1, EmulatedIs
  <2> QED
    BY <1>1, <2>2, AnswerIsCrc
<1> DEFINE Walking == LandsWhereWaited => \A c \in ChannelClients :
          LET i == cl[c].i
              v == Entry(c).bytes[4]
          IN  /\ cl[c].pass = 0 /\ AtCommand(c) /\ ~Structural(cl[c], Entry(c))
              /\ cl'[c].i = i + 1 /\ cl[c].index = 0
              /\ EmulatedWrite(Entry(c)) /\ v \in DOMAIN RealCrc
              => channel'.block.entries[i].reply[1]
                    = IF emu.present THEN RealCrc[v] ELSE 255 - RealCrc[v]
<1>2. ChannelInv /\ [ChannelNext]_channelVars => [Walking]_channelVars
  BY <1>1
<1>3. ChannelSpec => []ChannelInv
  BY ChannelKeeps
<1> QED
  BY <1>2, <1>3, PTL DEF ChannelSpec, EmulationAnswersCrc
================================================================================
