-------------------------------- MODULE ScriptVM --------------------------------
(***************************************************************************)
(* The script interpreter of script.c and the thread switch around it      *)
(* (sched_execute).  One array holds the globals and, above them, the      *)
(* Locals words that are operand stack, locals and argument area of        *)
(* whichever thread is running.                                            *)
(*                                                                         *)
(* The program is left open: every instruction fetched may be any opcode   *)
(* with any operand of Operands, so what is checked holds for every        *)
(* bytecode a client can load.  Words keep the code's shape, a tag in the  *)
(* high nibble over a value of Unit words, so tags, bounds and signs are   *)
(* tested as the code tests them; what arithmetic computes is any word of  *)
(* Operands, because no property depends on which.  Of pc only its sign is *)
(* kept: with the program open, an instruction may always be the last one  *)
(* of the code, which is what the test against code_count finds.           *)
(***************************************************************************)
EXTENDS Integers, FiniteSets

CONSTANTS Threads,          \* script threads
          VarCount,         \* var_count, the globals
          Locals,           \* CORE_SCRIPT_LOCALS
          Unit,             \* values under one tag; 2^28 in the code
          Operands,         \* words that occur as operands and results
          Budget            \* bound: instructions the threads may spend

Word == 0..16 * Unit - 1
INT_MIN == 8 * Unit                     \* 0x80000000
MINUS_ONE == 16 * Unit - 1              \* 0xFFFFFFFF

ASSUME VMConstants ==
    /\ Locals \in Nat \ {0} /\ Budget \in Nat
    /\ Unit \in Nat /\ Unit > Locals
    /\ VarCount \in 1..8 * Unit - 1       \* a positive s32, and nothing more
    /\ Operands \subseteq Word /\ 0 \in Operands

Tag(w) == w \div Unit
Value(w) == w % Unit
TAG_CODE == 1
TAG_GLOBAL == 2
TAG_LOCAL == 3
TAG_NATIVE == 4
Tagged(tag, value) == tag * Unit + value
Signed(w) == IF w >= INT_MIN THEN w - 16 * Unit ELSE w
Unsigned(n) == n % (16 * Unit)

VARIABLES
    vm,         \* the machine: pc, acc, sp, budget, status
    vars,       \* vm->vars, globals and then the shared region
    node,       \* a thread's node: what sched_execute saves and restores
    current,    \* the thread that runs, or "none"
    frame,      \* history: the words [0, sp) of a thread when it last stopped
    astray,     \* history: an access went outside vars or code
    trapped     \* history: a divide the processor traps was executed

vmVars == <<vm, vars, node, current, frame, astray, trapped>>

(* The words of vars.  The load asks for their size in bytes, and four    *)
(* times a count of words wraps where that count reaches a quarter of u32. *)
Storage == 0..((VarCount + Locals) % (4 * Unit)) - 1

(* What keeps it from wrapping, and what no caller of the load looks at. *)
SizeFits == VarCount + Locals < 4 * Unit

Statuses == {"running", "terminated", "bad_var", "underflow", "overflow", "div_zero", "range",
             "illegal", "bad_native", "sleeping", "budget_out"}
Empty == [i \in {} |-> 0]

TypeOK ==
    /\ vm.status \in Statuses /\ vm.acc \in Word /\ vm.sp \in Int
    /\ vm.budget \in Int /\ vm.budget <= Budget
    /\ vars \in [Storage -> Word]
    /\ current \in Threads \cup {"none"}
    /\ \A t \in Threads : node[t].state \in {"free", "ready", "gone"}

First == CHOOSE t \in Threads : TRUE
FreshNode == [state |-> "ready", pc |-> "inside", acc |-> 0, depth |-> 0, stack |-> Empty]
FreeNode == [FreshNode EXCEPT !.state = "free"]

Init ==
    /\ vm = [pc |-> "inside", acc |-> 0, sp |-> 0, budget |-> Budget, status |-> "terminated"]
    /\ vars = [i \in Storage |-> 0]
    /\ node = [t \in Threads |-> IF t = First THEN FreshNode ELSE FreeNode]
    /\ current = "none"
    /\ frame = [t \in Threads |-> Empty]
    /\ astray = ~(0..VarCount - 1 \subseteq Storage)      \* the load clears the globals
    /\ trapped = FALSE

--------------------------------------------------------------------------------
(* Memory *)

(* Mutant: a local index may equal the number of locals. *)
FaultLocalBound(w) ==
    CASE Tag(w) = TAG_GLOBAL /\ Value(w) < VarCount -> Value(w)
      [] Tag(w) = TAG_LOCAL /\ Value(w) <= Locals -> Value(w) + VarCount
      [] OTHER -> -1

(* core_script_var_index: the index a tagged word names, or -1. *)
VarIndex(w) ==
    CASE Tag(w) = TAG_GLOBAL /\ Value(w) < VarCount -> Value(w)
      [] Tag(w) = TAG_LOCAL /\ Value(w) <= Locals - 1 -> Value(w) + VarCount
      [] OTHER -> -1

Stk(i) == VarCount + i
At(i) == IF i \in Storage THEN vars[i] ELSE 0

(* One instruction: the machine it leaves, the word it stores (index -1: *)
(* none), and every index it read or wrote.                              *)
Step(m, at, word, indices) ==
    /\ vm' = m
    /\ vars' = IF at \in Storage THEN [vars EXCEPT ![at] = word] ELSE vars
    /\ astray' = (astray \/ ~(indices \subseteq Storage))
    /\ UNCHANGED <<node, current, frame>>

Quiet(m) == Step(m, -1, 0, {}) /\ UNCHANGED trapped
Fault(m, status) == Quiet([m EXCEPT !.status = status])

--------------------------------------------------------------------------------
(* The loop *)

Running == current # "none" /\ vm.status = "running"

(* The budget is spent before the instruction and tested against one. *)
BudgetOut ==
    /\ Running /\ vm.budget - 1 < 1
    /\ Fault([vm EXCEPT !.budget = @ - 1], "budget_out")

(* pc >= code_count: nothing is fetched. *)
EndOfCode ==
    /\ Running /\ vm.budget - 1 >= 1 /\ vm.pc = "inside"
    /\ Fault([vm EXCEPT !.budget = @ - 1], "range")

(* Anything else is fetched, and must be there. *)
Fetches == Running /\ vm.budget - 1 >= 1

(* Mutant: an instruction costs nothing. *)
FaultBudgetNotSpent == vm

Fetched == [vm EXCEPT !.budget = @ - 1]

(* MEM, and the four that also add or take one. *)
Mem ==
    /\ Fetches
    /\ LET m == Fetched
           i == VarIndex(vm.acc)
       IN  \/ i = -1 /\ Fault(m, "bad_var")
           \/ /\ i # -1
              /\ \/ Step([m EXCEPT !.acc = At(i)], -1, 0, {i})
                 \/ \E w \in Operands :
                       \/ Step([m EXCEPT !.acc = At(i)], i, w, {i})
                       \/ Step([m EXCEPT !.acc = w], i, w, {i})
              /\ UNCHANGED trapped

(* NOT, BNOT, NEG and LOAD: the accumulator is any word. *)
Unary ==
    /\ Fetches
    /\ \E w \in Operands : Quiet([Fetched EXCEPT !.acc = w])

Room == vm.sp < Locals

Push ==
    /\ Fetches
    /\ \/ ~Room /\ Fault(Fetched, "overflow")
       \/ /\ Room
          /\ Step([Fetched EXCEPT !.sp = @ + 1], Stk(vm.sp), vm.acc, {Stk(vm.sp)})
          /\ UNCHANGED trapped

Pop ==
    /\ Fetches
    /\ LET i == Stk(vm.sp - 1)
       IN  \/ vm.sp <= 0 /\ Fault(Fetched, "underflow")
           \/ /\ vm.sp > 0
              /\ Step([Fetched EXCEPT !.sp = @ - 1, !.acc = At(i)], -1, 0, {i})
              /\ UNCHANGED trapped

Swap ==
    /\ Fetches
    /\ LET i == Stk(vm.sp - 1)
       IN  \/ vm.sp <= 0 /\ Fault(Fetched, "underflow")
           \/ /\ vm.sp > 0
              /\ Step([Fetched EXCEPT !.acc = At(i)], i, vm.acc, {i})
              /\ UNCHANGED trapped

AdjustStatus(sp) == IF sp < 0 THEN "underflow" ELSE IF sp > Locals THEN "overflow" ELSE "running"

(* STACK and BAIL: sp moves first and is judged afterwards. *)
Stack ==
    /\ Fetches
    /\ \E w \in Operands :
        LET sp == Signed(Unsigned(vm.sp + Signed(w)))
        IN  Quiet([Fetched EXCEPT !.sp = sp, !.status = AdjustStatus(sp)])

(* LOC: the tag, both of its low bits, is or-ed into whatever the nibble holds. *)
LocalAddress(n) ==
    LET w == Unsigned(n) IN Tagged(4 * (Tag(w) \div 4) + TAG_LOCAL, Value(w))

Loc ==
    /\ Fetches
    /\ \E w \in Operands : Quiet([Fetched EXCEPT !.acc = LocalAddress(vm.sp + Signed(w))])

(* A negative pc stops the machine as soon as it is computed. *)
Goto(m, negative) ==
    [m EXCEPT !.pc = IF negative THEN "negative" ELSE "inside",
              !.status = IF negative THEN "range" ELSE "running"]

(* B, BT and BF, taken or not. *)
Branch == Fetches /\ \E negative \in BOOLEAN : Quiet(Goto(Fetched, negative))

(* CALLA and CALL, by the tag of the target; natives are below.  The return
   address pushed is a word like any other, and not negative. *)
CodeTarget(w) == Tag(w) = TAG_CODE

Call ==
    /\ Fetches
    /\ \E w \in Operands \cup {vm.acc} :
        \/ Tag(w) = 0 /\ Quiet(Fetched)
        \/ CodeTarget(w) /\ Fault(Fetched, "range")          \* past the code
        \/ CodeTarget(w) /\ ~Room /\ Fault(Fetched, "overflow")
        \/ /\ CodeTarget(w) /\ Room
           /\ Step([Fetched EXCEPT !.sp = @ + 1], Stk(vm.sp), 0, {Stk(vm.sp)})
           /\ UNCHANGED trapped
        \/ Tag(w) \notin {0, TAG_CODE, TAG_NATIVE} /\ Fault(Fetched, "range")

(* RET with an empty stack ends the thread. *)
Ret ==
    /\ Fetches
    /\ LET i == Stk(vm.sp - 1)
       IN  \/ vm.sp <= 0 /\ Fault(Fetched, "terminated")
           \/ /\ vm.sp > 0
              /\ Step(Goto([Fetched EXCEPT !.sp = @ - 1], Signed(At(i)) < 0), -1, 0, {i})
              /\ UNCHANGED trapped

(* STORS stores what is on the stack where acc says, STORA the other way. *)
Store ==
    /\ Fetches
    /\ LET m == [Fetched EXCEPT !.sp = @ - 1]
           i == Stk(vm.sp - 1)
       IN  \/ vm.sp <= 0 /\ Fault(Fetched, "underflow")
           \/ /\ vm.sp > 0
              /\ \E p \in {<<vm.acc, At(i)>>, <<At(i), vm.acc>>} :
                    LET to == VarIndex(p[1])
                    IN  \/ to = -1 /\ Step([m EXCEPT !.status = "bad_var"], -1, 0, {i})
                        \/ to # -1 /\ Step(m, to, p[2], {i, to})
              /\ UNCHANGED trapped

(* Mutant: only a zero divisor is refused. *)
FaultOnlyZeroRefused(lhs, rhs) == rhs # 0

(* A quotient exists: not by zero, and not INT_MIN by -1. *)
Computable(lhs, rhs) == rhs # 0 /\ ~(lhs = INT_MIN /\ rhs = MINUS_ONE)

(* DIV and MOD: a zero divisor is reported before an empty stack. *)
Divide ==
    /\ Fetches
    /\ LET m == [Fetched EXCEPT !.sp = @ - 1]
           i == Stk(vm.sp - 1)
           traps == vm.acc = 0 \/ (At(i) = INT_MIN /\ vm.acc = MINUS_ONE)
       IN  \/ vm.acc = 0 /\ Fault(Fetched, "div_zero")
           \/ vm.acc # 0 /\ vm.sp <= 0 /\ Fault(Fetched, "underflow")
           \/ /\ vm.acc # 0 /\ vm.sp > 0 /\ ~Computable(At(i), vm.acc)
              /\ Step([m EXCEPT !.status = "div_zero"], -1, 0, {i})
              /\ UNCHANGED trapped
           \/ /\ vm.acc # 0 /\ vm.sp > 0 /\ Computable(At(i), vm.acc)
              /\ \E w \in Operands : Step([m EXCEPT !.acc = w], -1, 0, {i})
              /\ trapped' = (trapped \/ traps)

(* The other binary operations; the gap between BXOR and EQ computes OR. *)
Binary ==
    /\ Fetches
    /\ LET m == [Fetched EXCEPT !.sp = @ - 1]
           i == Stk(vm.sp - 1)
       IN  \/ vm.sp <= 0 /\ Fault(Fetched, "underflow")
           \/ /\ vm.sp > 0
              /\ \E w \in Operands : Step([m EXCEPT !.acc = w], -1, 0, {i})
              /\ UNCHANGED trapped

Illegal == Fetches /\ Fault(Fetched, "illegal")

--------------------------------------------------------------------------------
(* Natives *)

NativeCall == Fetches /\ \E w \in Operands \cup {vm.acc} : Tag(w) = TAG_NATIVE

(* native_arg reads above the stack pointer, and nothing past the region. *)
ArgumentSlots == {Stk(vm.sp + k) : k \in {k \in 1..2 : vm.sp + k >= 0 /\ vm.sp + k < Locals}}

Native ==
    \E acc \in Operands \cup {vm.acc},
       status \in {"running", "sleeping", "bad_native", "terminated"} :
        /\ NativeCall
        /\ Step([Fetched EXCEPT !.acc = acc, !.status = status], -1, 0, ArgumentSlots)
        /\ UNCHANGED trapped

(* The words [0, depth) of the shared region. *)
Live(depth) == [i \in 0..depth - 1 |-> At(Stk(i))]

(* _fork: a node as wide as the parent's stack, resuming after the call. *)
Fork ==
    \E child \in Threads, id \in Operands :
            /\ NativeCall /\ node[child].state = "free" /\ vm.sp >= 0
            /\ node' = [node EXCEPT ![child] = [state |-> "ready", pc |-> vm.pc, acc |-> 0,
                                                depth |-> vm.sp, stack |-> Live(vm.sp)]]
            /\ frame' = [frame EXCEPT ![child] = Live(vm.sp)]
            /\ vm' = [Fetched EXCEPT !.acc = id]
            /\ UNCHANGED <<vars, current, astray, trapped>>

--------------------------------------------------------------------------------
(* The thread switch *)

(* Mutant: the node's words are not put back. *)
FaultNotUnpacked(t) == vars

(* The whole node is copied in, not just the live depth. *)
Unpacked(t) ==
    [i \in Storage |-> IF i - VarCount \in DOMAIN node[t].stack THEN node[t].stack[i - VarCount]
                                                                ELSE vars[i]]

Resume(t) ==
    /\ current = "none" /\ node[t].state = "ready"
    /\ vars' = Unpacked(t)
    /\ vm' = [vm EXCEPT !.pc = node[t].pc, !.acc = node[t].acc, !.sp = node[t].depth,
                        !.status = IF node[t].pc = "negative" THEN "range" ELSE "running"]
    /\ current' = t
    /\ UNCHANGED <<node, frame, astray, trapped>>

(* Only [0, depth) is saved; a node too small is replaced by a larger one. *)
Packed(n, depth) ==
    [i \in DOMAIN n.stack \cup 0..depth - 1 |-> IF i < depth THEN At(Stk(i)) ELSE n.stack[i]]

ClampDepth(sp) == IF sp > Locals THEN Locals ELSE IF sp < 0 THEN 0 ELSE sp

Suspend ==
    /\ current # "none" /\ vm.status # "running"
    /\ LET depth == ClampDepth(vm.sp)
           t     == current
       IN  /\ node' = [node EXCEPT ![t] =
                IF vm.status = "terminated" THEN [@ EXCEPT !.state = "gone"]
                ELSE [state |-> IF vm.status = "sleeping" THEN "ready" ELSE "gone",
                      pc |-> vm.pc, acc |-> vm.acc, depth |-> depth, stack |-> Packed(@, depth)]]
           /\ frame' = [frame EXCEPT ![t] = Live(depth)]
    /\ current' = "none"
    /\ UNCHANGED <<vm, vars, astray, trapped>>

Instruction ==
    \/ BudgetOut \/ EndOfCode
    \/ Mem \/ Unary \/ Push \/ Pop \/ Swap \/ Stack \/ Loc \/ Branch \/ Call \/ Ret \/ Store
    \/ Divide \/ Binary \/ Illegal \/ Native \/ Fork

Next == Instruction \/ Suspend \/ \E t \in Threads : Resume(t)

(* The DPC that runs the machine is not preempted by anything that waits. *)
Spec == Init /\ [][Next]_vmVars /\ WF_vmVars(Instruction \/ Suspend)

--------------------------------------------------------------------------------
(***************************************************************************)
(* No bytecode makes the interpreter or a native touch a word outside      *)
(* vars, although sp is moved before it is judged and locals, arguments    *)
(* and the stack are addressed in different ways.  Only where SizeFits: a  *)
(* larger var_count, which the load takes, leaves vars a few words long    *)
(* and the clearing of the globals is already astray (README, section 5).  *)
(***************************************************************************)
NeverAstray == ~astray

(***************************************************************************)
(* While the machine runs its stack pointer lies within the region and its *)
(* pc is not negative, and so are the ones every suspended thread will be  *)
(* resumed with.                                                           *)
(***************************************************************************)
MachineInRange ==
    /\ Running => vm.sp \in 0..Locals /\ vm.pc = "inside"
    /\ \A t \in Threads : node[t].state = "ready" =>
        node[t].depth \in 0..Locals /\ 0..node[t].depth - 1 \subseteq DOMAIN node[t].stack

(***************************************************************************)
(* INT_MIN / -1 traps on the processor like a division by zero, and in a   *)
(* DPC that is fatal: no bytecode gets the interpreter to divide so.       *)
(***************************************************************************)
NeverTraps == ~trapped

(***************************************************************************)
(* The region is one per device, yet a thread finds the stack it slept     *)
(* with, whatever ran in between: the step that resumes it puts [0, depth) *)
(* back as it was when the thread stopped or was forked.                   *)
(***************************************************************************)
FrameKept ==
    [][\A t \in Threads :
        (current = "none" /\ current' = t) =>
            \A i \in DOMAIN frame[t] : vars'[Stk(i)] = frame[t][i]]_vmVars

(***************************************************************************)
(* An endless loop in a script cannot hang the driver: a machine that runs *)
(* stops, by the budget if nothing else stops it.                          *)
(***************************************************************************)
RunEnds == Running ~> ~Running

(***************************************************************************)
(* sched.c of the slots above the saved depth: nothing reads them, the     *)
(* interpreter only touches [0, sp).                                       *)
(***************************************************************************)
OnlyTheFrameIsRead ==
    [][Running /\ VarIndex(vm.acc) >= VarCount + vm.sp => ~(Mem /\ vm'.status = "running")]_vmVars
================================================================================
