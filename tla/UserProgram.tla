----------------------------- MODULE UserProgram ----------------------------
(***************************************************************************)
(* A user program (userprog/progtest.cc, addrspace.cc, exception.cc) on    *)
(* the MIPS simulator (machine/mipssim.cc, translate.cc, machine.cc).      *)
(*                                                                         *)
(* Words have WordBits bits, and the fields of instructions and the units  *)
(* of memory are scaled with them: half of a word is a halfword and an     *)
(* immediate, a quarter a byte.  The instructions executed are chosen      *)
(* freely: AddrSpace::Read takes the address at which a program is loaded  *)
(* from an uninitialized variable, so nothing is known of what is at 0.    *)
(*                                                                         *)
(* There is one user program.  Exec, the only way to another, passes the   *)
(* program's own address of the name to the host's open and printf, and    *)
(* goes on with the file that it could not open: it ends in a fault.       *)
(***************************************************************************)
EXTENDS Integers, Sequences, FiniteSets

CONSTANTS
  WordBits,      \* 32, or fewer
  Registers,     \* the registers that instructions name: some of 0 .. 31
  NumPages, PageSize, NumPhysPages,
  Image,         \* what is in memory: the loader may have put anything there
  Operands,      \* the values that the program has in its registers at first
  Immediates, Shifts, Targets,  \* the fields of the instructions executed
  Rs, Rt, Rd,
  MaxSteps       \* a bound on the instructions executed

VARIABLES
  registers,     \* the general registers, Hi and Lo
  pc, nextPc,    \* PCReg and NextPCReg
  load,          \* the delayed load: LoadReg and LoadValueReg
  memory,        \* mainMemory
  status,        \* what has become of the program
  steps,
  last           \* history: the last instruction, its operands and outcome

vars == <<registers, pc, nextPc, load, memory, status, steps, last>>

HiReg == 32
LoReg == 33

Size == 2 ^ WordBits
Word == 0 .. Size - 1
ToWord(n) == n % Size
IsNegative(w) == w >= Size \div 2         \* w & SIGN_BIT
Signed(w) == IF IsNegative(w) THEN w - Size ELSE w
Bits(quarters) == 2 ^ (quarters * (WordBits \div 4))

\* A word has four bytes and a page some words, the program's addresses are words,
\* and the registers named are there.
UserProgramAssumption ==
  /\ WordBits \in Nat \ {0} /\ WordBits % 4 = 0
  /\ {0, 2} \subseteq Registers /\ Registers \subseteq 0 .. 31
  /\ Rs \cup Rt \cup Rd \subseteq Registers
  /\ NumPages \in Nat \ {0} /\ NumPhysPages \in Nat
  /\ PageSize \in Nat \ {0} /\ PageSize % 4 = 0 /\ NumPages * PageSize \in Word
  /\ Image \in [0 .. NumPhysPages * PageSize - 1 -> 0 .. Bits(1) - 1]
  /\ Operands \subseteq Word
  /\ Immediates \subseteq Int /\ Shifts \subseteq Nat /\ Targets \subseteq Nat
  /\ MaxSteps \in Nat

\* The type invariant: in particular register 0 is 0.
TypeOK ==
  /\ registers \in [Registers \cup {HiReg, LoReg} -> Word] /\ registers[0] = 0
  /\ pc \in Word /\ nextPc \in Word
  /\ load \in [reg : Registers, value : Word]
  /\ memory \in [0 .. NumPhysPages * PageSize - 1 -> 0 .. Bits(1) - 1]
  /\ status \in {"running", "finished", "halted", "aborted"}
  /\ steps \in 0 .. MaxSteps

NoLoad == [reg |-> 0, value |-> 0]
Nothing == [op |-> "none", a |-> 0, b |-> 0, result |-> <<>>, raised |-> "none"]

\* StartProcess: InitRegisters, and then the program has put values in some
\* registers and jumped back to 0, or has come to its last word.
Init ==
  /\ registers \in {r \in [Registers \cup {HiReg, LoReg} -> Operands \cup {0}] :
                      \A x \in DOMAIN r : r[x] # 0 => x \in (Rs \cup Rt) \ {0}}
  /\ pc \in {0, NumPages * PageSize - 4} /\ nextPc = pc + 4
  /\ load = NoLoad
  /\ memory = Image
  /\ status = "running"
  /\ steps = 0
  /\ last = Nothing

-----------------------------------------------------------------------------
(* Memory.                                                                 *)

\* The page table that Initialize makes of the pages that AllocPage gives, the
\* first of a fresh MemoryManager.
PageTable ==
  [v \in 0 .. NumPages - 1 |-> [physicalPage |-> v, valid |-> TRUE, readOnly |-> FALSE]]

\* Machine::Translate: an exception, or "none" and the physical address.
Translate(addr, size, writing) ==
  LET vpn == addr \div PageSize
      fails(e) == [exception |-> e, address |-> 0]
      entry == PageTable[vpn]
  IN
  IF addr % size # 0 \/ vpn >= NumPages THEN fails("AddressError")
  ELSE IF ~ entry.valid THEN fails("PageFault")
  ELSE IF entry.readOnly /\ writing THEN fails("ReadOnly")
  ELSE IF entry.physicalPage >= NumPhysPages THEN fails("BusError")
  ELSE [exception |-> "none",
        address |-> entry.physicalPage * PageSize + (addr % PageSize)]

\* size bytes at a physical address, the lowest first, and the memory after a
\* write of them.
Bytes(at, size) ==
  LET byte(i) == memory[at + i] * Bits(i)
  IN  CASE size = 1 -> byte(0)
        [] size = 2 -> byte(0) + byte(1)
        [] size = 4 -> byte(0) + byte(1) + byte(2) + byte(3)

Stored(at, size, value) ==
  [x \in DOMAIN memory |->
     IF x \in at .. at + size - 1 THEN (value \div Bits(x - at)) % Bits(1) ELSE memory[x]]

-----------------------------------------------------------------------------
(* How an instruction ends.                                                *)

Running == status = "running" /\ steps < MaxSteps

\* The registers once the pending load is done; DelayedLoad.
Loaded(regs) == [regs EXCEPT ![load.reg] = load.value, ![0] = 0]

\* The end of OneInstruction: the registers become regs, the delayed load and
\* the jump become those given.
Completes(regs, newLoad, after) ==
  /\ registers' = [Loaded(regs) EXCEPT ![0] = 0]
  /\ load' = newLoad
  /\ pc' = nextPc
  /\ nextPc' = ToWord(after)
  /\ steps' = steps + 1
  /\ UNCHANGED status

Next4 == ToWord(nextPc + 4)

\* ExceptionHandler: what becomes of the program, by the exception and the code
\* of the system call.  Halt halts; Exit, and every exception that is not a
\* system call, finish the thread; Exec does, when ReadMem refuses its argument,
\* or else ends in a fault; the system calls that are not implemented return.
Outcomes(which, call) ==
  CASE which # "Syscall" -> {"finished"}
    [] which = "Syscall" /\ call = 0 -> {"halted"}
    [] which = "Syscall" /\ call = 1 -> {"finished"}
    [] which = "Syscall" /\ call = 2 -> {"finished", "aborted"}
    [] OTHER -> {"running"}

\* Mutant of Raises: the pending load is not finished before the trap.
RaisesUnloaded(which) ==
  /\ steps' = steps + 1
  /\ status' \in Outcomes(which, registers[2])
  /\ IF status' = "running" THEN pc' = nextPc /\ nextPc' = Next4
     ELSE UNCHANGED <<pc, nextPc>>
  /\ UNCHANGED <<registers, load, memory>>

\* Machine::RaiseException and, for a system call that returns, IncreaseCounter.
Raises(which) ==
  /\ registers' = Loaded(registers)
  /\ load' = NoLoad
  /\ steps' = steps + 1
  /\ status' \in Outcomes(which, Loaded(registers)[2])
  /\ IF status' = "running" THEN pc' = nextPc /\ nextPc' = Next4
     ELSE UNCHANGED <<pc, nextPc>>
  /\ UNCHANGED memory

\* ASSERT(FALSE), or a fault of the host.
Aborts ==
  /\ status' = "aborted"
  /\ steps' = steps + 1
  /\ UNCHANGED <<registers, pc, nextPc, load, memory>>

Records(op, a, b, result, raised) ==
  last' = [op |-> op, a |-> a, b |-> b, result |-> result, raised |-> raised]

-----------------------------------------------------------------------------
(* Machine::OneInstruction.                                                *)

Fetch == Translate(pc, 4, FALSE).exception
Fetched == Running /\ Fetch = "none"

FetchFails ==
  /\ Running
  /\ Fetch # "none"
  /\ Raises(Fetch)
  /\ Records("fetch", pc, 0, <<>>, Fetch)

ThreeRegisters == {"ADD", "ADDU", "AND", "NOR", "OR", "SLT", "SLTU", "SUB", "SUBU", "XOR"}
WithImmediate  == {"ADDI", "ADDIU", "ANDI", "LUI", "ORI", "SLTI", "SLTIU", "XORI"}

\* A word as the set of the places of its ones.
Ones(w) == {i \in 0 .. WordBits - 1 : (w \div 2 ^ i) % 2 = 1}
WithOnes(places) ==
  LET sum[n \in 0 .. WordBits] ==
        IF n = 0 THEN 0 ELSE sum[n - 1] + (IF n - 1 \in places THEN 2 ^ (n - 1) ELSE 0)
  IN  sum[WordBits]

\* OP_OR has its first operand twice.
Result(op, a, b) ==
  CASE op \in {"ADD", "ADDU", "ADDI", "ADDIU"} -> ToWord(a + b)
    [] op \in {"SUB", "SUBU"} -> ToWord(a - b)
    [] op \in {"AND", "ANDI"} -> WithOnes(Ones(a) \cap Ones(b))
    [] op = "OR" -> WithOnes(Ones(a) \cup Ones(a))
    [] op = "ORI" -> WithOnes(Ones(a) \cup Ones(b))
    [] op = "NOR" -> Size - 1 - WithOnes(Ones(a) \cup Ones(b))
    [] op \in {"XOR", "XORI"} -> WithOnes((Ones(a) \ Ones(b)) \cup (Ones(b) \ Ones(a)))
    [] op \in {"SLT", "SLTI"} -> IF Signed(a) < Signed(b) THEN 1 ELSE 0
    [] op \in {"SLTU", "SLTIU"} -> IF a < b THEN 1 ELSE 0
    [] op = "LUI" -> ToWord(b * Bits(2))

\* Mutant of Overflows: the test of a subtraction is that of an addition.
OverflowsAsSum(op, a, b, r) ==
  /\ op \in {"ADD", "SUB", "ADDI"}
  /\ IsNegative(a) = IsNegative(b) /\ IsNegative(a) # IsNegative(r)

Overflows(op, a, b, r) ==
  CASE op = "ADD"  -> IsNegative(a) = IsNegative(b) /\ IsNegative(a) # IsNegative(r)
    [] op = "ADDI" -> IsNegative(a) = IsNegative(b) /\ IsNegative(b) # IsNegative(r)
    [] op = "SUB"  -> IsNegative(a) # IsNegative(b) /\ IsNegative(a) # IsNegative(r)
    [] OTHER -> FALSE

Computes(op, a, b, dest) ==
  LET r == Result(op, a, b) IN
  IF Overflows(op, a, b, r)
  THEN Raises("Overflow") /\ Records(op, a, b, <<>>, "Overflow")
  ELSE /\ Completes([registers EXCEPT ![dest] = r], NoLoad, nextPc + 4)
       /\ Records(op, a, b, <<r>>, "none")
       /\ UNCHANGED memory

Arithmetic ==
  /\ Fetched
  /\ \E rs \in Rs :
       \/ \E op \in ThreeRegisters, rt \in Rt, rd \in Rd :
            Computes(op, registers[rs], registers[rt], rd)
       \/ \E op \in WithImmediate, rt \in Rt, x \in Immediates :
            Computes(op, registers[rs],
                     IF op \in {"ANDI", "ORI", "XORI"} THEN x % Bits(2) ELSE ToWord(x), rt)

\* SRL and SRLV shift an int, as SRA and SRAV do.
Shifted(op, w, by) ==
  IF op \in {"SLL", "SLLV"} THEN ToWord(w * 2 ^ by) ELSE ToWord(Signed(w) \div 2 ^ by)

Shift ==
  /\ Fetched
  /\ \E rt \in Rt, rd \in Rd :
     \E s \in ({"SLL", "SRA", "SRL"} \X Shifts)
              \cup ({"SLLV", "SRAV", "SRLV"} \X {registers[rs] % WordBits : rs \in Rs}) :
       LET r == Shifted(s[1], registers[rt], s[2]) IN
       /\ Completes([registers EXCEPT ![rd] = r], NoLoad, nextPc + 4)
       /\ Records(s[1], registers[rt], s[2], <<r>>, "none")
  /\ UNCHANGED memory

\* MFHI, MFLO, MTHI and MTLO.
Move ==
  /\ Fetched
  /\ \E m \in ({HiReg, LoReg} \X Rd) \cup (Rs \X {HiReg, LoReg}) :
       Completes([registers EXCEPT ![m[2]] = registers[m[1]]], NoLoad, nextPc + 4)
  /\ Records("move", 0, 0, <<>>, "none")
  /\ UNCHANGED memory

Magnitude(w) == IF IsNegative(w) THEN ToWord(- w) ELSE w

\* One round of the loop of Mult.
MultRound(m) ==
  LET lo == ToWord(m.lo + m.bLo)
      carry == IF lo < m.bLo THEN 1 ELSE 0
      add == m.a % 2 = 1
  IN [hi |-> IF add THEN ToWord(m.hi + carry + m.bHi) ELSE m.hi,
      lo |-> IF add THEN lo ELSE m.lo,
      bHi |-> ToWord(2 * m.bHi + (IF IsNegative(m.bLo) THEN 1 ELSE 0)),
      bLo |-> ToWord(2 * m.bLo),
      a |-> ToWord(Signed(m.a) \div 2)]

\* The registers of Mult after each round.
Rounds(x, y) ==
  LET m[n \in 0 .. WordBits] ==
        IF n = 0 THEN [hi |-> 0, lo |-> 0, bHi |-> 0, bLo |-> y, a |-> x]
        ELSE MultRound(m[n - 1])
  IN  m

\* Mult: <<hi, lo>>.  Leaving the loop early changes nothing.
Mult(a, b, signed) ==
  LET negative == signed /\ IsNegative(a) # IsNegative(b)
      x == IF signed THEN Magnitude(a) ELSE a
      y == IF signed THEN Magnitude(b) ELSE b
      m == Rounds(x, y)[WordBits]
      lo == ToWord(- m.lo)
      hi == Size - 1 - m.hi + (IF lo = 0 THEN 1 ELSE 0)
  IN  IF a = 0 \/ b = 0 THEN <<0, 0>>
      ELSE IF negative THEN <<ToWord(hi), lo>> ELSE <<m.hi, m.lo>>

\* Division of C, which rounds towards 0: <<remainder, quotient>>.
Div(a, b) ==
  LET q == Magnitude(a) \div Magnitude(b)
      quotient == IF IsNegative(a) = IsNegative(b) THEN q ELSE - q
  IN  <<ToWord(Signed(a) - quotient * Signed(b)), ToWord(quotient)>>

HiLo(op, a, b) ==
  CASE op = "MULT" -> Mult(a, b, TRUE)
    [] op = "MULTU" -> Mult(a, b, FALSE)
    [] op \in {"DIV", "DIVU"} /\ b = 0 -> <<0, 0>>
    [] op = "DIV" /\ b # 0 -> Div(a, b)
    [] op = "DIVU" /\ b # 0 -> <<a % b, a \div b>>

\* The host's division of the least int by -1 traps.
MultiplyDivide ==
  /\ Fetched
  /\ \E op \in {"MULT", "MULTU", "DIV", "DIVU"}, rs \in Rs, rt \in Rt :
       LET a == registers[rs]
           b == registers[rt]
           r == HiLo(op, a, b)
       IN IF op = "DIV" /\ a = Size \div 2 /\ b = Size - 1
          THEN Aborts /\ Records(op, a, b, <<>>, "fault")
          ELSE /\ Completes([registers EXCEPT ![HiReg] = r[1], ![LoReg] = r[2]], NoLoad,
                            nextPc + 4)
               /\ Records(op, a, b, r, "none")
               /\ UNCHANGED memory

Links == {"BGEZAL", "BLTZAL", "JAL"}
Linked(op) == IF op \in Links THEN [registers EXCEPT ![31] = Next4] ELSE registers

Taken(op, a, b) ==
  CASE op = "BEQ" -> a = b
    [] op = "BNE" -> a # b
    [] op \in {"BGEZ", "BGEZAL"} -> ~ IsNegative(a)
    [] op \in {"BLTZ", "BLTZAL"} -> IsNegative(a)
    [] op = "BGTZ" -> Signed(a) > 0
    [] op = "BLEZ" -> Signed(a) <= 0

\* The branches that link set register 31 before they test theirs.
Branch ==
  /\ Fetched
  /\ \E op \in {"BEQ", "BNE", "BGEZ", "BGEZAL", "BLTZ", "BLTZAL", "BGTZ", "BLEZ"},
        rs \in Rs, rt \in Rt, x \in Immediates :
       LET regs == Linked(op)
           taken == Taken(op, regs[rs], regs[rt])
       IN  /\ Completes(regs, NoLoad, nextPc + (IF taken THEN 4 * x ELSE 4))
           /\ Records(op, regs[rs], regs[rt], <<>>, "none")
  /\ UNCHANGED memory

\* J and JAL keep the top four bits of the program counter.
Jump ==
  /\ Fetched
  /\ \/ \E op \in {"J", "JAL"}, x \in Targets :
          Completes(Linked(op), NoLoad, Next4 - (Next4 % 2 ^ (WordBits - 4)) + 4 * x)
     \/ \E rs \in Rs : Completes(registers, NoLoad, registers[rs])
     \/ \E rs \in Rs, rd \in Rd :
          LET regs == [registers EXCEPT ![rd] = Next4]
          IN  Completes(regs, NoLoad, regs[rs])
  /\ Records("jump", 0, 0, <<>>, "none")
  /\ UNCHANGED memory

SizeOf(op) ==
  CASE op \in {"LB", "LBU", "SB"} -> 1
    [] op \in {"LH", "LHU", "SH"} -> 2
    [] OTHER -> 4

\* The value of a load, extended with its sign or 0; LWR of an aligned word takes
\* its highest byte to the lowest of the register, or of the pending load of it.
Extended(op, value, rt) ==
  LET half == Bits(SizeOf(op)) \div 2
      old == IF load.reg = rt THEN load.value ELSE registers[rt]
  IN  CASE op \in {"LB", "LH"} /\ value >= half -> value + Size - 2 * half
        [] op = "LWR" -> old - (old % Bits(1)) + value \div Bits(3)
        [] OTHER -> value

\* What a store writes; SWR of an aligned word, its lowest byte to the highest.
Stores(op, rt, at) ==
  IF op = "SWR"
  THEN (Bytes(at, 4) % Bits(3)) + ToWord(registers[rt] * Bits(3))
  ELSE registers[rt]

Access(op, addr, rt) ==
  LET store == op \in {"SB", "SH", "SW", "SWL", "SWR"}
      size == SizeOf(op)
      where == Translate(addr, size, store)
      value == Extended(op, Bytes(where.address, size), rt)
  IN
  IF op \in {"LWL", "LWR", "SWL", "SWR"} /\ addr % 4 # 0
  THEN Aborts /\ Records(op, addr, 0, <<>>, "fault")
  ELSE IF where.exception # "none"
  THEN Raises(where.exception) /\ Records(op, addr, 0, <<>>, where.exception)
  ELSE IF store
  THEN /\ memory' = Stored(where.address, size, Stores(op, rt, where.address))
       /\ Completes(registers, NoLoad, nextPc + 4)
       /\ Records(op, addr, registers[rt], <<>>, "none")
  ELSE /\ Completes(registers, [reg |-> rt, value |-> value], nextPc + 4)
       /\ Records(op, addr, rt, <<value>>, "none")
       /\ UNCHANGED memory

LoadStore ==
  /\ Fetched
  /\ \E op \in {"LB", "LBU", "LH", "LHU", "LW", "LWL", "LWR",
                "SB", "SH", "SW", "SWL", "SWR"},
        rs \in Rs, rt \in Rt, x \in Immediates :
       Access(op, ToWord(registers[rs] + x), rt)

\* SYSCALL, and OP_RES and OP_UNIMP.
Trap ==
  /\ Fetched
  /\ \E which \in {"Syscall", "IllegalInstr"} :
       Raises(which) /\ Records("trap", Loaded(registers)[2], 0, <<>>, which)

\* Between two instructions an interrupt handler is called, the timer's for
\* example, and CheckIfDue finishes the pending load before its delay slot.
Interrupted ==
  /\ Running
  /\ load # NoLoad
  /\ registers' = Loaded(registers)
  /\ load' = NoLoad
  /\ Records("interrupt", 0, 0, <<>>, "none")
  /\ UNCHANGED <<pc, nextPc, memory, status, steps>>

Next ==
  \/ FetchFails \/ Arithmetic \/ Shift \/ Move \/ MultiplyDivide
  \/ Branch \/ Jump \/ LoadStore \/ Trap \/ Interrupted

Spec == Init /\ [][Next]_vars

-----------------------------------------------------------------------------

InRange(n) == n \in - (Size \div 2) .. (Size \div 2) - 1

\* The byte, halfword or word that a load from this address finds.
InMemory(op, addr) == Bytes(Translate(addr, SizeOf(op), FALSE).address, SizeOf(op))

\* The instructions that are computed in another way than by an operator of the
\* host do what arithmetic says: the sign tests of ADD, ADDI and SUB raise an
\* exception exactly when the sum or the difference is not an int, Mult's loop
\* gives the product in two words even of the least int, whose negation
\* overflows, a division its quotient and remainder, and what LB and LH load has
\* the value of the byte or halfword in memory, read as a number with a sign.
ExactArithmetic ==
  LET a == Signed(last.a)
      b == Signed(last.b)
      r == last.result
      Checked(exact) == /\ last.raised = "Overflow" <=> ~ InRange(exact)
                        /\ InRange(exact) => r = <<ToWord(exact)>>
  IN
  CASE last.op \in {"ADD", "ADDI"} -> Checked(a + b)
    [] last.op = "SUB" -> Checked(a - b)
    [] last.op = "MULT" -> Signed(r[1]) * Size + r[2] = a * b
    [] last.op = "MULTU" -> r[1] * Size + r[2] = last.a * last.b
    [] last.op = "DIV" /\ b # 0 /\ last.raised = "none" ->
         /\ Signed(r[2]) * b + Signed(r[1]) = a
         /\ Magnitude(r[1]) < Magnitude(last.b)
         /\ r[1] # 0 => (IsNegative(r[1]) <=> a < 0)
    [] last.op \in {"LB", "LH"} /\ last.raised = "none" ->
         /\ r[1] % Bits(SizeOf(last.op)) = InMemory(last.op, last.a)
         /\ Signed(r[1]) \in - (Bits(SizeOf(last.op)) \div 2) .. Bits(SizeOf(last.op)) \div 2 - 1
    [] OTHER -> TRUE

\* A trap is precise, although instructions write registers and memory one after
\* the other: an instruction that raises an exception has changed nothing, so it
\* could be executed again once its cause is removed ("re-start the instruction
\* execution from the beginning"), and a system call that returns is not made
\* again.  A load that was pending is done in any case, and only once, by the
\* instruction after it, a trap or an interrupt.
PreciseTraps ==
  [][ /\ last'.raised \notin {"none", "fault"} =>
           /\ registers' = [registers EXCEPT ![load.reg] = load.value, ![0] = 0]
           /\ memory' = memory
           /\ load' = NoLoad
           /\ IF status' = "running" THEN <<pc, nextPc>>' = <<nextPc, Next4>>
              ELSE UNCHANGED <<pc, nextPc>>
      /\ load.reg # 0 /\ status' # "aborted" => registers'[load.reg] = load.value ]_vars

=============================================================================
