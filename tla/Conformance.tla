----------------------------- MODULE Conformance -----------------------------
(***************************************************************************)
(* The arithmetic of alu.rs and of the atomics, and narrow accesses to     *)
(* memory, against what the RISC-V manual says of each instruction: one    *)
(* operation on every pair of words.  The reference works bit by bit or    *)
(* characterises the result; it shares nothing with the model of the code. *)
(***************************************************************************)
EXTENDS ArithmeticLogicUnit, ProcessMemory

VARIABLES
  a, b,     \* the operands
  done,     \* the operation: its function, or a store and a load
  result    \* a word, or NULL when the simulator panics

vars == <<a, b, done, result>>

Nothing == <<>>
NoBytes == [n \in Mapped |-> 0]

AluFunctions == Function \ (FunctionsOf("Amo") \cup FunctionsOf("System")
                              \cup FunctionsOf("MiscMem") \cup FpOpcodes)
AmoFunctions == FunctionsOf("Amo") \ {"Lrw", "Scw"}

Init == a \in Word /\ b \in Word /\ done = Nothing /\ result = 0

Compute ==
  /\ done = Nothing
  /\ \E f \in AluFunctions :
       /\ done' = <<f>>
       /\ result' = IF AluPanics(f, a, b) THEN NULL ELSE Alu(f, a, b)
  /\ UNCHANGED <<a, b>>

ComputeAtomic ==
  /\ done = Nothing
  /\ \E f \in AmoFunctions :
       /\ done' = <<f>>
       /\ result' = IF AmoPanics(f, a, b) THEN NULL ELSE AmoValue(f, a, b)
  /\ UNCHANGED <<a, b>>

(* The word a, then some of b over it, then a load of some of that.        *)
StoreAndLoad ==
  /\ done = Nothing
  /\ \E s \in FunctionsOf("Store"), l \in FunctionsOf("Load"), off \in 0 .. WordSize - 1 :
       LET word == Written(NoBytes, StackStart, WordSize, a)
           both == Written(word, StackStart, AccessSize(s), b)
       IN  /\ Readable(StackStart + off, AccessSize(l))
           /\ done' = <<s, l, off>>
           /\ result' = LoadValue(both, l, StackStart + off)
  /\ UNCHANGED <<a, b>>

Ended == done # Nothing /\ UNCHANGED vars

Next == Compute \/ ComputeAtomic \/ StoreAndLoad \/ Ended

Spec == Init /\ [][Next]_vars

-----------------------------------------------------------------------------
(* The manual                                                              *)

Bit(x, i)  == (x \div 2 ^ i) % 2 = 1
Top        == WordBits - 1
FromBits(P(_)) ==
  LET sum[i \in 0 .. WordBits] == IF i = 0 THEN 0
                                  ELSE sum[i - 1] + IF P(i - 1) THEN 2 ^ (i - 1) ELSE 0
  IN  sum[WordBits]

(* The integer a word stands for. *)
AsSigned(x) == x - IF Bit(x, Top) THEN WordMod ELSE 0
Word2(x)    == CHOOSE w \in Word : (x - w) % WordMod = 0
Truth(p)    == IF p THEN 1 ELSE 0

SignedLess(x, y) == IF Bit(x, Top) = Bit(y, Top) THEN x < y ELSE Bit(x, Top)

(* The quotient and the remainder of division towards zero.                *)
DividesInto(x, y, q, r) ==
  /\ x = q * y + r
  /\ Abs(r) < Abs(y)
  /\ r # 0 => (r < 0) = (x < 0)

Quotients == -WordMod .. WordMod
DivOf(x, y) == CHOOSE q \in Quotients : \E r \in Quotients : DividesInto(x, y, q, r)
RemOf(x, y) == CHOOSE r \in Quotients : \E q \in Quotients : DividesInto(x, y, q, r)

(* Division by zero does not trap: all ones, and the dividend.             *)
Manual(f) ==
  LET x     == AsSigned(a)
      y     == AsSigned(b)
      shift == b % WordBits
  IN
  CASE f \in {"Add", "Addi", "AuiPc", "Jal", "Jalr", "Amoaddw"}
         \cup FunctionsOf("Load") \cup FunctionsOf("Store") -> Word2(x + y)
    [] f = "Sub"                         -> Word2(x - y)
    [] f = "Lui"                         -> b
    [] f = "Amoswapw"                    -> b
    [] f \in {"And", "Andi", "Amoandw"}  -> FromBits(LAMBDA i : Bit(a, i) /\ Bit(b, i))
    [] f \in {"Or", "Ori", "Amoorw"}     -> FromBits(LAMBDA i : Bit(a, i) \/ Bit(b, i))
    [] f \in {"Xor", "Xori", "Amoxorw"}  -> FromBits(LAMBDA i : Bit(a, i) # Bit(b, i))
    [] f \in {"Sll", "Slli"} -> FromBits(LAMBDA i : i >= shift /\ Bit(a, i - shift))
    [] f \in {"Srl", "Srli"} -> FromBits(LAMBDA i : i + shift <= Top /\ Bit(a, i + shift))
    [] f \in {"Sra", "Srai"} ->
         FromBits(LAMBDA i : Bit(a, IF i + shift <= Top THEN i + shift ELSE Top))
    [] f \in {"Slt", "Slti", "Blt"}      -> Truth(SignedLess(a, b))
    [] f \in {"Sltu", "Sltiu", "Bltu"}   -> Truth(a < b)
    [] f = "Bge"                         -> Truth(~SignedLess(a, b))
    [] f = "Bgeu"                        -> Truth(a >= b)
    [] f = "Beq"                         -> Truth(a = b)
    [] f = "Bne"                         -> Truth(a # b)
    [] f = "Amomaxw"                     -> IF SignedLess(a, b) THEN b ELSE a
    [] f = "Amominw"                     -> IF SignedLess(a, b) THEN a ELSE b
    [] f = "Amomaxuw"                    -> IF a < b THEN b ELSE a
    [] f = "Amominuw"                    -> IF a < b THEN a ELSE b
    [] f = "Mul"                         -> (a * b) % WordMod
    [] f = "Mulh"                        -> Word2((x * y) \div WordMod)
    [] f = "Mulhu"                       -> (a * b) \div WordMod
    [] f = "Mulhsu"                      -> Word2((x * b) \div WordMod)
    [] f = "Divu"                        -> IF b = 0 THEN WordMod - 1 ELSE a \div b
    [] f = "Remu"                        -> IF b = 0 THEN a ELSE a % b
    [] f = "Div"                         -> IF b = 0 THEN WordMod - 1 ELSE Word2(DivOf(x, y))
    [] f = "Rem"                         -> IF b = 0 THEN a ELSE Word2(RemOf(x, y))

(* Bit k of the word in memory after the store s, and of the word that the *)
(* load l makes of it.                                                     *)
ByteBits   == WordBits \div WordSize
StoredBit(s, k) == IF k < ByteBits * AccessSize(s) THEN Bit(b, k) ELSE Bit(a, k)

LoadedWord(s, l, off) ==
  LET width == ByteBits * AccessSize(l)
      sign  == l \in {"Lb", "Lh", "Lw"} /\ StoredBit(s, off * ByteBits + width - 1)
  IN  FromBits(LAMBDA i : IF i < width THEN StoredBit(s, off * ByteBits + i) ELSE sign)

-----------------------------------------------------------------------------

HighProducts == {"Mulhu", "Mulhsu"}

(* Whatever the simulator computes is what the manual says, for every      *)
(* function but mulhu and mulhsu of a negative operand.                    *)
ComputesWhatTheManualSays ==
  (Len(done) = 1 /\ result # NULL) =>
    \/ result = Manual(done[1])
    \/ done[1] \in HighProducts /\ (Bit(a, Top) \/ Bit(b, Top))

(* A load returns the bytes stored last, of stores of different widths,    *)
(* extended as its function says: little-endian reads and writes through   *)
(* casts of pointers and narrow integers.                                  *)
LoadsExtendWhatWasStored ==
  Len(done) = 3 /\ done[3] + AccessSize(done[2]) <= WordSize
    => result = LoadedWord(done[1], done[2], done[3])

(* The high word of a product is the manual's, unsigned operands included. *)
HighProductIsUnsigned ==
  (Len(done) = 1 /\ done[1] \in HighProducts /\ result # NULL) => result = Manual(done[1])

(* No instruction traps on its operands: the manual defines division by    *)
(* zero and overflow.                                                      *)
ArithmeticNeverTraps == result # NULL
=============================================================================
