------------------------- MODULE ArithmeticLogicUnit -------------------------
(***************************************************************************)
(* alu.rs and the arithmetic of the atomics (functional_units/memory.rs)   *)
(* at a word of WordBits bits: values for Machine's constant operators.    *)
(* The operators come in pairs, the result and whether computing it        *)
(* panics; the result is arbitrary when it does.                           *)
(***************************************************************************)
EXTENDS Machine
LOCAL INSTANCE Bitwise

CONSTANTS
  WordBits,        \* bits of a word
  OverflowChecks   \* whether the build checks overflow, as `cargo build` does

ASSUME WidthAssumption == WordMod = 2 ^ WordBits /\ OverflowChecks \in BOOLEAN

(* `as i32`, and back with `as u32`.                                       *)
Signed(a)   == IF 2 * a < WordMod THEN a ELSE a - WordMod
Unsigned(x) == x % WordMod

(* `i32 as u64`, which sign-extends, and the number of values of a u64.    *)
DoubleMod == WordMod * WordMod
Widened(a) == Signed(a) % DoubleMod

ShiftLeft(a, n)  == Unsigned(a * 2 ^ n)
ShiftRight(x, n) == x \div 2 ^ n

(* Division truncating towards zero, and the remainder that goes with it.  *)
Abs(x) == IF x < 0 THEN -x ELSE x

(* Mutant: division towards minus infinity. *)
FloorQuotient(x, y) == IF y > 0 THEN x \div y ELSE (-x) \div (-y)

Quotient(x, y)  == LET q == Abs(x) \div Abs(y)
                   IN  IF (x < 0) = (y < 0) THEN q ELSE -q
Remainder(x, y) == x - y * Quotient(x, y)

-----------------------------------------------------------------------------

AluPanicsOp(function, a, b) ==
  \/ function \in DivFunctions /\ b = 0
  \/ function \in {"Div", "Rem"} /\ Signed(a) = -(WordMod \div 2) /\ Signed(b) = -1
  \/ /\ OverflowChecks /\ function \in FunctionsOf("Load") \cup FunctionsOf("Store")
     /\ Signed(a) + Signed(b) \notin -(WordMod \div 2) .. (WordMod \div 2 - 1)
  \/ OverflowChecks /\ function \in {"Slli", "Srli", "Srai"} /\ b >= WordBits
  \/ /\ OverflowChecks /\ function \in {"Mulhu", "Mulhsu"}
     /\ Widened(a) * Widened(b) >= DoubleMod

AluOp(function, a, b) ==
  LET x == Signed(a)
      y == Signed(b)
      n == b % WordBits
  IN
  IF AluPanicsOp(function, a, b) THEN 0 ELSE
  CASE function \in {"Add", "Addi", "AuiPc", "Jal", "Jalr"} -> WrapAdd(a, b)
    [] function \in FunctionsOf("Load") \cup FunctionsOf("Store") -> WrapAdd(a, b)
    [] function = "Sub"                -> Unsigned(a - b)
    [] function \in {"Slt", "Slti"}    -> AsWord(x < y)
    [] function \in {"Sltu", "Sltiu"}  -> AsWord(a < b)
    [] function \in {"And", "Andi"}    -> a & b
    [] function \in {"Or", "Ori"}      -> a | b
    [] function \in {"Xor", "Xori"}    -> a ^^ b
    [] function \in {"Sll", "Slli"}    -> ShiftLeft(a, n)
    [] function \in {"Srl", "Srli"}    -> ShiftRight(a, n)
    [] function \in {"Sra", "Srai"}    -> Unsigned(ShiftRight(x, n))
    [] function = "Lui"                -> b
    [] function = "Beq"                -> AsWord(a = b)
    [] function = "Bne"                -> AsWord(a # b)
    [] function = "Blt"                -> AsWord(x < y)
    [] function = "Bltu"               -> AsWord(a < b)
    [] function = "Bge"                -> AsWord(x >= y)
    [] function = "Bgeu"               -> AsWord(a >= b)
    [] function = "Mul"                -> Unsigned(x * y)
    [] function = "Mulh"               -> Unsigned((x * y) \div WordMod)
    [] function \in {"Mulhu", "Mulhsu"} ->
         ((Widened(a) * Widened(b)) % DoubleMod) \div WordMod
    [] function = "Div"                -> Unsigned(Quotient(x, y))
    [] function = "Divu"               -> a \div b
    [] function = "Rem"                -> Unsigned(Remainder(x, y))
    [] function = "Remu"               -> a % b
    [] OTHER                           -> 0

-----------------------------------------------------------------------------

(* The atomics; `value + value_to_calc` is the only checked one.           *)
AmoPanicsOp(function, old, rs2) ==
  OverflowChecks /\ function = "Amoaddw" /\ old + rs2 >= WordMod

AmoValueOp(function, old, rs2) ==
  LET Pick(first) == IF first THEN old ELSE rs2 IN
  CASE function = "Amoaddw"  -> WrapAdd(old, rs2)
    [] function = "Amoandw"  -> old & rs2
    [] function = "Amoorw"   -> old | rs2
    [] function = "Amoxorw"  -> old ^^ rs2
    [] function = "Amomaxuw" -> Pick(old > rs2)
    [] function = "Amomaxw"  -> Pick(Signed(old) > Signed(rs2))
    [] function = "Amominuw" -> Pick(old < rs2)
    [] function = "Amominw"  -> Pick(Signed(old) < Signed(rs2))
    [] function = "Amoswapw" -> rs2
    [] OTHER                 -> 0
=============================================================================
