------------------------------ MODULE MCDecoder ------------------------------
(***************************************************************************)
(* Instructions and words to decode.                                       *)
(***************************************************************************)
EXTENDS Decoding

CONSTANT Registers   \* register numbers to try

(* Immediates of a format: each bit alone, none and all, and their         *)
(* negatives where the format sign-extends.                                *)
Immediates(format, function) ==
  LET top  == SignBit(format)
      bits == LowBit(format) .. top
      Extended(s) == IF top \in s THEN s \cup top .. 31 ELSE s
  IN  IF ImmShift(function) THEN {{}, 0 .. 4} \cup {{k} : k \in 0 .. 4}
      ELSE {Extended(s) : s \in {{}, bits} \cup {{k} : k \in bits} \cup {bits \ {k} : k \in bits}}

Some(present, set) == IF present THEN set ELSE {NULL}

InstructionsOf(opcode, function) ==
  LET format == FormatOf(opcode) IN
  [opcode : {opcode}, function : {function},
   rd  : Some(HasRd(format), Registers),
   rs1 : Some(HasRs1(format), Registers),
   rs2 : Some(HasRs2(format), Registers),
   imm : IF HasImm(format) THEN Immediates(format, function) ELSE {NULL}]

(* An ecall and an ebreak, with registers the manual leaves zero. *)
SystemInstructions ==
  {[opcode |-> "System", function |-> f, rd |-> r, rs1 |-> s, rs2 |-> NULL,
    imm |-> IF f = "Ebreak" THEN {0} ELSE {}] :
     f \in {"Ecall", "Ebreak"}, r \in Registers, s \in Registers}

AllInstructions(ignored) ==
  SystemInstructions \cup
  UNION {UNION {InstructionsOf(o, f) : f \in FunctionsOf(o)} :
           o \in Opcode \ (FpOpcodes \cup {"System"})}

(* Every funct3 and funct7 with the opcodes of the table and some others,  *)
(* with and without a bit in rs2, and the two special words.               *)
AllWords(ignored) ==
  {Placed(o, 0) \cup Placed(9, 7) \cup Placed(f3, 12) \cup Placed(5, 15)
     \cup Placed(r2, 20) \cup Placed(f7, 25) :
     o \in {55, 23, 111, 103, 99, 3, 35, 51, 19, 15, 115, 47, 7, 39, 67, 71, 75, 79, 83}
          \cup {0, 63, 123}, f3 \in 0 .. 7, r2 \in 0 .. 2, f7 \in 0 .. 127}
  \cup Unnecessary

EveryInstruction == AllInstructions(0)
EveryWord == AllWords(0)
=============================================================================
