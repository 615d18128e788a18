---------------------------- MODULE DecoderProofs ----------------------------
(***************************************************************************)
(* Proofs about the decoder, for every word of 32 bits and for every       *)
(* instruction an assembler can write.                                     *)
(***************************************************************************)
EXTENDS Decoding, TLAPS

-----------------------------------------------------------------------------
(* Bits and numbers                                                        *)

Weight(b) == 2 ^ b

LEMMA PowersOfTwo ==
  /\ Weight(0) = 1 /\ Weight(1) = 2 /\ Weight(2) = 4 /\ Weight(3) = 8 /\ Weight(4) = 16
  /\ Weight(5) = 32 /\ Weight(6) = 64
  /\ \A b \in 7 .. 30 : Weight(b) \in Nat /\ Weight(b) >= 128
<1>1. /\ 2 ^ 0 = 1 /\ 2 ^ 1 = 2 /\ 2 ^ 2 = 4 /\ 2 ^ 3 = 8 /\ 2 ^ 4 = 16 /\ 2 ^ 5 = 32 /\ 2 ^ 6 = 64
  OBVIOUS
<1>2. ASSUME NEW b \in 7 .. 30 PROVE 2 ^ b \in Nat /\ 2 ^ b >= 128
  <2>1. /\ 2 ^ 7 \in Nat /\ 2 ^ 7 >= 128
        /\ 2 ^ 8 \in Nat /\ 2 ^ 8 >= 128
        /\ 2 ^ 9 \in Nat /\ 2 ^ 9 >= 128
        /\ 2 ^ 10 \in Nat /\ 2 ^ 10 >= 128
        /\ 2 ^ 11 \in Nat /\ 2 ^ 11 >= 128
        /\ 2 ^ 12 \in Nat /\ 2 ^ 12 >= 128
        /\ 2 ^ 13 \in Nat /\ 2 ^ 13 >= 128
        /\ 2 ^ 14 \in Nat /\ 2 ^ 14 >= 128
        /\ 2 ^ 15 \in Nat /\ 2 ^ 15 >= 128
        /\ 2 ^ 16 \in Nat /\ 2 ^ 16 >= 128
        /\ 2 ^ 17 \in Nat /\ 2 ^ 17 >= 128
        /\ 2 ^ 18 \in Nat /\ 2 ^ 18 >= 128
        /\ 2 ^ 19 \in Nat /\ 2 ^ 19 >= 128
        /\ 2 ^ 20 \in Nat /\ 2 ^ 20 >= 128
        /\ 2 ^ 21 \in Nat /\ 2 ^ 21 >= 128
        /\ 2 ^ 22 \in Nat /\ 2 ^ 22 >= 128
        /\ 2 ^ 23 \in Nat /\ 2 ^ 23 >= 128
        /\ 2 ^ 24 \in Nat /\ 2 ^ 24 >= 128
        /\ 2 ^ 25 \in Nat /\ 2 ^ 25 >= 128
        /\ 2 ^ 26 \in Nat /\ 2 ^ 26 >= 128
        /\ 2 ^ 27 \in Nat /\ 2 ^ 27 >= 128
        /\ 2 ^ 28 \in Nat /\ 2 ^ 28 >= 128
        /\ 2 ^ 29 \in Nat /\ 2 ^ 29 >= 128
        /\ 2 ^ 30 \in Nat /\ 2 ^ 30 >= 128
    OBVIOUS
  <2>2. \/ b = 7 \/ b = 8 \/ b = 9 \/ b = 10 \/ b = 11 \/ b = 12 \/ b = 13 \/ b = 14
        \/ b = 15 \/ b = 16 \/ b = 17 \/ b = 18 \/ b = 19 \/ b = 20 \/ b = 21 \/ b = 22
        \/ b = 23 \/ b = 24 \/ b = 25 \/ b = 26 \/ b = 27 \/ b = 28 \/ b = 29 \/ b = 30
    OBVIOUS
  <2>. QED
    BY <2>1, <2>2, Zenon
<1>. QED
  BY <1>1, <1>2, Zenon DEF Weight

(* A number below 128 has the bits that are its binary digits.             *)
LEMMA SmallBits ==
  ASSUME NEW n \in 0 .. 127
  PROVE  \A b \in Int : b \in BitsOf(n) <=>
           \/ b = 0 /\ n % 2 = 1
           \/ b = 1 /\ (n \div 2) % 2 = 1
           \/ b = 2 /\ (n \div 4) % 2 = 1
           \/ b = 3 /\ (n \div 8) % 2 = 1
           \/ b = 4 /\ (n \div 16) % 2 = 1
           \/ b = 5 /\ (n \div 32) % 2 = 1
           \/ b = 6 /\ (n \div 64) % 2 = 1
<1>. SUFFICES ASSUME NEW b \in Int
     PROVE b \in BitsOf(n) <=>
           \/ b = 0 /\ n % 2 = 1
           \/ b = 1 /\ (n \div 2) % 2 = 1
           \/ b = 2 /\ (n \div 4) % 2 = 1
           \/ b = 3 /\ (n \div 8) % 2 = 1
           \/ b = 4 /\ (n \div 16) % 2 = 1
           \/ b = 5 /\ (n \div 32) % 2 = 1
           \/ b = 6 /\ (n \div 64) % 2 = 1
  OBVIOUS
<1>1. b \in BitsOf(n) <=> b \in 0 .. 30 /\ (n \div Weight(b)) % 2 = 1
  BY Zenon DEF BitsOf, Weight
<1>2. CASE b \in 7 .. 30
  <2>1. Weight(b) \in Nat /\ Weight(b) > n
    BY <1>2, PowersOfTwo
  <2>2. n \div Weight(b) = 0
    BY <2>1
  <2>. QED
    BY <1>1, <1>2, <2>2
<1>3. CASE b \in 0 .. 6
  <2>1. b = 0 \/ b = 1 \/ b = 2 \/ b = 3 \/ b = 4 \/ b = 5 \/ b = 6
    BY <1>3
  <2>2. n \div 1 = n
    OBVIOUS
  <2>. QED
    BY <1>1, <2>1, <2>2, PowersOfTwo
<1>4. CASE b \notin 0 .. 30
  BY <1>1, <1>4
<1>. QED
  BY <1>2, <1>3, <1>4

LEMMA BitsOfProperties ==
  ASSUME NEW n \in 0 .. 127
  PROVE  /\ BitsOf(n) \subseteq 0 .. 6
         /\ n < 32 => BitsOf(n) \subseteq 0 .. 4
         /\ n < 8  => BitsOf(n) \subseteq 0 .. 2
         /\ Number(BitsOf(n)) = n
<1>1. BitsOf(n) \subseteq Int
  BY DEF BitsOf
<1>2. BitsOf(n) \subseteq 0 .. 6
  BY <1>1, SmallBits
<1>3. ASSUME n < 32 PROVE BitsOf(n) \subseteq 0 .. 4
  <2>1. (n \div 32) % 2 = 0 /\ (n \div 64) % 2 = 0
    BY <1>3
  <2>. QED
    BY <1>1, <2>1, SmallBits
<1>4. ASSUME n < 8 PROVE BitsOf(n) \subseteq 0 .. 2
  <2>1. (n \div 8) % 2 = 0 /\ (n \div 16) % 2 = 0 /\ (n \div 32) % 2 = 0 /\ (n \div 64) % 2 = 0
    BY <1>4
  <2>. QED
    BY <1>1, <2>1, SmallBits
<1>5. Number(BitsOf(n)) = n
  <2>1. /\ 0 \in BitsOf(n) <=> n % 2 = 1
        /\ 1 \in BitsOf(n) <=> (n \div 2) % 2 = 1
        /\ 2 \in BitsOf(n) <=> (n \div 4) % 2 = 1
        /\ 3 \in BitsOf(n) <=> (n \div 8) % 2 = 1
        /\ 4 \in BitsOf(n) <=> (n \div 16) % 2 = 1
        /\ 5 \in BitsOf(n) <=> (n \div 32) % 2 = 1
        /\ 6 \in BitsOf(n) <=> (n \div 64) % 2 = 1
    BY SmallBits
  <2>2. Number(BitsOf(n)) = (n % 2) + 2 * ((n \div 2) % 2) + 4 * ((n \div 4) % 2)
                              + 8 * ((n \div 8) % 2) + 16 * ((n \div 16) % 2)
                              + 32 * ((n \div 32) % 2) + 64 * ((n \div 64) % 2)
    BY <2>1 DEF Number
  <2>. QED
    BY <2>2
<1>. QED
  BY <1>2, <1>3, <1>4, <1>5

LEMMA NumberProperties ==
  ASSUME NEW w \in SUBSET (0 .. 6)
  PROVE  /\ Number(w) \in 0 .. 127
         /\ w \subseteq 0 .. 4 => Number(w) \in 0 .. 31
         /\ w \subseteq 0 .. 2 => Number(w) \in 0 .. 7
         /\ BitsOf(Number(w)) = w
<1>. DEFINE n == Number(w)
<1>1. n \in 0 .. 127
  BY DEF Number
<1>2. w \subseteq 0 .. 4 => n \in 0 .. 31
  <2>1. w \subseteq 0 .. 4 => 5 \notin w /\ 6 \notin w
    OBVIOUS
  <2>. QED
    BY <2>1 DEF Number
<1>3. w \subseteq 0 .. 2 => n \in 0 .. 7
  <2>1. w \subseteq 0 .. 2 => 3 \notin w /\ 4 \notin w /\ 5 \notin w /\ 6 \notin w
    OBVIOUS
  <2>. QED
    BY <2>1 DEF Number
<1>4. /\ n % 2 = 1 <=> 0 \in w
      /\ (n \div 2) % 2 = 1 <=> 1 \in w
      /\ (n \div 4) % 2 = 1 <=> 2 \in w
      /\ (n \div 8) % 2 = 1 <=> 3 \in w
      /\ (n \div 16) % 2 = 1 <=> 4 \in w
      /\ (n \div 32) % 2 = 1 <=> 5 \in w
      /\ (n \div 64) % 2 = 1 <=> 6 \in w
  BY DEF Number
<1>. HIDE DEF n
<1>5. BitsOf(n) \subseteq Int
  BY DEF BitsOf
<1>6. \A b \in Int : b \in BitsOf(n) <=> b \in w
  <2>1. ASSUME NEW b \in Int, b \in BitsOf(n) PROVE b \in w
    BY <1>1, <1>4, <2>1, SmallBits
  <2>2. ASSUME NEW b \in w PROVE b \in BitsOf(n)
    <3>1. b = 0 \/ b = 1 \/ b = 2 \/ b = 3 \/ b = 4 \/ b = 5 \/ b = 6
      OBVIOUS
    <3>. QED
      BY <1>1, <1>4, <3>1, SmallBits
  <2>. QED
    BY <2>1, <2>2
<1>7. BitsOf(n) = w
  <2>1. w \subseteq Int
    OBVIOUS
  <2>. QED
    BY <1>5, <1>6, <2>1
<1>. QED
  BY <1>1, <1>2, <1>3, <1>7 DEF n

-----------------------------------------------------------------------------
(* Shifts and fields                                                       *)

LEMMA ShrMember ==
  ASSUME NEW w \in SUBSET Bits, NEW n \in Bits
  PROVE  /\ Shr(w, n) \subseteq Bits
         /\ \A b \in Int : b \in Shr(w, n) <=> b >= 0 /\ b + n \in w
<1>1. \A b \in Int : b \in Shr(w, n) <=> \E c \in w \cap n .. 31 : b = c - n
  BY DEF Shr
<1>. QED
  BY <1>1 DEF Shr, Bits

LEMMA ShlMember ==
  ASSUME NEW w \in SUBSET Bits, NEW n \in Bits
  PROVE  /\ Shl(w, n) \subseteq Bits
         /\ \A b \in Int : b \in Shl(w, n) <=> b \in Bits /\ b - n \in w
<1>1. \A b \in Int : b \in Shl(w, n) <=> b \in Bits /\ \E c \in w : b = c + n
  BY DEF Shl
<1>2. \A b \in Int : (\E c \in w : b = c + n) <=> b - n \in w
  BY DEF Bits
<1>. QED
  BY <1>1, <1>2 DEF Shl, Bits

LEMMA PlacedMember ==
  ASSUME NEW n \in 0 .. 127, NEW at \in Bits
  PROVE  /\ Placed(n, at) \subseteq at .. at + 6
         /\ n < 32 => Placed(n, at) \subseteq at .. at + 4
         /\ n < 8  => Placed(n, at) \subseteq at .. at + 2
         /\ \A b \in Int : b \in Placed(n, at) <=> b - at \in BitsOf(n)
<1>1. at \in Int
  BY DEF Bits
<1>2. BitsOf(n) \subseteq 0 .. 6 /\ (n < 32 => BitsOf(n) \subseteq 0 .. 4)
      /\ (n < 8 => BitsOf(n) \subseteq 0 .. 2)
  BY BitsOfProperties
<1>3. \A b \in Int : b \in Placed(n, at) <=> \E c \in BitsOf(n) : b = at + c
  BY DEF Placed
<1>4. \A b \in Int : (\E c \in BitsOf(n) : b = at + c) <=> b - at \in BitsOf(n)
  BY <1>1, <1>2
<1>. QED
  BY <1>1, <1>2, <1>3, <1>4 DEF Placed

(* Extracting a field and placing it again leaves its bits.                *)
LEMMA FieldIsPlaced ==
  ASSUME NEW w \in SUBSET Bits, NEW low \in Bits, NEW high \in low .. 31, high - low <= 6
  PROVE  /\ Field(w, low .. high, low) \in 0 .. 127
         /\ high - low <= 4 => Field(w, low .. high, low) \in 0 .. 31
         /\ high - low <= 2 => Field(w, low .. high, low) \in 0 .. 7
         /\ Placed(Field(w, low .. high, low), low) = w \cap low .. high
<1>. DEFINE part == w \cap low .. high
            bits == Shr(part, low)
            n    == Number(bits)
<1>0. low \in Int /\ high \in Int /\ low >= 0 /\ part \in SUBSET Bits
  BY DEF Bits
<1>1. /\ bits \subseteq Bits
      /\ \A b \in Int : b \in bits <=> b >= 0 /\ b + low \in part
  <2>. HIDE DEF part
  <2>. QED
    BY <1>0, ShrMember
<1>2. bits \subseteq 0 .. high - low
  BY <1>0, <1>1 DEF Bits
<1>. HIDE DEF bits
<1>3. /\ bits \in SUBSET (0 .. 6)
      /\ high - low <= 4 => bits \subseteq 0 .. 4
      /\ high - low <= 2 => bits \subseteq 0 .. 2
  BY <1>0, <1>2
<1>4. /\ n \in 0 .. 127 /\ BitsOf(n) = bits
      /\ bits \subseteq 0 .. 4 => n \in 0 .. 31
      /\ bits \subseteq 0 .. 2 => n \in 0 .. 7
  BY <1>3, NumberProperties
<1>5. Field(w, low .. high, low) = n
  BY DEF Field, bits
<1>. HIDE DEF n
<1>6. \A b \in Int : b \in Placed(n, low) <=> b - low \in bits
  BY <1>4, PlacedMember
<1>7. ASSUME NEW b \in Int PROVE b \in Placed(n, low) <=> b \in part
  <2>1. b \in Placed(n, low) <=> b - low \in bits
    BY <1>6, Zenon
  <2>2. b - low \in Int /\ (b - low) + low = b /\ (b \in low .. high => b - low >= 0)
    BY <1>0
  <2>3. b - low \in bits <=> b - low >= 0 /\ b \in part
    <3>. HIDE DEF part
    <3>. QED
      BY <1>1, <2>2
  <2>4. b \in part => b - low >= 0
    BY <2>2
  <2>. HIDE DEF part
  <2>. QED
    BY <2>1, <2>3, <2>4
<1>8. Placed(n, low) \subseteq Int /\ part \subseteq Int
  <2>1. Placed(n, low) \subseteq low .. low + 6
    BY <1>4, PlacedMember
  <2>. QED
    BY <1>0, <2>1
<1>9. Placed(n, low) = part
  BY <1>7, <1>8
<1>. QED
  BY <1>3, <1>4, <1>5, <1>9

(* Placing a number and extracting the field gives the number.             *)
LEMMA PlacedIsField ==
  ASSUME NEW w \in SUBSET Bits, NEW low \in Bits, NEW high \in low .. 31, high - low <= 6,
         NEW n \in 0 .. 127, w \cap low .. high = Placed(n, low)
  PROVE  Field(w, low .. high, low) = n
<1>. DEFINE m == Field(w, low .. high, low)
<1>1. m \in 0 .. 127 /\ Placed(m, low) = Placed(n, low)
  BY FieldIsPlaced
<1>. HIDE DEF m
<1>2. low \in Int
  BY DEF Bits
<1>3. \A b \in Int : b \in BitsOf(m) <=> b \in BitsOf(n)
  <2>1. ASSUME NEW b \in Int PROVE b \in BitsOf(m) <=> b \in BitsOf(n)
    <3>1. b + low \in Int /\ (b + low) - low = b
      BY <1>2
    <3>2. b + low \in Placed(m, low) <=> b \in BitsOf(m)
      BY <1>1, <3>1, PlacedMember
    <3>3. b + low \in Placed(n, low) <=> b \in BitsOf(n)
      BY <3>1, PlacedMember
    <3>. QED
      BY <1>1, <3>2, <3>3
  <2>. QED
    BY <2>1
<1>4. BitsOf(m) = BitsOf(n)
  <2>1. BitsOf(m) \subseteq Int /\ BitsOf(n) \subseteq Int
    BY DEF BitsOf
  <2>. QED
    BY <1>3, <2>1
<1>5. Number(BitsOf(m)) = m /\ Number(BitsOf(n)) = n
  BY <1>1, BitsOfProperties
<1>. QED
  BY <1>4, <1>5 DEF m

-----------------------------------------------------------------------------
(* The fields of a word                                                    *)

(* Each field is a number of its width, and placing it gives its bits.     *)
LEMMA WordFields ==
  ASSUME NEW w \in SUBSET Bits
  PROVE  /\ Field(w, OPCODE_MASK, 0) \in 0 .. 127
         /\ Placed(Field(w, OPCODE_MASK, 0), 0) = w \cap 0 .. 6
         /\ Rd(w) \in 0 .. 31 /\ Placed(Rd(w), 7) = w \cap 7 .. 11
         /\ Funct3(w) \in 0 .. 7 /\ Placed(Funct3(w), 12) = w \cap 12 .. 14
         /\ Rs1(w) \in 0 .. 31 /\ Placed(Rs1(w), 15) = w \cap 15 .. 19
         /\ Rs2(w) \in 0 .. 31 /\ Placed(Rs2(w), 20) = w \cap 20 .. 24
         /\ Funct7(w) \in 0 .. 127 /\ Placed(Funct7(w), 25) = w \cap 25 .. 31
         /\ Rs3(w) \in 0 .. 31
<1>. DEFINE IsField(low, high) ==
              /\ Field(w, low .. high, low) \in 0 .. 127
              /\ high - low <= 4 => Field(w, low .. high, low) \in 0 .. 31
              /\ high - low <= 2 => Field(w, low .. high, low) \in 0 .. 7
              /\ Placed(Field(w, low .. high, low), low) = w \cap low .. high
<1>0. \A low \in Bits : \A high \in low .. 31 : high - low <= 6 => IsField(low, high)
  BY FieldIsPlaced
<1>1. /\ Field(w, 0 .. 6, 0) \in 0 .. 127
      /\ Placed(Field(w, 0 .. 6, 0), 0) = w \cap 0 .. 6
  <2>1. 0 \in Bits /\ 6 \in 0 .. 31 /\ 6 - 0 <= 6
    BY DEF Bits
  <2>2. IsField(0, 6)
    <3>. HIDE DEF IsField
    <3>. QED
      BY <1>0, <2>1
  <2>. QED
    BY <2>2
<1>2. /\ Field(w, 7 .. 11, 7) \in 0 .. 31
      /\ Placed(Field(w, 7 .. 11, 7), 7) = w \cap 7 .. 11
  <2>1. 7 \in Bits /\ 11 \in 7 .. 31 /\ 11 - 7 <= 6
    BY DEF Bits
  <2>2. IsField(7, 11)
    <3>. HIDE DEF IsField
    <3>. QED
      BY <1>0, <2>1
  <2>. QED
    BY <2>2
<1>3. /\ Field(w, 12 .. 14, 12) \in 0 .. 7
      /\ Placed(Field(w, 12 .. 14, 12), 12) = w \cap 12 .. 14
  <2>1. 12 \in Bits /\ 14 \in 12 .. 31 /\ 14 - 12 <= 6
    BY DEF Bits
  <2>2. IsField(12, 14)
    <3>. HIDE DEF IsField
    <3>. QED
      BY <1>0, <2>1
  <2>. QED
    BY <2>2
<1>4. /\ Field(w, 15 .. 19, 15) \in 0 .. 31
      /\ Placed(Field(w, 15 .. 19, 15), 15) = w \cap 15 .. 19
  <2>1. 15 \in Bits /\ 19 \in 15 .. 31 /\ 19 - 15 <= 6
    BY DEF Bits
  <2>2. IsField(15, 19)
    <3>. HIDE DEF IsField
    <3>. QED
      BY <1>0, <2>1
  <2>. QED
    BY <2>2
<1>5. /\ Field(w, 20 .. 24, 20) \in 0 .. 31
      /\ Placed(Field(w, 20 .. 24, 20), 20) = w \cap 20 .. 24
  <2>1. 20 \in Bits /\ 24 \in 20 .. 31 /\ 24 - 20 <= 6
    BY DEF Bits
  <2>2. IsField(20, 24)
    <3>. HIDE DEF IsField
    <3>. QED
      BY <1>0, <2>1
  <2>. QED
    BY <2>2
<1>6. /\ Field(w, 25 .. 31, 25) \in 0 .. 127
      /\ Placed(Field(w, 25 .. 31, 25), 25) = w \cap 25 .. 31
  <2>1. 25 \in Bits /\ 31 \in 25 .. 31 /\ 31 - 25 <= 6
    BY DEF Bits
  <2>2. IsField(25, 31)
    <3>. HIDE DEF IsField
    <3>. QED
      BY <1>0, <2>1
  <2>. QED
    BY <2>2
<1>7. /\ Field(w, 27 .. 31, 27) \in 0 .. 31
      /\ Placed(Field(w, 27 .. 31, 27), 27) = w \cap 27 .. 31
  <2>1. 27 \in Bits /\ 31 \in 27 .. 31 /\ 31 - 27 <= 6
    BY DEF Bits
  <2>2. IsField(27, 31)
    <3>. HIDE DEF IsField
    <3>. QED
      BY <1>0, <2>1
  <2>. QED
    BY <2>2
<1>. QED
  BY <1>1, <1>2, <1>3, <1>4, <1>5, <1>6, <1>7
     DEF OPCODE_MASK, RD_MASK, FUNCT3_MASK, RS1_MASK, RS2_MASK, FUNCT7_MASK, RS3_MASK,
         Rd, Funct3, Rs1, Rs2, Funct7, Rs3

(* The high five bits of funct7 are what Fields calls rs3.                 *)
LEMMA HighBitsOfFunct7 ==
  ASSUME NEW w \in SUBSET Bits
  PROVE  Rs3(w) = Funct7(w) \div 4
<1>. DEFINE seven == Shr(w \cap 25 .. 31, 25)
            five  == Shr(w \cap 27 .. 31, 27)
<1>1. \A b \in Int : b \in seven <=> b >= 0 /\ b + 25 \in w \cap 25 .. 31
  BY ShrMember DEF Bits
<1>2. \A b \in Int : b \in five <=> b >= 0 /\ b + 27 \in w \cap 27 .. 31
  BY ShrMember DEF Bits
<1>. HIDE DEF seven, five
<1>3. /\ 0 \in five <=> 2 \in seven
      /\ 1 \in five <=> 3 \in seven
      /\ 2 \in five <=> 4 \in seven
      /\ 3 \in five <=> 5 \in seven
      /\ 4 \in five <=> 6 \in seven
      /\ 5 \notin five /\ 6 \notin five
  BY <1>1, <1>2 DEF Bits
<1>4. Number(five) = Number(seven) \div 4
  BY <1>3 DEF Number
<1>. QED
  BY <1>4 DEF Rs3, Funct7, Field, RS3_MASK, FUNCT7_MASK, five, seven

(* Sign-extending the low bits of a word.                                  *)
LEMMA SignExtended ==
  ASSUME NEW n \in 0 .. 20, NEW raw \in SUBSET (0 .. 31 - n)
  PROVE  Sar(Shl(raw, n), n) = raw \cup IF 31 - n \in raw THEN 32 - n .. 31 ELSE {}
<1>. DEFINE up == Shl(raw, n)
<1>1. up \subseteq Bits /\ \A b \in Int : b \in up <=> b \in Bits /\ b - n \in raw
  BY ShlMember DEF Bits
<1>. HIDE DEF up
<1>2. Shr(up, n) \subseteq Bits /\ \A b \in Int : b \in Shr(up, n) <=> b >= 0 /\ b + n \in up
  BY <1>1, ShrMember DEF Bits
<1>3. \A b \in Int : b \in Shr(up, n) <=> b \in raw
  <2>1. ASSUME NEW b \in Int PROVE b \in Shr(up, n) <=> b \in raw
    <3>1. b + n \in Int /\ (b + n) - n = b
      OBVIOUS
    <3>2. b + n \in up <=> b + n \in Bits /\ b \in raw
      BY <1>1, <3>1
    <3>3. b \in raw => b >= 0 /\ b + n \in Bits
      BY DEF Bits
    <3>. QED
      BY <1>2, <3>2, <3>3
  <2>. QED
    BY <2>1
<1>4. Shr(up, n) = raw
  <2>1. raw \subseteq Int /\ Shr(up, n) \subseteq Int
    BY <1>2 DEF Bits
  <2>. QED
    BY <1>3, <2>1
<1>5. 31 \in up <=> 31 - n \in raw
  BY <1>1 DEF Bits
<1>. QED
  BY <1>4, <1>5 DEF Sar, up

-----------------------------------------------------------------------------
(* The codes of opcodes and functions                                      *)

IntegerOpcodes == Opcode \ FpOpcodes

LEMMA MajorCodes ==
  /\ Major("Lui") = 55 /\ Major("AuiPc") = 23 /\ Major("Jal") = 111
  /\ Major("Jalr") = 103 /\ Major("Branch") = 99 /\ Major("Load") = 3
  /\ Major("Store") = 35 /\ Major("OpImm") = 19 /\ Major("Op") = 51
  /\ Major("MiscMem") = 15 /\ Major("System") = 115 /\ Major("Amo") = 47
BY DEF Major

LEMMA OpcodeSets ==
  /\ IntegerOpcodes = {"Lui", "AuiPc", "Jal", "Jalr", "Branch", "Load", "Store", "OpImm",
                       "Op", "MiscMem", "System", "Amo"}
  /\ Opcode = IntegerOpcodes \cup FpOpcodes
BY DEF IntegerOpcodes, Opcode, FpOpcodes

LEMMA FunctionSets ==
  /\ FunctionsOf("Branch") = {"Beq", "Bne", "Blt", "Bge", "Bltu", "Bgeu"}
  /\ FunctionsOf("Load") = {"Lb", "Lh", "Lw", "Lbu", "Lhu"}
  /\ FunctionsOf("Store") = {"Sb", "Sh", "Sw"}
  /\ FunctionsOf("OpImm") = {"Addi", "Slti", "Sltiu", "Xori", "Ori", "Andi", "Slli",
                             "Srli", "Srai"}
  /\ FunctionsOf("Op") = {"Add", "Sub", "Sll", "Slt", "Sltu", "Xor", "Srl", "Sra", "Or",
                          "And", "Mul", "Mulh", "Mulhsu", "Mulhu", "Div", "Divu", "Rem",
                          "Remu"}
  /\ FunctionsOf("MiscMem") = {"Fence", "Fencei"}
  /\ FunctionsOf("System") = {"Ecall", "Ebreak"}
  /\ FunctionsOf("Amo") = {"Lrw", "Scw", "Amoswapw", "Amoaddw", "Amoxorw", "Amoandw",
                           "Amoorw", "Amominw", "Amomaxw", "Amominuw", "Amomaxuw"}
  /\ \A opcode \in FpOpcodes \cup {"Lui", "AuiPc", "Jal", "Jalr"} : FunctionsOf(opcode) = {opcode}
BY DEF FunctionsOf, MulFunctions, DivFunctions, FpOpcodes

LEMMA FunctThreeCodes ==
  /\ FunctThree("Beq") = 0 /\ FunctThree("Bne") = 1 /\ FunctThree("Blt") = 4
  /\ FunctThree("Bge") = 5 /\ FunctThree("Bltu") = 6 /\ FunctThree("Bgeu") = 7
  /\ FunctThree("Lb") = 0 /\ FunctThree("Lh") = 1 /\ FunctThree("Lw") = 2
  /\ FunctThree("Lbu") = 4 /\ FunctThree("Lhu") = 5
  /\ FunctThree("Sb") = 0 /\ FunctThree("Sh") = 1 /\ FunctThree("Sw") = 2
  /\ FunctThree("Addi") = 0 /\ FunctThree("Slti") = 2 /\ FunctThree("Sltiu") = 3
  /\ FunctThree("Xori") = 4 /\ FunctThree("Ori") = 6 /\ FunctThree("Andi") = 7
  /\ FunctThree("Slli") = 1 /\ FunctThree("Srli") = 5 /\ FunctThree("Srai") = 5
  /\ FunctThree("Add") = 0 /\ FunctThree("Sub") = 0 /\ FunctThree("Sll") = 1
  /\ FunctThree("Slt") = 2 /\ FunctThree("Sltu") = 3 /\ FunctThree("Xor") = 4
  /\ FunctThree("Srl") = 5 /\ FunctThree("Sra") = 5 /\ FunctThree("Or") = 6
  /\ FunctThree("And") = 7 /\ FunctThree("Mul") = 0 /\ FunctThree("Mulh") = 1
  /\ FunctThree("Mulhsu") = 2 /\ FunctThree("Mulhu") = 3 /\ FunctThree("Div") = 4
  /\ FunctThree("Divu") = 5 /\ FunctThree("Rem") = 6 /\ FunctThree("Remu") = 7
  /\ FunctThree("Fence") = 0 /\ FunctThree("Fencei") = 1
  /\ FunctThree("Ecall") = 0 /\ FunctThree("Ebreak") = 0
  /\ FunctThree("Lrw") = 2 /\ FunctThree("Scw") = 2 /\ FunctThree("Amoswapw") = 2
  /\ FunctThree("Amoaddw") = 2 /\ FunctThree("Amoxorw") = 2 /\ FunctThree("Amoandw") = 2
  /\ FunctThree("Amoorw") = 2 /\ FunctThree("Amominw") = 2 /\ FunctThree("Amomaxw") = 2
  /\ FunctThree("Amominuw") = 2 /\ FunctThree("Amomaxuw") = 2
  /\ FunctThree("Jalr") = 0
BY FunctionSets DEF FunctThree

LEMMA FunctSevenCodes ==
  /\ \A f \in {"Add", "Slt", "Sltu", "Xor", "Sll", "Srl", "Or", "And", "Slli", "Srli", "Amoaddw"} :
       FunctSeven(f) = 0
  /\ \A f \in {"Mul", "Mulh", "Mulhsu", "Mulhu", "Div", "Divu", "Rem", "Remu"} : FunctSeven(f) = 1
  /\ \A f \in {"Sub", "Sra", "Srai", "Amoorw"} : FunctSeven(f) = 32
  /\ FunctSeven("Amoswapw") = 4 /\ FunctSeven("Lrw") = 8 /\ FunctSeven("Scw") = 12
  /\ FunctSeven("Amoxorw") = 16 /\ FunctSeven("Amoandw") = 48 /\ FunctSeven("Amominw") = 64
  /\ FunctSeven("Amomaxw") = 80 /\ FunctSeven("Amominuw") = 96 /\ FunctSeven("Amomaxuw") = 112
BY DEF FunctSeven, MulFunctions, DivFunctions

(* The opcode of a word, and back.                                         *)
LEMMA OpcodeHasCode ==
  ASSUME NEW w \in SUBSET Bits
  PROVE  /\ OpcodeOf(w) = Undecodable \/ OpcodeOf(w) \in Opcode
         /\ OpcodeOf(w) \in IntegerOpcodes => Major(OpcodeOf(w)) = Field(w, OPCODE_MASK, 0)
<1>. DEFINE code == Field(w, OPCODE_MASK, 0)
<1>1. code \in 0 .. 127
  BY WordFields
<1>2. OpcodeOf(w) = Undecodable \/ OpcodeOf(w) \in Opcode
  BY DEF OpcodeOf, Opcode, FpOpcodes
<1>3. \/ OpcodeOf(w) \notin IntegerOpcodes
      \/ OpcodeOf(w) = "Lui" /\ code = 55
      \/ OpcodeOf(w) = "AuiPc" /\ code = 23
      \/ OpcodeOf(w) = "Jal" /\ code = 111
      \/ OpcodeOf(w) = "Jalr" /\ code = 103
      \/ OpcodeOf(w) = "Branch" /\ code = 99
      \/ OpcodeOf(w) = "Load" /\ code = 3
      \/ OpcodeOf(w) = "Store" /\ code = 35
      \/ OpcodeOf(w) = "OpImm" /\ code = 19
      \/ OpcodeOf(w) = "Op" /\ code = 51
      \/ OpcodeOf(w) = "MiscMem" /\ code = 15
      \/ OpcodeOf(w) = "System" /\ code = 115
      \/ OpcodeOf(w) = "Amo" /\ code = 47
  <2>1. Undecodable \notin IntegerOpcodes
    BY NoneAssumption DEF Undecodable, IntegerOpcodes
  <2>2. /\ "LoadFp" \notin IntegerOpcodes /\ "StoreFp" \notin IntegerOpcodes
        /\ "OpFp" \notin IntegerOpcodes /\ "Fmadd" \notin IntegerOpcodes
        /\ "Fmsub" \notin IntegerOpcodes /\ "Fnmadd" \notin IntegerOpcodes
        /\ "Fnmsub" \notin IntegerOpcodes
    BY OpcodeSets
  <2>. QED
    BY <1>1, <2>1, <2>2 DEF OpcodeOf
<1>. HIDE DEF code
<1>4. OpcodeOf(w) \in IntegerOpcodes => Major(OpcodeOf(w)) = code
  BY <1>3, MajorCodes
<1>. QED
  BY <1>2, <1>4 DEF code

LEMMA CodeHasOpcode ==
  ASSUME NEW w \in SUBSET Bits, NEW opcode \in IntegerOpcodes,
         Field(w, OPCODE_MASK, 0) = Major(opcode)
  PROVE  OpcodeOf(w) = opcode
BY MajorCodes, OpcodeSets DEF OpcodeOf

LEMMA MajorIsSevenBits == \A opcode \in IntegerOpcodes : Major(opcode) \in 0 .. 127
BY MajorCodes, OpcodeSets

(* A function that decodes is one of its opcode, with the codes it has.    *)
LEMMA BranchCodes ==
  ASSUME NEW c \in 0 .. 7, BranchFunction(c) # Undecodable
  PROVE  BranchFunction(c) \in FunctionsOf("Branch") /\ FunctThree(BranchFunction(c)) = c
BY FunctionSets, FunctThreeCodes DEF BranchFunction

LEMMA LoadCodes ==
  ASSUME NEW c \in 0 .. 7, LoadFunction(c) # Undecodable
  PROVE  LoadFunction(c) \in FunctionsOf("Load") /\ FunctThree(LoadFunction(c)) = c
BY FunctionSets, FunctThreeCodes DEF LoadFunction

LEMMA StoreCodes ==
  ASSUME NEW c \in 0 .. 7, StoreFunction(c) # Undecodable
  PROVE  StoreFunction(c) \in FunctionsOf("Store") /\ FunctThree(StoreFunction(c)) = c
BY FunctionSets, FunctThreeCodes DEF StoreFunction

LEMMA FenceCodes ==
  ASSUME NEW c \in 0 .. 7, FenceFunction(c) # Undecodable
  PROVE  FenceFunction(c) \in FunctionsOf("MiscMem") /\ FunctThree(FenceFunction(c)) = c
BY FunctionSets, FunctThreeCodes DEF FenceFunction

LEMMA OpImmCodes ==
  ASSUME NEW c \in 0 .. 7, NEW d \in 0 .. 127, OpImmFunction(c, d) # Undecodable
  PROVE  /\ OpImmFunction(c, d) \in FunctionsOf("OpImm")
         /\ FunctThree(OpImmFunction(c, d)) = c
         /\ ImmShift(OpImmFunction(c, d)) <=> c \in {1, 5}
         /\ OpImmFunction(c, d) = "Slli" <=> c = 1
         /\ c = 5 => FunctSeven(OpImmFunction(c, d)) = d
<1>. DEFINE f == OpImmFunction(c, d)
<1>1. \/ f = "Addi" /\ c = 0
      \/ f = "Slli" /\ c = 1
      \/ f = "Slti" /\ c = 2
      \/ f = "Sltiu" /\ c = 3
      \/ f = "Xori" /\ c = 4
      \/ f = "Ori" /\ c = 6
      \/ f = "Andi" /\ c = 7
      \/ f = "Srli" /\ c = 5 /\ d = 0
      \/ f = "Srai" /\ c = 5 /\ d = 32
  BY DEF OpImmFunction, ShiftRightFunction
<1>. HIDE DEF f
<1>2. f \in FunctionsOf("OpImm")
  BY <1>1, FunctionSets
<1>3. FunctThree(f) = c
  BY <1>1, FunctThreeCodes
<1>4. (ImmShift(f) <=> c \in {1, 5}) /\ (f = "Slli" <=> c = 1)
  BY <1>1 DEF ImmShift
<1>5. c = 5 => FunctSeven(f) = d
  BY <1>1, FunctSevenCodes
<1>. QED
  BY <1>2, <1>3, <1>4, <1>5 DEF f

LEMMA OpCodes ==
  ASSUME NEW c \in 0 .. 7, NEW d \in 0 .. 127, OpFunction(c, d) # Undecodable
  PROVE  /\ OpFunction(c, d) \in FunctionsOf("Op")
         /\ FunctThree(OpFunction(c, d)) = c
         /\ FunctSeven(OpFunction(c, d)) = d
BY FunctionSets, FunctThreeCodes, FunctSevenCodes DEF OpFunction

LEMMA SystemCodes ==
  ASSUME NEW c \in 0 .. 7, NEW imm, SystemFunction(c, imm) # Undecodable
  PROVE  /\ SystemFunction(c, imm) \in FunctionsOf("System")
         /\ FunctThree(SystemFunction(c, imm)) = c
         /\ SystemFunction(c, imm) = "Ebreak" => imm = {0}
BY FunctionSets, FunctThreeCodes DEF SystemFunction

LEMMA AmoCodes ==
  ASSUME NEW c \in 0 .. 7, NEW h \in 0 .. 31, AmoFunction(c, h) # Undecodable
  PROVE  /\ AmoFunction(c, h) \in FunctionsOf("Amo")
         /\ FunctThree(AmoFunction(c, h)) = c
         /\ FunctSeven(AmoFunction(c, h)) = 4 * h
BY FunctionSets, FunctThreeCodes, FunctSevenCodes DEF AmoFunction

(* All opcodes together.                                                   *)
LEMMA FunctionHasCodes ==
  ASSUME NEW w \in SUBSET Bits, NEW opcode \in Opcode, NEW imm,
         FunctionOf(w, opcode, imm) # Undecodable
  PROVE  LET f == FunctionOf(w, opcode, imm) IN
         /\ f \in FunctionsOf(opcode)
         /\ opcode \in IntegerOpcodes \ {"Lui", "AuiPc", "Jal", "Jalr"} => FunctThree(f) = Funct3(w)
         /\ opcode = "Op" => FunctSeven(f) = Funct7(w)
         /\ opcode = "Amo" => FunctSeven(f) = 4 * (Funct7(w) \div 4)
         /\ ImmShift(f) <=> (opcode = "OpImm" /\ Funct3(w) \in {1, 5})
         /\ ImmShift(f) /\ f # "Slli" => FunctSeven(f) = Funct7(w)
         /\ f = "Ebreak" => imm = {0}
<1>. DEFINE f == FunctionOf(w, opcode, imm)
            c == Funct3(w)
            d == Funct7(w)
            h == Rs3(w)
<1>1. c \in 0 .. 7 /\ d \in 0 .. 127 /\ h \in 0 .. 31 /\ h = d \div 4
  BY WordFields, HighBitsOfFunct7
<1>2. CASE opcode = "Branch"
  <2>1. f = BranchFunction(c)
    BY <1>2 DEF FunctionOf
  <2>. HIDE DEF f, c
  <2>2. f \in FunctionsOf(opcode) /\ FunctThree(f) = c
    BY <1>1, <1>2, <2>1, BranchCodes DEF f
  <2>. QED
    BY <1>2, <2>2, FunctionSets DEF ImmShift, f, c
<1>3. CASE opcode = "Load"
  <2>1. f = LoadFunction(c)
    BY <1>3 DEF FunctionOf
  <2>2. f \in FunctionsOf(opcode) /\ FunctThree(f) = c
    BY <1>1, <1>3, <2>1, LoadCodes
  <2>. QED
    BY <1>3, <2>2, FunctionSets DEF ImmShift
<1>4. CASE opcode = "Store"
  <2>1. f = StoreFunction(c)
    BY <1>4 DEF FunctionOf
  <2>2. f \in FunctionsOf(opcode) /\ FunctThree(f) = c
    BY <1>1, <1>4, <2>1, StoreCodes
  <2>. QED
    BY <1>4, <2>2, FunctionSets DEF ImmShift
<1>5. CASE opcode = "MiscMem"
  <2>1. f = FenceFunction(c)
    BY <1>5 DEF FunctionOf
  <2>2. f \in FunctionsOf(opcode) /\ FunctThree(f) = c
    BY <1>1, <1>5, <2>1, FenceCodes
  <2>. QED
    BY <1>5, <2>2, FunctionSets DEF ImmShift
<1>6. CASE opcode = "OpImm"
  <2>1. f = OpImmFunction(c, d)
    BY <1>6 DEF FunctionOf
  <2>2. /\ f \in FunctionsOf(opcode) /\ FunctThree(f) = c
        /\ ImmShift(f) <=> c \in {1, 5}
        /\ f = "Slli" <=> c = 1
        /\ c = 5 => FunctSeven(f) = d
    BY <1>1, <1>6, <2>1, OpImmCodes
  <2>. QED
    BY <1>6, <2>2, FunctionSets
<1>7. CASE opcode = "Op"
  <2>1. f = OpFunction(c, d)
    BY <1>7 DEF FunctionOf
  <2>2. f \in FunctionsOf(opcode) /\ FunctThree(f) = c /\ FunctSeven(f) = d
    BY <1>1, <1>7, <2>1, OpCodes
  <2>. QED
    BY <1>7, <2>2, FunctionSets DEF ImmShift
<1>8. CASE opcode = "System"
  <2>1. f = SystemFunction(c, imm)
    BY <1>8 DEF FunctionOf
  <2>2. f \in FunctionsOf(opcode) /\ FunctThree(f) = c /\ (f = "Ebreak" => imm = {0})
    BY <1>1, <1>8, <2>1, SystemCodes
  <2>. QED
    BY <1>8, <2>2, FunctionSets DEF ImmShift
<1>9. CASE opcode = "Amo"
  <2>1. f = AmoFunction(c, h)
    BY <1>9 DEF FunctionOf
  <2>2. f \in FunctionsOf(opcode) /\ FunctThree(f) = c /\ FunctSeven(f) = 4 * h
    BY <1>1, <1>9, <2>1, AmoCodes
  <2>. QED
    BY <1>1, <1>9, <2>2, FunctionSets DEF ImmShift
<1>10. CASE opcode \in FpOpcodes \cup {"Lui", "AuiPc", "Jal", "Jalr"}
  <2>1. f = opcode
    BY <1>10 DEF FunctionOf, FpOpcodes
  <2>2. opcode \notin IntegerOpcodes \ {"Lui", "AuiPc", "Jal", "Jalr"}
    BY <1>10, OpcodeSets DEF FpOpcodes
  <2>. QED
    BY <1>10, <2>1, <2>2, FunctionSets DEF ImmShift, FpOpcodes
<1>. QED
  BY <1>2, <1>3, <1>4, <1>5, <1>6, <1>7, <1>8, <1>9, <1>10, OpcodeSets

-----------------------------------------------------------------------------
(* Immediates                                                              *)

LEMMA Gathered ==
  ASSUME NEW w \in SUBSET Bits, NEW mask, NEW n \in Bits
  PROVE  /\ Shr(w \cap mask, n) \subseteq Bits
         /\ \A b \in Int : b \in Shr(w \cap mask, n) <=> b >= 0 /\ b + n \in w /\ b + n \in mask
<1>. DEFINE part == w \cap mask
<1>1. part \in SUBSET Bits
  OBVIOUS
<1>2. \A b : b \in part <=> b \in w /\ b \in mask
  OBVIOUS
<1>. HIDE DEF part
<1>3. /\ Shr(part, n) \subseteq Bits
      /\ \A b \in Int : b \in Shr(part, n) <=> b >= 0 /\ b + n \in part
  BY <1>1, ShrMember
<1>. QED
  BY <1>2, <1>3 DEF part

(* Where RawImm finds a bit. *)
RawBit(w, format, b) ==
  CASE format = "I" -> b \in 0 .. 11 /\ b + 20 \in w
    [] format = "S" -> \/ b \in 0 .. 4 /\ b + 7 \in w
                       \/ b \in 5 .. 11 /\ b + 20 \in w
    [] format = "B" -> \/ b \in 1 .. 4 /\ b + 7 \in w
                       \/ b \in 5 .. 10 /\ b + 20 \in w
                       \/ b = 11 /\ 7 \in w
                       \/ b = 12 /\ 31 \in w
    [] format = "U" -> b \in 12 .. 31 /\ b \in w
    [] format = "J" -> \/ b \in 1 .. 10 /\ b + 20 \in w
                       \/ b = 11 /\ 20 \in w
                       \/ b \in 12 .. 19 /\ b \in w
                       \/ b = 20 /\ 31 \in w

(* Where Scattered puts one. *)
ScatteredBit(imm, format, c) ==
  CASE format = "I" -> c \in 20 .. 31 /\ c - 20 \in imm
    [] format = "S" -> \/ c \in 7 .. 11 /\ c - 7 \in imm
                       \/ c \in 25 .. 31 /\ c - 20 \in imm
    [] format = "B" -> \/ c \in 8 .. 11 /\ c - 7 \in imm
                       \/ c \in 25 .. 30 /\ c - 20 \in imm
                       \/ c = 7 /\ 11 \in imm
                       \/ c = 31 /\ 12 \in imm
    [] format = "U" -> c \in 12 .. 31 /\ c \in imm
    [] format = "J" -> \/ c \in 21 .. 30 /\ c - 20 \in imm
                       \/ c = 20 /\ 11 \in imm
                       \/ c \in 12 .. 19 /\ c \in imm
                       \/ c = 31 /\ 20 \in imm

LEMMA ScatteredMember ==
  ASSUME NEW imm \in SUBSET Bits, NEW format \in {"I", "S", "B", "U", "J"}
  PROVE  /\ Scattered(imm, format) \subseteq Bits
         /\ \A c \in Int : c \in Scattered(imm, format) <=> ScatteredBit(imm, format, c)
<1>. DEFINE Moved(bits, by) == {k + by : k \in imm \cap bits}
<1>1. ASSUME NEW bits \in SUBSET Bits, NEW by \in Int
      PROVE  \A c \in Int : c \in Moved(bits, by) <=> c - by \in imm /\ c - by \in bits
  BY DEF Bits
<1>2. ASSUME NEW bits \in SUBSET Bits, NEW by \in Int PROVE Moved(bits, by) \subseteq Int
  BY DEF Bits
<1>3. /\ 0 .. 11 \in SUBSET Bits /\ 0 .. 4 \in SUBSET Bits /\ 5 .. 11 \in SUBSET Bits
      /\ 1 .. 4 \in SUBSET Bits /\ 5 .. 10 \in SUBSET Bits /\ {11} \in SUBSET Bits
      /\ {12} \in SUBSET Bits /\ 12 .. 31 \in SUBSET Bits /\ 1 .. 10 \in SUBSET Bits
      /\ 12 .. 19 \in SUBSET Bits /\ {20} \in SUBSET Bits
  BY DEF Bits
<1>4. /\ format = "I" => Scattered(imm, format) = Moved(0 .. 11, 20)
      /\ format = "S" => Scattered(imm, format) = Moved(0 .. 4, 7) \cup Moved(5 .. 11, 20)
      /\ format = "B" => Scattered(imm, format) =
           Moved(1 .. 4, 7) \cup Moved(5 .. 10, 20) \cup Moved({11}, -4) \cup Moved({12}, 19)
      /\ format = "U" => Scattered(imm, format) = Moved(12 .. 31, 0)
      /\ format = "J" => Scattered(imm, format) =
           Moved(1 .. 10, 20) \cup Moved({11}, 9) \cup Moved(12 .. 19, 0) \cup Moved({20}, 11)
  BY DEF Scattered
<1>. HIDE DEF Moved
<1>5. Scattered(imm, format) \subseteq Int
  BY <1>2, <1>3, <1>4
<1>6. ASSUME NEW c \in Int
      PROVE  c \in Scattered(imm, format) <=> ScatteredBit(imm, format, c)
  <2>1. CASE format = "I"
    BY <1>1, <1>3, <1>4, <2>1 DEF ScatteredBit
  <2>2. CASE format = "S"
    BY <1>1, <1>3, <1>4, <2>2 DEF ScatteredBit
  <2>3. CASE format = "B"
    BY <1>1, <1>3, <1>4, <2>3 DEF ScatteredBit
  <2>4. CASE format = "U"
    BY <1>1, <1>3, <1>4, <2>4 DEF ScatteredBit
  <2>5. CASE format = "J"
    BY <1>1, <1>3, <1>4, <2>5 DEF ScatteredBit
  <2>. QED
    BY <2>1, <2>2, <2>3, <2>4, <2>5
<1>7. ASSUME NEW c \in Int, ScatteredBit(imm, format, c) PROVE c \in Bits
  <2>1. CASE format = "I"
    BY <1>7, <2>1 DEF ScatteredBit, Bits
  <2>2. CASE format = "S"
    BY <1>7, <2>2 DEF ScatteredBit, Bits
  <2>3. CASE format = "B"
    BY <1>7, <2>3 DEF ScatteredBit, Bits
  <2>4. CASE format = "U"
    BY <1>7, <2>4 DEF ScatteredBit, Bits
  <2>5. CASE format = "J"
    BY <1>7, <2>5 DEF ScatteredBit, Bits
  <2>. QED
    BY <2>1, <2>2, <2>3, <2>4, <2>5
<1>. QED
  BY <1>5, <1>6, <1>7

(* The format of every opcode.                                             *)
LEMMA Formats ==
  /\ FormatOf("Lui") = "U" /\ FormatOf("AuiPc") = "U" /\ FormatOf("Jal") = "J"
  /\ FormatOf("Branch") = "B" /\ FormatOf("Store") = "S" /\ FormatOf("Op") = "R"
  /\ FormatOf("Amo") = "R4" /\ FormatOf("Jalr") = "I" /\ FormatOf("Load") = "I"
  /\ FormatOf("OpImm") = "I" /\ FormatOf("MiscMem") = "I" /\ FormatOf("System") = "I"
  /\ FormatOf("LoadFp") = "I" /\ FormatOf("StoreFp") = "S" /\ FormatOf("OpFp") = "R"
  /\ FormatOf("Fmadd") = "R4" /\ FormatOf("Fmsub") = "R4" /\ FormatOf("Fnmadd") = "R4"
  /\ FormatOf("Fnmsub") = "R4"
BY DEF FormatOf

(* An immediate whose fields are not those of a shift amount.              *)
HasFullImm(w, opcode) ==
  /\ opcode \in Opcode
  /\ HasImm(FormatOf(opcode))
  /\ ~(opcode = "OpImm" /\ Funct3(w) \in {1, 5})

LEMMA ImmFormats ==
  ASSUME NEW opcode \in Opcode, HasImm(FormatOf(opcode))
  PROVE  /\ FormatOf(opcode) \in {"I", "S", "B", "U", "J"}
         /\ SignShift(opcode) = 31 - SignBit(FormatOf(opcode))
<1>1. FormatOf(opcode) \in {"I", "S", "B", "U", "J"}
  BY OpcodeSets, Formats DEF HasImm, FpOpcodes
<1>2. SignShift(opcode) = 31 - SignBit(FormatOf(opcode))
  BY OpcodeSets, Formats DEF HasImm, FpOpcodes, SignShift, SignBit
<1>. QED
  BY <1>1, <1>2

LEMMA RawMember ==
  ASSUME NEW w \in SUBSET Bits, NEW opcode, HasFullImm(w, opcode)
  PROVE  LET format == FormatOf(opcode)
             raw    == RawImm(w, format, opcode)
         IN  /\ raw \subseteq LowBit(format) .. SignBit(format)
             /\ \A b \in Int : b \in raw <=> RawBit(w, format, b)
<1>. DEFINE format == FormatOf(opcode)
            raw    == RawImm(w, format, opcode)
            Down(bits, n) == Shr(w \cap bits, n)
            up7 == Shl(w \cap {7}, 4)
            IsDown(bits, n, range) ==
              /\ Down(bits, n) \subseteq Int
              /\ \A b \in Int : b \in Down(bits, n) <=> b \in range /\ b + n \in w
<1>1. format \in {"I", "S", "B", "U", "J"}
  BY ImmFormats DEF HasFullImm
<1>. HIDE DEF format
<1>2. /\ format = "I" => raw = Down(20 .. 31, 20)
      /\ format = "S" => raw = Down(25 .. 31, 20) \cup Down(7 .. 11, 7)
      /\ format = "B" => raw = Down({31}, 19) \cup up7 \cup Down(25 .. 30, 20) \cup Down(8 .. 11, 7)
      /\ format = "U" => raw = w \cap 12 .. 31
      /\ format = "J" => raw = Down({31}, 11) \cup (w \cap 12 .. 19) \cup Down({20}, 9)
                                 \cup Down(21 .. 30, 20)
  BY DEF RawImm, HasFullImm
<1>. HIDE DEF raw
<1>3. ASSUME NEW bits \in SUBSET Bits, NEW n \in Bits
      PROVE  /\ Down(bits, n) \subseteq Int
             /\ \A b \in Int : b \in Down(bits, n) <=> b >= 0 /\ b + n \in w /\ b + n \in bits
  <2>1. /\ Down(bits, n) \subseteq Bits
        /\ \A b \in Int : b \in Down(bits, n) <=> b >= 0 /\ b + n \in w /\ b + n \in bits
    BY Gathered
  <2>. HIDE DEF Down
  <2>. QED
    BY <2>1 DEF Bits
<1>4. /\ IsDown(20 .. 31, 20, 0 .. 11)
      /\ IsDown(25 .. 31, 20, 5 .. 11)
      /\ IsDown(7 .. 11, 7, 0 .. 4)
      /\ IsDown({31}, 19, {12})
      /\ IsDown(25 .. 30, 20, 5 .. 10)
      /\ IsDown(8 .. 11, 7, 1 .. 4)
      /\ IsDown({31}, 11, {20})
      /\ IsDown({20}, 9, {11})
      /\ IsDown(21 .. 30, 20, 1 .. 10)
  <2>1. IsDown(20 .. 31, 20, 0 .. 11)
    <3>1. 20 .. 31 \in SUBSET Bits /\ 20 \in Bits
      BY DEF Bits
    <3>2. /\ Down(20 .. 31, 20) \subseteq Int
          /\ \A b \in Int : b \in Down(20 .. 31, 20) <=> b >= 0 /\ b + 20 \in w /\ b + 20 \in 20 .. 31
      <4>. HIDE DEF Down
      <4>. QED
        BY <1>3, <3>1, Zenon
    <3>. HIDE DEF Down
    <3>. QED
      BY <3>2
  <2>2. IsDown(25 .. 31, 20, 5 .. 11)
    <3>1. 25 .. 31 \in SUBSET Bits /\ 20 \in Bits
      BY DEF Bits
    <3>2. /\ Down(25 .. 31, 20) \subseteq Int
          /\ \A b \in Int : b \in Down(25 .. 31, 20) <=> b >= 0 /\ b + 20 \in w /\ b + 20 \in 25 .. 31
      <4>. HIDE DEF Down
      <4>. QED
        BY <1>3, <3>1, Zenon
    <3>. HIDE DEF Down
    <3>. QED
      BY <3>2
  <2>3. IsDown(7 .. 11, 7, 0 .. 4)
    <3>1. 7 .. 11 \in SUBSET Bits /\ 7 \in Bits
      BY DEF Bits
    <3>2. /\ Down(7 .. 11, 7) \subseteq Int
          /\ \A b \in Int : b \in Down(7 .. 11, 7) <=> b >= 0 /\ b + 7 \in w /\ b + 7 \in 7 .. 11
      <4>. HIDE DEF Down
      <4>. QED
        BY <1>3, <3>1, Zenon
    <3>. HIDE DEF Down
    <3>. QED
      BY <3>2
  <2>4. IsDown({31}, 19, {12})
    <3>1. {31} \in SUBSET Bits /\ 19 \in Bits
      BY DEF Bits
    <3>2. /\ Down({31}, 19) \subseteq Int
          /\ \A b \in Int : b \in Down({31}, 19) <=> b >= 0 /\ b + 19 \in w /\ b + 19 \in {31}
      <4>. HIDE DEF Down
      <4>. QED
        BY <1>3, <3>1, Zenon
    <3>. HIDE DEF Down
    <3>. QED
      BY <3>2
  <2>5. IsDown(25 .. 30, 20, 5 .. 10)
    <3>1. 25 .. 30 \in SUBSET Bits /\ 20 \in Bits
      BY DEF Bits
    <3>2. /\ Down(25 .. 30, 20) \subseteq Int
          /\ \A b \in Int : b \in Down(25 .. 30, 20) <=> b >= 0 /\ b + 20 \in w /\ b + 20 \in 25 .. 30
      <4>. HIDE DEF Down
      <4>. QED
        BY <1>3, <3>1, Zenon
    <3>. HIDE DEF Down
    <3>. QED
      BY <3>2
  <2>6. IsDown(8 .. 11, 7, 1 .. 4)
    <3>1. 8 .. 11 \in SUBSET Bits /\ 7 \in Bits
      BY DEF Bits
    <3>2. /\ Down(8 .. 11, 7) \subseteq Int
          /\ \A b \in Int : b \in Down(8 .. 11, 7) <=> b >= 0 /\ b + 7 \in w /\ b + 7 \in 8 .. 11
      <4>. HIDE DEF Down
      <4>. QED
        BY <1>3, <3>1, Zenon
    <3>. HIDE DEF Down
    <3>. QED
      BY <3>2
  <2>7. IsDown({31}, 11, {20})
    <3>1. {31} \in SUBSET Bits /\ 11 \in Bits
      BY DEF Bits
    <3>2. /\ Down({31}, 11) \subseteq Int
          /\ \A b \in Int : b \in Down({31}, 11) <=> b >= 0 /\ b + 11 \in w /\ b + 11 \in {31}
      <4>. HIDE DEF Down
      <4>. QED
        BY <1>3, <3>1, Zenon
    <3>. HIDE DEF Down
    <3>. QED
      BY <3>2
  <2>8. IsDown({20}, 9, {11})
    <3>1. {20} \in SUBSET Bits /\ 9 \in Bits
      BY DEF Bits
    <3>2. /\ Down({20}, 9) \subseteq Int
          /\ \A b \in Int : b \in Down({20}, 9) <=> b >= 0 /\ b + 9 \in w /\ b + 9 \in {20}
      <4>. HIDE DEF Down
      <4>. QED
        BY <1>3, <3>1, Zenon
    <3>. HIDE DEF Down
    <3>. QED
      BY <3>2
  <2>9. IsDown(21 .. 30, 20, 1 .. 10)
    <3>1. 21 .. 30 \in SUBSET Bits /\ 20 \in Bits
      BY DEF Bits
    <3>2. /\ Down(21 .. 30, 20) \subseteq Int
          /\ \A b \in Int : b \in Down(21 .. 30, 20) <=> b >= 0 /\ b + 20 \in w /\ b + 20 \in 21 .. 30
      <4>. HIDE DEF Down
      <4>. QED
        BY <1>3, <3>1, Zenon
    <3>. HIDE DEF Down
    <3>. QED
      BY <3>2
  <2>. QED
    BY <2>1, <2>2, <2>3, <2>4, <2>5, <2>6, <2>7, <2>8, <2>9
<1>5. up7 \subseteq Int /\ \A b \in Int : b \in up7 <=> b = 11 /\ 7 \in w
  <2>1. /\ up7 \subseteq Bits
        /\ \A b \in Int : b \in up7 <=> b \in Bits /\ b - 4 \in w \cap {7}
    BY ShlMember DEF Bits
  <2>. HIDE DEF up7
  <2>. QED
    BY <2>1 DEF Bits
<1>. HIDE DEF Down, up7
<1>6. CASE format = "I"
  <2>1. \A b \in Int : b \in raw <=> RawBit(w, format, b)
    BY <1>2, <1>4, <1>6 DEF RawBit
  <2>2. raw \subseteq Int
    BY <1>2, <1>4, <1>6
  <2>3. LowBit(format) = 0 /\ SignBit(format) = 11
    BY <1>6 DEF LowBit, SignBit
  <2>4. \A b \in Int : RawBit(w, format, b) => b \in 0 .. 11
    BY <1>6 DEF RawBit
  <2>. QED
    BY <2>1, <2>2, <2>3, <2>4 DEF format, raw
<1>7. CASE format = "S"
  <2>1. \A b \in Int : b \in raw <=> RawBit(w, format, b)
    BY <1>2, <1>4, <1>7 DEF RawBit
  <2>2. raw \subseteq Int
    BY <1>2, <1>4, <1>7
  <2>3. LowBit(format) = 0 /\ SignBit(format) = 11
    BY <1>7 DEF LowBit, SignBit
  <2>4. \A b \in Int : RawBit(w, format, b) => b \in 0 .. 11
    BY <1>7 DEF RawBit
  <2>. QED
    BY <2>1, <2>2, <2>3, <2>4 DEF format, raw
<1>8. CASE format = "B"
  <2>1. \A b \in Int : b \in raw <=> RawBit(w, format, b)
    BY <1>2, <1>4, <1>5, <1>8 DEF RawBit
  <2>2. raw \subseteq Int
    BY <1>2, <1>4, <1>5, <1>8
  <2>3. LowBit(format) = 1 /\ SignBit(format) = 12
    BY <1>8 DEF LowBit, SignBit
  <2>4. \A b \in Int : RawBit(w, format, b) => b \in 1 .. 12
    BY <1>8 DEF RawBit
  <2>. QED
    BY <2>1, <2>2, <2>3, <2>4 DEF format, raw
<1>9. CASE format = "U"
  <2>1. \A b \in Int : b \in raw <=> RawBit(w, format, b)
    BY <1>2, <1>9 DEF RawBit
  <2>2. raw \subseteq Int
    BY <1>2, <1>9 DEF Bits
  <2>3. LowBit(format) = 12 /\ SignBit(format) = 31
    BY <1>9 DEF LowBit, SignBit
  <2>4. \A b \in Int : RawBit(w, format, b) => b \in 12 .. 31
    BY <1>9 DEF RawBit
  <2>. QED
    BY <2>1, <2>2, <2>3, <2>4 DEF format, raw
<1>10. CASE format = "J"
  <2>1. \A b \in Int : b \in raw <=> RawBit(w, format, b)
    BY <1>2, <1>4, <1>10 DEF RawBit
  <2>2. raw \subseteq Int
    BY <1>2, <1>4, <1>10 DEF Bits
  <2>3. LowBit(format) = 1 /\ SignBit(format) = 20
    BY <1>10 DEF LowBit, SignBit
  <2>4. \A b \in Int : RawBit(w, format, b) => b \in 1 .. 20
    BY <1>10 DEF RawBit
  <2>. QED
    BY <2>1, <2>2, <2>3, <2>4 DEF format, raw
<1>. QED
  BY <1>1, <1>6, <1>7, <1>8, <1>9, <1>10 DEF format, raw

(* Where the word has the bits of an immediate. *)
ImmBits(format) == CASE format = "I" -> 20 .. 31
                     [] format \in {"S", "B"} -> (7 .. 11) \cup (25 .. 31)
                     [] format \in {"U", "J"} -> 12 .. 31

(* An immediate is scattered over the bits it was gathered from, and an    *)
(* immediate so scattered is gathered again.                               *)
LEMMA ImmRoundTrip ==
  ASSUME NEW w \in SUBSET Bits, NEW opcode, HasFullImm(w, opcode), NEW imm \in SUBSET Bits
  PROVE  LET format == FormatOf(opcode)
             raw    == RawImm(w, format, opcode)
         IN  imm \cap LowBit(format) .. SignBit(format) = raw
               <=> Scattered(imm, format) = w \cap ImmBits(format)
<1>. DEFINE format == FormatOf(opcode)
            raw    == RawImm(w, format, opcode)
<1>1. format \in {"I", "S", "B", "U", "J"}
  BY ImmFormats DEF HasFullImm
<1>2. /\ raw \subseteq LowBit(format) .. SignBit(format)
      /\ \A b \in Int : b \in raw <=> RawBit(w, format, b)
  BY RawMember
<1>. HIDE DEF format, raw
<1>3. /\ Scattered(imm, format) \subseteq Bits
      /\ \A c \in Int : c \in Scattered(imm, format) <=> ScatteredBit(imm, format, c)
  BY <1>1, ScatteredMember
<1>4. (\A b \in LowBit(format) .. SignBit(format) : b \in imm <=> RawBit(w, format, b))
        <=> (\A c \in Bits : ScatteredBit(imm, format, c) <=> c \in w /\ c \in ImmBits(format))
  <2>1. CASE format = "I"
    BY <2>1 DEF LowBit, SignBit, RawBit, ScatteredBit, ImmBits, Bits
  <2>2. CASE format = "S"
    BY <2>2 DEF LowBit, SignBit, RawBit, ScatteredBit, ImmBits, Bits
  <2>3. CASE format = "B"
    BY <2>3 DEF LowBit, SignBit, RawBit, ScatteredBit, ImmBits, Bits
  <2>4. CASE format = "U"
    BY <2>4 DEF LowBit, SignBit, RawBit, ScatteredBit, ImmBits, Bits
  <2>5. CASE format = "J"
    BY <2>5 DEF LowBit, SignBit, RawBit, ScatteredBit, ImmBits, Bits
  <2>. QED
    BY <1>1, <2>1, <2>2, <2>3, <2>4, <2>5
<1>5. imm \cap LowBit(format) .. SignBit(format) = raw
        <=> \A b \in LowBit(format) .. SignBit(format) : b \in imm <=> RawBit(w, format, b)
  <2>1. LowBit(format) .. SignBit(format) \subseteq Int
    OBVIOUS
  <2>. QED
    BY <1>2, <2>1
<1>6. Scattered(imm, format) = w \cap ImmBits(format)
        <=> \A c \in Bits : ScatteredBit(imm, format, c) <=> c \in w /\ c \in ImmBits(format)
  <2>1. Bits \subseteq Int
    BY DEF Bits
  <2>. QED
    BY <1>3, <2>1
<1>. QED
  BY <1>4, <1>5, <1>6 DEF format, raw

(* The immediate is what was gathered, with its sign in the bits above.    *)
LEMMA ImmValue ==
  ASSUME NEW w \in SUBSET Bits, NEW opcode, HasFullImm(w, opcode)
  PROVE  LET format == FormatOf(opcode)
             sign   == SignBit(format)
             raw    == RawImm(w, format, opcode)
             imm    == Imm(w, format, opcode)
         IN  /\ imm \in SUBSET Bits
             /\ imm = raw \cup IF sign \in raw THEN sign + 1 .. 31 ELSE {}
             /\ imm \cap LowBit(format) .. sign = raw
<1>. DEFINE format == FormatOf(opcode)
            sign   == SignBit(format)
            low    == LowBit(format)
            raw    == RawImm(w, format, opcode)
            imm    == Imm(w, format, opcode)
            n      == SignShift(opcode)
<1>1. format \in {"I", "S", "B", "U", "J"} /\ n = 31 - sign
  BY ImmFormats DEF HasFullImm
<1>2. raw \subseteq low .. sign
  BY RawMember
<1>3. imm = Sar(Shl(raw, n), n)
  BY DEF Imm
<1>. HIDE DEF n, imm, raw
<1>4. low \in 0 .. 12 /\ sign \in 11 .. 31
  <2>. HIDE DEF format
  <2>. QED
    BY <1>1 DEF LowBit, SignBit
<1>. HIDE DEF sign, low, format
<1>5. n \in 0 .. 20 /\ raw \in SUBSET (0 .. 31 - n) /\ 31 - n = sign /\ 32 - n = sign + 1
  BY <1>1, <1>2, <1>4
<1>6. imm = raw \cup IF sign \in raw THEN sign + 1 .. 31 ELSE {}
  BY <1>3, <1>5, SignExtended
<1>7. imm \in SUBSET Bits /\ imm \cap low .. sign = raw
  <2>1. CASE sign \in raw
    <3>1. imm = raw \cup sign + 1 .. 31
      BY <1>6, <2>1
    <3>2. imm \subseteq Bits
      BY <1>2, <1>4, <3>1 DEF Bits
    <3>3. \A b \in low .. sign : b \in imm <=> b \in raw
      BY <1>4, <3>1
    <3>. QED
      BY <1>2, <3>2, <3>3
  <2>2. CASE sign \notin raw
    <3>1. imm = raw
      BY <1>6, <2>2
    <3>2. imm \subseteq Bits
      BY <1>2, <1>4, <3>1 DEF Bits
    <3>3. raw \cap low .. sign = raw
      BY <1>2, Zenon
    <3>. QED
      BY <3>1, <3>2, <3>3
  <2>. QED
    BY <2>1, <2>2
<1>. QED
  BY <1>6, <1>7 DEF n, imm, raw, sign, low, format

(* So is a shift amount, which has no sign.                                *)
LEMMA ShiftAmount ==
  ASSUME NEW w \in SUBSET Bits, Funct3(w) \in {1, 5}
  PROVE  /\ Imm(w, "I", "OpImm") \in SUBSET (0 .. 4)
         /\ \A imm \in SUBSET (0 .. 4) :
              imm = Imm(w, "I", "OpImm") <=> Scattered(imm, "I") = w \cap 20 .. 24
<1>. DEFINE raw == Shr(w \cap 20 .. 24, 20)
<1>1. /\ raw \subseteq Bits
      /\ \A b \in Int : b \in raw <=> b >= 0 /\ b + 20 \in w /\ b + 20 \in 20 .. 24
  <2>1. 20 \in Bits
    BY DEF Bits
  <2>. QED
    BY <2>1, Gathered, Zenon
<1>2. Imm(w, "I", "OpImm") = Sar(Shl(raw, 20), 20)
  BY DEF Imm, RawImm, SignShift, RS2_MASK
<1>. HIDE DEF raw
<1>3. raw \in SUBSET (0 .. 4)
  BY <1>1 DEF Bits
<1>4. Imm(w, "I", "OpImm") = raw
  <2>1. raw \in SUBSET (0 .. 31 - 20) /\ 20 \in 0 .. 20 /\ 31 - 20 \notin raw
    BY <1>3
  <2>2. Sar(Shl(raw, 20), 20) = raw \cup IF 31 - 20 \in raw THEN 32 - 20 .. 31 ELSE {}
    BY <2>1, SignExtended
  <2>. QED
    BY <1>2, <2>1, <2>2
<1>5. ASSUME NEW imm \in SUBSET (0 .. 4)
      PROVE  imm = raw <=> Scattered(imm, "I") = w \cap 20 .. 24
  <2>1. /\ Scattered(imm, "I") \subseteq Bits
        /\ \A c \in Int : c \in Scattered(imm, "I") <=> c \in 20 .. 31 /\ c - 20 \in imm
    <3>1. imm \in SUBSET Bits
      BY DEF Bits
    <3>. QED
      BY <3>1, ScatteredMember DEF ScatteredBit
  <2>2. imm = raw <=> \A b \in 0 .. 4 : b \in imm <=> b + 20 \in w
    <3>1. \A b \in 0 .. 4 : b \in raw <=> b + 20 \in w
      BY <1>1
    <3>2. imm = raw <=> \A b \in 0 .. 4 : b \in imm <=> b \in raw
      BY <1>3
    <3>. QED
      BY <3>1, <3>2
  <2>3. Scattered(imm, "I") = w \cap 20 .. 24
          <=> \A c \in Bits : (c \in 20 .. 31 /\ c - 20 \in imm) <=> (c \in w /\ c \in 20 .. 24)
    BY <2>1 DEF Bits
  <2>4. (\A b \in 0 .. 4 : b \in imm <=> b + 20 \in w)
          <=> \A c \in Bits : (c \in 20 .. 31 /\ c - 20 \in imm) <=> (c \in w /\ c \in 20 .. 24)
    BY DEF Bits
  <2>. QED
    BY <2>2, <2>3, <2>4
<1>. QED
  BY <1>3, <1>4, <1>5

(* None is no immediate.                                                   *)
LEMMA ImmIsSome ==
  ASSUME NEW w \in SUBSET Bits, NEW opcode \in Opcode, HasImm(FormatOf(opcode))
  PROVE  /\ Imm(w, FormatOf(opcode), opcode) \in SUBSET Bits
         /\ Imm(w, FormatOf(opcode), opcode) # NULL
<1>. DEFINE format == FormatOf(opcode)
            sign   == SignBit(format)
            raw    == RawImm(w, format, opcode)
            imm    == Imm(w, format, opcode)
<1>1. CASE opcode = "OpImm" /\ Funct3(w) \in {1, 5}
  <2>1. imm \in SUBSET (0 .. 4)
    BY <1>1, ShiftAmount, Formats
  <2>. HIDE DEF imm
  <2>2. imm \in SUBSET (0 .. 19) /\ imm \in SUBSET Bits
    BY <2>1 DEF Bits
  <2>3. imm # NULL
    BY <2>2, NoneAssumption
  <2>. QED
    BY <2>2, <2>3 DEF imm
<1>2. CASE ~(opcode = "OpImm" /\ Funct3(w) \in {1, 5})
  <2>1. HasFullImm(w, opcode)
    BY <1>2 DEF HasFullImm
  <2>2. /\ imm \in SUBSET Bits
        /\ imm = raw \cup IF sign \in raw THEN sign + 1 .. 31 ELSE {}
        /\ raw \subseteq LowBit(format) .. sign
    BY <2>1, ImmValue, RawMember
  <2>3. format \in {"I", "S", "B", "U", "J"}
    BY ImmFormats
  <2>. HIDE DEF imm, raw, format
  <2>4. \/ format = "U" /\ LowBit(format) = 12 /\ sign = 31
        \/ format # "U" /\ LowBit(format) \in 0 .. 1 /\ sign \in 11 .. 20
    BY <2>3 DEF LowBit, SignBit
  <2>. HIDE DEF sign
  <2>5. CASE format = "U"
    <3>1. imm \in SUBSET (12 .. 31)
      <4>1. raw \subseteq 12 .. 31 /\ sign + 1 .. 31 = {}
        BY <2>2, <2>4, <2>5
      <4>. QED
        BY <2>2, <4>1
    <3>2. imm # NULL
      BY <3>1, NoneAssumption
    <3>. QED
      BY <2>2, <3>2 DEF imm, format
  <2>6. CASE format # "U"
    <3>1. imm \cap 0 .. 19 \in SUBSET (0 .. 19)
      OBVIOUS
    <3>2. imm = imm \cap 0 .. 19 \/ imm = (imm \cap 0 .. 19) \cup 20 .. 31
      <4>0. raw \subseteq 0 .. 20 /\ raw \subseteq 0 .. sign /\ sign \in 11 .. 20
        BY <2>2, <2>4, <2>6
      <4>1. CASE sign \in raw
        <5>1. imm = raw \cup sign + 1 .. 31
          BY <2>2, <4>1
        <5>2. 20 .. 31 \subseteq imm
          BY <4>0, <4>1, <5>1
        <5>3. imm \subseteq 0 .. 31
          BY <4>0, <5>1
        <5>4. \A b \in 0 .. 31 : b \in 0 .. 19 \/ b \in 20 .. 31
          OBVIOUS
        <5>. QED
          BY <5>2, <5>3, <5>4, Zenon
      <4>2. CASE sign \notin raw
        <5>1. imm = raw
          BY <2>2, <4>2
        <5>2. 20 \notin imm
          BY <4>0, <4>2, <5>1
        <5>3. imm \subseteq 0 .. 19
          BY <4>0, <5>1, <5>2
        <5>. QED
          BY <5>3, Zenon
      <4>. QED
        BY <4>1, <4>2
    <3>3. imm # NULL
      BY <3>1, <3>2, NoneAssumption
    <3>. QED
      BY <2>2, <3>3 DEF imm, format
  <2>. QED
    BY <2>5, <2>6
<1>. QED
  BY <1>1, <1>2

-----------------------------------------------------------------------------
(* The pieces of an assembled word                                         *)

LEMMA PlacedRange ==
  /\ \A n \in 0 .. 127 : Placed(n, 0) \subseteq 0 .. 6 /\ Placed(n, 25) \subseteq 25 .. 31
  /\ \A n \in 0 .. 31 : /\ Placed(n, 7) \subseteq 7 .. 11
                         /\ Placed(n, 15) \subseteq 15 .. 19
                         /\ Placed(n, 20) \subseteq 20 .. 24
  /\ \A n \in 0 .. 7 : Placed(n, 12) \subseteq 12 .. 14
<1>0. 0 \in Bits /\ 7 \in Bits /\ 12 \in Bits /\ 15 \in Bits /\ 20 \in Bits /\ 25 \in Bits
  BY DEF Bits
<1>1. ASSUME NEW n \in 0 .. 127
      PROVE Placed(n, 0) \subseteq 0 .. 0 + 6 /\ Placed(n, 25) \subseteq 25 .. 25 + 6
  BY <1>0, PlacedMember
<1>2. ASSUME NEW n \in 0 .. 31
      PROVE  /\ Placed(n, 7) \subseteq 7 .. 7 + 4
             /\ Placed(n, 15) \subseteq 15 .. 15 + 4
             /\ Placed(n, 20) \subseteq 20 .. 20 + 4
  <2>1. n \in 0 .. 127 /\ n < 32
    OBVIOUS
  <2>2. ASSUME NEW at \in Bits PROVE Placed(n, at) \subseteq at .. at + 4
    BY <2>1, PlacedMember
  <2>. QED
    BY <1>0, <2>2
<1>3. ASSUME NEW n \in 0 .. 7 PROVE Placed(n, 12) \subseteq 12 .. 12 + 2
  <2>1. n \in 0 .. 127 /\ n < 8
    OBVIOUS
  <2>. QED
    BY <1>0, <2>1, PlacedMember
<1>. QED
  BY <1>1, <1>2, <1>3

LEMMA FunctCodes ==
  ASSUME NEW opcode \in IntegerOpcodes, NEW f \in FunctionsOf(opcode)
  PROVE  /\ FormatOf(opcode) \notin {"U", "J"} => FunctThree(f) \in 0 .. 7
         /\ ~HasImm(FormatOf(opcode)) \/ ImmShift(f) => FunctSeven(f) \in 0 .. 127
         /\ ImmShift(f) => opcode = "OpImm"
<1>1. FormatOf(opcode) \notin {"U", "J"} => FunctThree(f) \in 0 .. 7
  BY OpcodeSets, FunctionSets, Formats, FunctThreeCodes
<1>2. ImmShift(f) => opcode = "OpImm"
  BY OpcodeSets, FunctionSets DEF ImmShift
<1>3. ImmShift(f) => FunctSeven(f) \in 0 .. 127
  BY FunctSevenCodes DEF ImmShift
<1>4. opcode = "Op" => FunctSeven(f) \in 0 .. 127
  BY FunctionSets, FunctSevenCodes
<1>5. opcode = "Amo" => FunctSeven(f) \in 0 .. 127
  BY FunctionSets, FunctSevenCodes
<1>6. opcode \notin {"Op", "Amo"} => HasImm(FormatOf(opcode))
  BY OpcodeSets, Formats DEF HasImm
<1>. QED
  BY <1>1, <1>2, <1>3, <1>4, <1>5, <1>6

(* What both the assembler's and the decoder's instructions are.           *)
WellFormed(i) ==
  /\ i.opcode \in IntegerOpcodes
  /\ i.function \in FunctionsOf(i.opcode)
  /\ IF HasRd(FormatOf(i.opcode)) THEN i.rd \in 0 .. 31 ELSE i.rd = NULL
  /\ IF HasRs1(FormatOf(i.opcode)) THEN i.rs1 \in 0 .. 31 ELSE i.rs1 = NULL
  /\ IF HasRs2(FormatOf(i.opcode)) THEN i.rs2 \in 0 .. 31 ELSE i.rs2 = NULL
  /\ HasImm(FormatOf(i.opcode)) => i.imm \in SUBSET Bits
  /\ ImmShift(i.function) => i.imm \in SUBSET (0 .. 4)

LEMMA OnePiece ==
  ASSUME NEW w, NEW part, NEW range,
         part \subseteq range, part \subseteq w, \A b \in w : b \in range => b \in part
  PROVE  w \cap range = part
OBVIOUS

(* Every field of the word is where the manual has it, and nowhere else.   *)
LEMMA Pieces ==
  ASSUME NEW i, WellFormed(i)
  PROVE  LET w      == Assembled(i)
             format == FormatOf(i.opcode)
         IN  /\ w \in SUBSET Bits
             /\ w \cap 0 .. 6 = Placed(Major(i.opcode), 0)
             /\ HasRd(format) => w \cap 7 .. 11 = Placed(i.rd, 7)
             /\ format \notin {"U", "J"} => w \cap 12 .. 14 = Placed(FunctThree(i.function), 12)
             /\ HasRs1(format) => w \cap 15 .. 19 = Placed(i.rs1, 15)
             /\ HasRs2(format) => w \cap 20 .. 24 = Placed(i.rs2, 20)
             /\ ~HasImm(format) \/ ImmShift(i.function) =>
                  w \cap 25 .. 31 = Placed(FunctSeven(i.function), 25)
             /\ ImmShift(i.function) => w \cap 20 .. 24 = Scattered(i.imm, "I")
             /\ HasImm(format) /\ ~ImmShift(i.function) =>
                  w \cap ImmBits(format) = Scattered(i.imm, format)
<1>. DEFINE format == FormatOf(i.opcode)
            shift  == ImmShift(i.function)
            A == Placed(Major(i.opcode), 0)
            B == Unless(i.rd = NULL,  Placed(i.rd, 7))
            C == Unless(i.rs1 = NULL, Placed(i.rs1, 15))
            D == Unless(i.rs2 = NULL, Placed(i.rs2, 20))
            E == Unless(format \in {"U", "J"}, Placed(FunctThree(i.function), 12))
            F == Unless(HasImm(format) /\ ~shift, Placed(FunctSeven(i.function), 25))
            G == Unless(~HasImm(format), Scattered(i.imm, format))
            w == Assembled(i)
<1>1. w = A \cup B \cup C \cup D \cup E \cup F \cup G
  BY DEF Assembled
<1>2. /\ i.opcode \in IntegerOpcodes /\ i.function \in FunctionsOf(i.opcode)
      /\ \A n \in Nat : n # NULL
  BY NoneAssumption DEF WellFormed
<1>3. A \subseteq 0 .. 6
  BY <1>2, PlacedRange, MajorIsSevenBits
<1>4. IF HasRd(format) THEN B \subseteq 7 .. 11 /\ B = Placed(i.rd, 7) ELSE B = {}
  <2>1. CASE HasRd(format)
    <3>1. i.rd \in 0 .. 31 /\ i.rd # NULL
      BY <1>2, <2>1 DEF WellFormed
    <3>. QED
      BY <1>2, <2>1, <3>1, PlacedRange DEF Unless
  <2>2. CASE ~HasRd(format)
    BY <2>2 DEF WellFormed, Unless
  <2>. QED
    BY <2>1, <2>2
<1>5. IF HasRs1(format) THEN C \subseteq 15 .. 19 /\ C = Placed(i.rs1, 15) ELSE C = {}
  <2>1. CASE HasRs1(format)
    <3>1. i.rs1 \in 0 .. 31 /\ i.rs1 # NULL
      BY <1>2, <2>1 DEF WellFormed
    <3>. QED
      BY <1>2, <2>1, <3>1, PlacedRange DEF Unless
  <2>2. CASE ~HasRs1(format)
    BY <2>2 DEF WellFormed, Unless
  <2>. QED
    BY <2>1, <2>2
<1>6. IF HasRs2(format) THEN D \subseteq 20 .. 24 /\ D = Placed(i.rs2, 20) ELSE D = {}
  <2>1. CASE HasRs2(format)
    <3>1. i.rs2 \in 0 .. 31 /\ i.rs2 # NULL
      BY <1>2, <2>1 DEF WellFormed
    <3>. QED
      BY <1>2, <2>1, <3>1, PlacedRange DEF Unless
  <2>2. CASE ~HasRs2(format)
    BY <2>2 DEF WellFormed, Unless
  <2>. QED
    BY <2>1, <2>2
<1>7. IF format \notin {"U", "J"} THEN E \subseteq 12 .. 14 /\ E = Placed(FunctThree(i.function), 12)
      ELSE E = {}
  <2>1. CASE format \notin {"U", "J"}
    <3>1. FunctThree(i.function) \in 0 .. 7
      BY <1>2, <2>1, FunctCodes
    <3>. QED
      BY <1>2, <2>1, <3>1, PlacedRange DEF Unless
  <2>2. CASE format \in {"U", "J"}
    BY <2>2 DEF Unless
  <2>. QED
    BY <2>1, <2>2
<1>8. IF ~HasImm(format) \/ shift THEN F \subseteq 25 .. 31 /\ F = Placed(FunctSeven(i.function), 25)
      ELSE F = {}
  <2>1. CASE ~HasImm(format) \/ shift
    <3>1. FunctSeven(i.function) \in 0 .. 127
      BY <1>2, <2>1, FunctCodes
    <3>. QED
      BY <1>2, <2>1, <3>1, PlacedRange DEF Unless
  <2>2. CASE ~(~HasImm(format) \/ shift)
    BY <2>2 DEF Unless
  <2>. QED
    BY <2>1, <2>2
<1>9. IF HasImm(format) THEN G \subseteq (IF shift THEN 20 .. 24 ELSE ImmBits(format))
                               /\ G = Scattered(i.imm, format)
      ELSE G = {}
  <2>1. CASE HasImm(format)
    <3>1. format \in {"I", "S", "B", "U", "J"} /\ i.imm \in SUBSET Bits
      BY <1>2, <2>1, ImmFormats, OpcodeSets DEF WellFormed
    <3>2. G = Scattered(i.imm, format)
      BY <2>1 DEF Unless
    <3>. HIDE DEF G
    <3>3. /\ G \subseteq Bits
          /\ \A c \in Int : c \in G <=> ScatteredBit(i.imm, format, c)
      BY <3>1, <3>2, ScatteredMember
    <3>4. CASE shift
      <4>1. format = "I" /\ i.imm \in SUBSET (0 .. 4)
        BY <1>2, <3>4, FunctCodes, Formats DEF WellFormed
      <4>. HIDE DEF format
      <4>2. \A c \in Int : c \in G <=> c \in 20 .. 31 /\ c - 20 \in i.imm
        BY <3>3, <4>1 DEF ScatteredBit
      <4>3. G \subseteq 20 .. 24
        BY <3>3, <4>1, <4>2 DEF Bits
      <4>. QED
        BY <2>1, <3>2, <3>4, <4>3 DEF format
    <3>5. CASE ~shift
      <4>. HIDE DEF format
      <4>1. \A c \in Int : ScatteredBit(i.imm, format, c) => c \in ImmBits(format)
        <5>1. CASE format = "I"
          BY <5>1 DEF ScatteredBit, ImmBits
        <5>2. CASE format = "S"
          BY <5>2 DEF ScatteredBit, ImmBits
        <5>3. CASE format = "B"
          BY <5>3 DEF ScatteredBit, ImmBits
        <5>4. CASE format = "U"
          BY <5>4 DEF ScatteredBit, ImmBits
        <5>5. CASE format = "J"
          BY <5>5 DEF ScatteredBit, ImmBits
        <5>. QED
          BY <3>1, <5>1, <5>2, <5>3, <5>4, <5>5
      <4>2. G \subseteq ImmBits(format)
        BY <3>3, <4>1 DEF Bits
      <4>. QED
        BY <2>1, <3>2, <3>5, <4>2 DEF format
    <3>. QED
      BY <3>4, <3>5
  <2>2. CASE ~HasImm(format)
    BY <2>2 DEF Unless
  <2>. QED
    BY <2>1, <2>2
<1>10. shift => format = "I"
  BY <1>2, FunctCodes, Formats
<1>11. format \in {"I", "S", "B", "U", "J", "R", "R4"}
  BY <1>2, OpcodeSets, Formats
<1>. HIDE DEF A, B, C, D, E, F, G, w, shift, format
<1>12. w \in SUBSET Bits
  <2>1. G \subseteq Bits
    BY <1>9, <1>11 DEF ImmBits, Bits, HasImm
  <2>2. A \subseteq Bits /\ B \subseteq Bits /\ C \subseteq Bits
    BY <1>3, <1>4, <1>5 DEF Bits
  <2>3. D \subseteq Bits /\ E \subseteq Bits /\ F \subseteq Bits
    BY <1>6, <1>7, <1>8 DEF Bits
  <2>. QED
    BY <1>1, <2>1, <2>2, <2>3
<1>13. /\ w \cap 0 .. 6 = A
       /\ HasRd(format) => w \cap 7 .. 11 = B
       /\ format \notin {"U", "J"} => w \cap 12 .. 14 = E
       /\ HasRs1(format) => w \cap 15 .. 19 = C
       /\ HasRs2(format) => w \cap 20 .. 24 = D
       /\ ~HasImm(format) \/ shift => w \cap 25 .. 31 = F
       /\ shift => w \cap 20 .. 24 = G
       /\ HasImm(format) /\ ~shift => w \cap ImmBits(format) = G
  <2>1. CASE format \in {"U", "J"}
    <3>1. /\ B \subseteq 7 .. 11 /\ C = {} /\ D = {} /\ E = {} /\ F = {} /\ G \subseteq 12 .. 31
          /\ ~shift /\ ~HasRs1(format) /\ ~HasRs2(format) /\ HasImm(format) /\ ImmBits(format) = 12 .. 31
      BY <1>4, <1>5, <1>6, <1>7, <1>8, <1>9, <1>10, <2>1 DEF HasRd, HasRs1, HasRs2, HasImm, ImmBits
    <3>2. w \cap 0 .. 6 = A
      <4>1. \A b \in w : b \in 0 .. 6 => b \in A
        BY <1>1, <1>3, <3>1
      <4>2. A \subseteq 0 .. 6 /\ A \subseteq w
        BY <1>1, <1>3, <3>1
      <4>. QED
        BY <4>1, <4>2, OnePiece, Zenon
    <3>3. w \cap 7 .. 11 = B
      <4>1. \A b \in w : b \in 7 .. 11 => b \in B
        BY <1>1, <1>3, <3>1
      <4>2. B \subseteq 7 .. 11 /\ B \subseteq w
        BY <1>1, <1>3, <3>1
      <4>. QED
        BY <4>1, <4>2, OnePiece, Zenon
    <3>4. w \cap 12 .. 31 = G
      <4>1. \A b \in w : b \in 12 .. 31 => b \in G
        BY <1>1, <1>3, <3>1
      <4>2. G \subseteq 12 .. 31 /\ G \subseteq w
        BY <1>1, <1>3, <3>1
      <4>. QED
        BY <4>1, <4>2, OnePiece, Zenon
    <3>. QED
      BY <2>1, <3>1, <3>2, <3>3, <3>4
  <2>2. CASE format = "I" /\ ~shift
    <3>1. /\ B \subseteq 7 .. 11 /\ C \subseteq 15 .. 19 /\ D = {} /\ E \subseteq 12 .. 14 /\ F = {}
          /\ G \subseteq 20 .. 31 /\ ~HasRs2(format) /\ HasImm(format) /\ ImmBits(format) = 20 .. 31
      BY <1>4, <1>5, <1>6, <1>7, <1>8, <1>9, <2>2 DEF HasRd, HasRs1, HasRs2, HasImm, ImmBits
    <3>2. w \cap 0 .. 6 = A
      <4>1. \A b \in w : b \in 0 .. 6 => b \in A
        BY <1>1, <1>3, <3>1
      <4>2. A \subseteq 0 .. 6 /\ A \subseteq w
        BY <1>1, <1>3, <3>1
      <4>. QED
        BY <4>1, <4>2, OnePiece, Zenon
    <3>3. w \cap 7 .. 11 = B
      <4>1. \A b \in w : b \in 7 .. 11 => b \in B
        BY <1>1, <1>3, <3>1
      <4>2. B \subseteq 7 .. 11 /\ B \subseteq w
        BY <1>1, <1>3, <3>1
      <4>. QED
        BY <4>1, <4>2, OnePiece, Zenon
    <3>4. w \cap 12 .. 14 = E
      <4>1. \A b \in w : b \in 12 .. 14 => b \in E
        BY <1>1, <1>3, <3>1
      <4>2. E \subseteq 12 .. 14 /\ E \subseteq w
        BY <1>1, <1>3, <3>1
      <4>. QED
        BY <4>1, <4>2, OnePiece, Zenon
    <3>5. w \cap 15 .. 19 = C
      <4>1. \A b \in w : b \in 15 .. 19 => b \in C
        BY <1>1, <1>3, <3>1
      <4>2. C \subseteq 15 .. 19 /\ C \subseteq w
        BY <1>1, <1>3, <3>1
      <4>. QED
        BY <4>1, <4>2, OnePiece, Zenon
    <3>6. w \cap 20 .. 31 = G
      <4>1. \A b \in w : b \in 20 .. 31 => b \in G
        BY <1>1, <1>3, <3>1
      <4>2. G \subseteq 20 .. 31 /\ G \subseteq w
        BY <1>1, <1>3, <3>1
      <4>. QED
        BY <4>1, <4>2, OnePiece, Zenon
    <3>. QED
      BY <2>2, <3>1, <3>2, <3>3, <3>4, <3>5, <3>6
  <2>3. CASE format = "I" /\ shift
    <3>1. /\ B \subseteq 7 .. 11 /\ C \subseteq 15 .. 19 /\ D = {} /\ E \subseteq 12 .. 14
          /\ F \subseteq 25 .. 31 /\ G \subseteq 20 .. 24 /\ ~HasRs2(format) /\ HasImm(format)
      BY <1>4, <1>5, <1>6, <1>7, <1>8, <1>9, <2>3 DEF HasRd, HasRs1, HasRs2, HasImm
    <3>2. w \cap 0 .. 6 = A
      <4>1. \A b \in w : b \in 0 .. 6 => b \in A
        BY <1>1, <1>3, <3>1
      <4>2. A \subseteq 0 .. 6 /\ A \subseteq w
        BY <1>1, <1>3, <3>1
      <4>. QED
        BY <4>1, <4>2, OnePiece, Zenon
    <3>3. w \cap 7 .. 11 = B
      <4>1. \A b \in w : b \in 7 .. 11 => b \in B
        BY <1>1, <1>3, <3>1
      <4>2. B \subseteq 7 .. 11 /\ B \subseteq w
        BY <1>1, <1>3, <3>1
      <4>. QED
        BY <4>1, <4>2, OnePiece, Zenon
    <3>4. w \cap 12 .. 14 = E
      <4>1. \A b \in w : b \in 12 .. 14 => b \in E
        BY <1>1, <1>3, <3>1
      <4>2. E \subseteq 12 .. 14 /\ E \subseteq w
        BY <1>1, <1>3, <3>1
      <4>. QED
        BY <4>1, <4>2, OnePiece, Zenon
    <3>5. w \cap 15 .. 19 = C
      <4>1. \A b \in w : b \in 15 .. 19 => b \in C
        BY <1>1, <1>3, <3>1
      <4>2. C \subseteq 15 .. 19 /\ C \subseteq w
        BY <1>1, <1>3, <3>1
      <4>. QED
        BY <4>1, <4>2, OnePiece, Zenon
    <3>6. w \cap 25 .. 31 = F
      <4>1. \A b \in w : b \in 25 .. 31 => b \in F
        BY <1>1, <1>3, <3>1
      <4>2. F \subseteq 25 .. 31 /\ F \subseteq w
        BY <1>1, <1>3, <3>1
      <4>. QED
        BY <4>1, <4>2, OnePiece, Zenon
    <3>7. w \cap 20 .. 24 = G
      <4>1. \A b \in w : b \in 20 .. 24 => b \in G
        BY <1>1, <1>3, <3>1
      <4>2. G \subseteq 20 .. 24 /\ G \subseteq w
        BY <1>1, <1>3, <3>1
      <4>. QED
        BY <4>1, <4>2, OnePiece, Zenon
    <3>. QED
      BY <2>3, <3>1, <3>2, <3>3, <3>4, <3>5, <3>6, <3>7
  <2>4. CASE format \in {"S", "B"}
    <3>1. /\ B = {} /\ C \subseteq 15 .. 19 /\ D \subseteq 20 .. 24 /\ E \subseteq 12 .. 14 /\ F = {}
          /\ G \subseteq (7 .. 11) \cup (25 .. 31) /\ ~shift /\ ~HasRd(format) /\ HasImm(format)
          /\ ImmBits(format) = (7 .. 11) \cup (25 .. 31)
      BY <1>4, <1>5, <1>6, <1>7, <1>8, <1>9, <1>10, <2>4 DEF HasRd, HasRs1, HasRs2, HasImm, ImmBits
    <3>2. w \cap 0 .. 6 = A
      <4>1. \A b \in w : b \in 0 .. 6 => b \in A
        BY <1>1, <1>3, <3>1
      <4>2. A \subseteq 0 .. 6 /\ A \subseteq w
        BY <1>1, <1>3, <3>1
      <4>. QED
        BY <4>1, <4>2, OnePiece, Zenon
    <3>3. w \cap 12 .. 14 = E
      <4>1. \A b \in w : b \in 12 .. 14 => b \in E
        BY <1>1, <1>3, <3>1
      <4>2. E \subseteq 12 .. 14 /\ E \subseteq w
        BY <1>1, <1>3, <3>1
      <4>. QED
        BY <4>1, <4>2, OnePiece, Zenon
    <3>4. w \cap 15 .. 19 = C
      <4>1. \A b \in w : b \in 15 .. 19 => b \in C
        BY <1>1, <1>3, <3>1
      <4>2. C \subseteq 15 .. 19 /\ C \subseteq w
        BY <1>1, <1>3, <3>1
      <4>. QED
        BY <4>1, <4>2, OnePiece, Zenon
    <3>5. w \cap 20 .. 24 = D
      <4>1. \A b \in w : b \in 20 .. 24 => b \in D
        BY <1>1, <1>3, <3>1
      <4>2. D \subseteq 20 .. 24 /\ D \subseteq w
        BY <1>1, <1>3, <3>1
      <4>. QED
        BY <4>1, <4>2, OnePiece, Zenon
    <3>6. w \cap ((7 .. 11) \cup (25 .. 31)) = G
      <4>1. \A b \in w : b \in ((7 .. 11) \cup (25 .. 31)) => b \in G
        BY <1>1, <1>3, <3>1
      <4>2. G \subseteq ((7 .. 11) \cup (25 .. 31)) /\ G \subseteq w
        BY <1>1, <1>3, <3>1
      <4>. QED
        BY <4>1, <4>2, OnePiece, Zenon
    <3>. QED
      BY <2>4, <3>1, <3>2, <3>3, <3>4, <3>5, <3>6
  <2>5. CASE format \in {"R", "R4"}
    <3>1. /\ B \subseteq 7 .. 11 /\ C \subseteq 15 .. 19 /\ D \subseteq 20 .. 24 /\ E \subseteq 12 .. 14
          /\ F \subseteq 25 .. 31 /\ G = {} /\ ~shift /\ ~HasImm(format)
      BY <1>4, <1>5, <1>6, <1>7, <1>8, <1>9, <1>10, <2>5 DEF HasRd, HasRs1, HasRs2, HasImm
    <3>2. w \cap 0 .. 6 = A
      <4>1. \A b \in w : b \in 0 .. 6 => b \in A
        BY <1>1, <1>3, <3>1
      <4>2. A \subseteq 0 .. 6 /\ A \subseteq w
        BY <1>1, <1>3, <3>1
      <4>. QED
        BY <4>1, <4>2, OnePiece, Zenon
    <3>3. w \cap 7 .. 11 = B
      <4>1. \A b \in w : b \in 7 .. 11 => b \in B
        BY <1>1, <1>3, <3>1
      <4>2. B \subseteq 7 .. 11 /\ B \subseteq w
        BY <1>1, <1>3, <3>1
      <4>. QED
        BY <4>1, <4>2, OnePiece, Zenon
    <3>4. w \cap 12 .. 14 = E
      <4>1. \A b \in w : b \in 12 .. 14 => b \in E
        BY <1>1, <1>3, <3>1
      <4>2. E \subseteq 12 .. 14 /\ E \subseteq w
        BY <1>1, <1>3, <3>1
      <4>. QED
        BY <4>1, <4>2, OnePiece, Zenon
    <3>5. w \cap 15 .. 19 = C
      <4>1. \A b \in w : b \in 15 .. 19 => b \in C
        BY <1>1, <1>3, <3>1
      <4>2. C \subseteq 15 .. 19 /\ C \subseteq w
        BY <1>1, <1>3, <3>1
      <4>. QED
        BY <4>1, <4>2, OnePiece, Zenon
    <3>6. w \cap 20 .. 24 = D
      <4>1. \A b \in w : b \in 20 .. 24 => b \in D
        BY <1>1, <1>3, <3>1
      <4>2. D \subseteq 20 .. 24 /\ D \subseteq w
        BY <1>1, <1>3, <3>1
      <4>. QED
        BY <4>1, <4>2, OnePiece, Zenon
    <3>7. w \cap 25 .. 31 = F
      <4>1. \A b \in w : b \in 25 .. 31 => b \in F
        BY <1>1, <1>3, <3>1
      <4>2. F \subseteq 25 .. 31 /\ F \subseteq w
        BY <1>1, <1>3, <3>1
      <4>. QED
        BY <4>1, <4>2, OnePiece, Zenon
    <3>. QED
      BY <2>5, <3>1, <3>2, <3>3, <3>4, <3>5, <3>6, <3>7
  <2>. QED
    BY <1>11, <2>1, <2>2, <2>3, <2>4, <2>5
<1>14. /\ HasRd(format) => B = Placed(i.rd, 7)
       /\ format \notin {"U", "J"} => E = Placed(FunctThree(i.function), 12)
       /\ HasRs1(format) => C = Placed(i.rs1, 15)
       /\ HasRs2(format) => D = Placed(i.rs2, 20)
       /\ ~HasImm(format) \/ shift => F = Placed(FunctSeven(i.function), 25)
       /\ HasImm(format) => G = Scattered(i.imm, format)
  BY <1>4, <1>5, <1>6, <1>7, <1>8, <1>9
<1>15. shift => HasImm(format) /\ G = Scattered(i.imm, "I")
  BY <1>10, <1>14 DEF HasImm
<1>. QED
  BY <1>12, <1>13, <1>14, <1>15 DEF A, w, shift, format

-----------------------------------------------------------------------------
(* What the decoder makes of a word                                        *)

(* The word that is decoded: a no-op in the place of the two words.        *)
Read(w) == IF w \in Unnecessary THEN NOP ELSE w

LEMMA ReadIsWord == \A w \in SUBSET Bits : Read(w) \in SUBSET Bits
BY DEF Read, NOP, BitsOf, Bits

LEMMA DecodedWord ==
  ASSUME NEW w \in SUBSET Bits, NewInstruction(w) # Undecodable
  PROVE  LET i      == NewInstruction(w)
             v      == Read(w)
             format == FormatOf(i.opcode)
         IN  /\ v \in SUBSET Bits
             /\ i = [opcode |-> i.opcode, function |-> i.function, rd |-> i.rd,
                     rs1 |-> i.rs1, rs2 |-> i.rs2, imm |-> i.imm]
             /\ i.opcode \in Opcode /\ i.opcode = OpcodeOf(v)
             /\ i.function = FunctionOf(v, i.opcode, i.imm) /\ i.function # Undecodable
             /\ i.rd  = IF HasRd(format) THEN Rd(v) ELSE NULL
             /\ i.rs1 = IF HasRs1(format) THEN Rs1(v) ELSE NULL
             /\ i.rs2 = IF HasRs2(format) THEN Rs2(v) ELSE NULL
             /\ i.imm = IF HasImm(format) THEN Imm(v, format, i.opcode) ELSE NULL
<1>. DEFINE v == Read(w)
            opcode == OpcodeOf(v)
            format == FormatOf(opcode)
            fields == Fields(v, format, opcode)
            function == FunctionOf(v, opcode, fields.imm)
            i == NewInstruction(w)
<1>1. v \in SUBSET Bits
  BY ReadIsWord
<1>2. i = IF opcode = Undecodable THEN Undecodable
          ELSE IF function = Undecodable THEN Undecodable
          ELSE [opcode |-> opcode, function |-> function, rd |-> fields.rd,
                rs1 |-> fields.rs1, rs2 |-> fields.rs2, imm |-> fields.imm]
  BY DEF NewInstruction, Read
<1>3. /\ fields.rd  = IF HasRd(format) THEN Rd(v) ELSE NULL
      /\ fields.rs1 = IF HasRs1(format) THEN Rs1(v) ELSE NULL
      /\ fields.rs2 = IF HasRs2(format) THEN Rs2(v) ELSE NULL
      /\ fields.imm = IF HasImm(format) THEN Imm(v, format, opcode) ELSE NULL
  BY DEF Fields
<1>4. opcode = Undecodable \/ opcode \in Opcode
  BY <1>1, OpcodeHasCode
<1>. HIDE DEF v, opcode, format, fields, function, i
<1>5. opcode # Undecodable /\ function # Undecodable
  BY <1>2 DEF i
<1>6. i = [opcode |-> opcode, function |-> function, rd |-> fields.rd,
           rs1 |-> fields.rs1, rs2 |-> fields.rs2, imm |-> fields.imm]
  BY <1>2, <1>5
<1>7. /\ i.opcode = opcode /\ i.function = function /\ i.rd = fields.rd
      /\ i.rs1 = fields.rs1 /\ i.rs2 = fields.rs2 /\ i.imm = fields.imm
  BY <1>6
<1>8. i = [opcode |-> i.opcode, function |-> i.function, rd |-> i.rd,
           rs1 |-> i.rs1, rs2 |-> i.rs2, imm |-> i.imm]
  BY <1>6, <1>7, Zenon
<1>9. /\ i.opcode \in Opcode /\ i.opcode = OpcodeOf(v)
      /\ i.function = FunctionOf(v, i.opcode, i.imm) /\ i.function # Undecodable
  BY <1>4, <1>5, <1>7, Zenon DEF opcode, function
<1>10. /\ i.rd  = IF HasRd(FormatOf(i.opcode)) THEN Rd(v) ELSE NULL
       /\ i.rs1 = IF HasRs1(FormatOf(i.opcode)) THEN Rs1(v) ELSE NULL
       /\ i.rs2 = IF HasRs2(FormatOf(i.opcode)) THEN Rs2(v) ELSE NULL
       /\ i.imm = IF HasImm(FormatOf(i.opcode)) THEN Imm(v, FormatOf(i.opcode), i.opcode) ELSE NULL
  BY <1>3, <1>7, Zenon DEF format
<1>. QED
  BY <1>1, <1>8, <1>9, <1>10, Zenon DEF v, i

(* It has the fields of its format, and no others.                         *)
LEMMA DecodedInstruction ==
  ASSUME NEW w \in SUBSET Bits, NewInstruction(w) # Undecodable
  PROVE  LET i      == NewInstruction(w)
             format == FormatOf(i.opcode)
         IN  /\ i.opcode \in Opcode /\ i.function \in FunctionsOf(i.opcode)
             /\ IF HasRd(format) THEN i.rd \in 0 .. 31 ELSE i.rd = NULL
             /\ IF HasRs1(format) THEN i.rs1 \in 0 .. 31 ELSE i.rs1 = NULL
             /\ IF HasRs2(format) THEN i.rs2 \in 0 .. 31 ELSE i.rs2 = NULL
             /\ IF HasImm(format) THEN i.imm \in SUBSET Bits /\ i.imm # NULL ELSE i.imm = NULL
             /\ ImmShift(i.function) => i.imm \in SUBSET (0 .. 4)
<1>. DEFINE i == NewInstruction(w)
            v == Read(w)
            format == FormatOf(i.opcode)
<1>1. /\ v \in SUBSET Bits
      /\ i.opcode \in Opcode
      /\ i.function = FunctionOf(v, i.opcode, i.imm) /\ i.function # Undecodable
      /\ i.rd  = IF HasRd(format) THEN Rd(v) ELSE NULL
      /\ i.rs1 = IF HasRs1(format) THEN Rs1(v) ELSE NULL
      /\ i.rs2 = IF HasRs2(format) THEN Rs2(v) ELSE NULL
      /\ i.imm = IF HasImm(format) THEN Imm(v, format, i.opcode) ELSE NULL
  BY DecodedWord, Zenon
<1>. HIDE DEF i, v
<1>2. /\ i.function \in FunctionsOf(i.opcode)
      /\ ImmShift(i.function) <=> (i.opcode = "OpImm" /\ Funct3(v) \in {1, 5})
  <2>. DEFINE f == FunctionOf(v, i.opcode, i.imm)
  <2>1. f # Undecodable /\ i.function = f
    BY <1>1, Zenon
  <2>2. /\ f \in FunctionsOf(i.opcode)
        /\ ImmShift(f) <=> (i.opcode = "OpImm" /\ Funct3(v) \in {1, 5})
    BY <1>1, <2>1, FunctionHasCodes, Zenon
  <2>. QED
    BY <2>1, <2>2, Zenon
<1>3. Rd(v) \in 0 .. 31 /\ Rs1(v) \in 0 .. 31 /\ Rs2(v) \in 0 .. 31
  BY <1>1, WordFields
<1>4. HasImm(format) => i.imm \in SUBSET Bits /\ i.imm # NULL
  BY <1>1, ImmIsSome, Zenon
<1>5. ASSUME ImmShift(i.function) PROVE i.imm \in SUBSET (0 .. 4)
  <2>1. i.opcode = "OpImm" /\ Funct3(v) \in {1, 5}
    BY <1>2, <1>5
  <2>2. format = "I" /\ HasImm(format)
    BY <2>1, Formats DEF HasImm
  <2>3. i.imm = Imm(v, "I", "OpImm")
    BY <1>1, <2>1, <2>2
  <2>. QED
    BY <1>1, <2>1, <2>3, ShiftAmount
<1>. QED
  BY <1>1, <1>2, <1>3, <1>4, <1>5 DEF i

(* Its codes are those of the word, and so are its fields, but for the     *)
(* bits that are ignored.                                                  *)
LEMMA DecodedPieces ==
  ASSUME NEW w \in (SUBSET Bits) \ Unnecessary, NewInstruction(w) # Undecodable,
         NewInstruction(w).opcode \in IntegerOpcodes
  PROVE  LET i      == NewInstruction(w)
             format == FormatOf(i.opcode)
         IN  /\ WellFormed(i)
             /\ w \cap 0 .. 6 = Placed(Major(i.opcode), 0)
             /\ HasRd(format) => w \cap 7 .. 11 = Placed(i.rd, 7)
             /\ format \notin {"U", "J"} /\ i.opcode # "Jalr" =>
                  w \cap 12 .. 14 = Placed(FunctThree(i.function), 12)
             /\ HasRs1(format) => w \cap 15 .. 19 = Placed(i.rs1, 15)
             /\ HasRs2(format) => w \cap 20 .. 24 = Placed(i.rs2, 20)
             /\ i.opcode = "Op" \/ i.function \in {"Srli", "Srai"} =>
                  w \cap 25 .. 31 = Placed(FunctSeven(i.function), 25)
             /\ i.opcode = "Amo" => FunctSeven(i.function) = 4 * (Funct7(w) \div 4)
             /\ ImmShift(i.function) => w \cap 20 .. 24 = Scattered(i.imm, "I")
             /\ HasImm(format) /\ ~ImmShift(i.function) =>
                  w \cap ImmBits(format) = Scattered(i.imm, format)
<1>. DEFINE i == NewInstruction(w)
            f == i.function
            format == FormatOf(i.opcode)
<1>1. w \in SUBSET Bits /\ Read(w) = w
  BY DEF Read
<1>2. /\ i.opcode = OpcodeOf(w)
      /\ f = FunctionOf(w, i.opcode, i.imm) /\ f # Undecodable
      /\ i.rd  = IF HasRd(format) THEN Rd(w) ELSE NULL
      /\ i.rs1 = IF HasRs1(format) THEN Rs1(w) ELSE NULL
      /\ i.rs2 = IF HasRs2(format) THEN Rs2(w) ELSE NULL
      /\ i.imm = IF HasImm(format) THEN Imm(w, format, i.opcode) ELSE NULL
  BY <1>1, DecodedWord, Zenon
<1>3. /\ i.opcode \in Opcode /\ f \in FunctionsOf(i.opcode)
      /\ IF HasRd(format) THEN i.rd \in 0 .. 31 ELSE i.rd = NULL
      /\ IF HasRs1(format) THEN i.rs1 \in 0 .. 31 ELSE i.rs1 = NULL
      /\ IF HasRs2(format) THEN i.rs2 \in 0 .. 31 ELSE i.rs2 = NULL
      /\ IF HasImm(format) THEN i.imm \in SUBSET Bits /\ i.imm # NULL ELSE i.imm = NULL
      /\ ImmShift(f) => i.imm \in SUBSET (0 .. 4)
  BY <1>1, DecodedInstruction, Zenon
<1>4. i.opcode \in IntegerOpcodes
  OBVIOUS
<1>. HIDE DEF i
<1>5. WellFormed(i)
  BY <1>3, <1>4, Zenon DEF WellFormed
<1>6. w \cap 0 .. 6 = Placed(Major(i.opcode), 0)
  <2>1. Major(i.opcode) = Field(w, OPCODE_MASK, 0)
    BY <1>1, <1>2, <1>4, OpcodeHasCode
  <2>. QED
    BY <1>1, <2>1, WordFields
<1>7. HasRd(format) => w \cap 7 .. 11 = Placed(i.rd, 7)
  BY <1>1, <1>2, WordFields
<1>8. HasRs1(format) => w \cap 15 .. 19 = Placed(i.rs1, 15)
  BY <1>1, <1>2, WordFields
<1>9. HasRs2(format) => w \cap 20 .. 24 = Placed(i.rs2, 20)
  BY <1>1, <1>2, WordFields
<1>10. /\ i.opcode \in IntegerOpcodes \ {"Lui", "AuiPc", "Jal", "Jalr"} => FunctThree(f) = Funct3(w)
       /\ i.opcode = "Op" => FunctSeven(f) = Funct7(w)
       /\ i.opcode = "Amo" => FunctSeven(f) = 4 * (Funct7(w) \div 4)
       /\ ImmShift(f) <=> (i.opcode = "OpImm" /\ Funct3(w) \in {1, 5})
       /\ ImmShift(f) /\ f # "Slli" => FunctSeven(f) = Funct7(w)
  BY <1>1, <1>2, <1>3, FunctionHasCodes
<1>11. format \notin {"U", "J"} /\ i.opcode # "Jalr" =>
         w \cap 12 .. 14 = Placed(FunctThree(f), 12)
  <2>1. format \notin {"U", "J"} => i.opcode \notin {"Lui", "AuiPc", "Jal"}
    BY Formats
  <2>. HIDE DEF format
  <2>. QED
    BY <1>1, <1>4, <1>10, <2>1, WordFields
<1>12. i.opcode = "Op" \/ f \in {"Srli", "Srai"} => w \cap 25 .. 31 = Placed(FunctSeven(f), 25)
  <2>1. f \in {"Srli", "Srai"} => ImmShift(f) /\ f # "Slli"
    BY DEF ImmShift
  <2>. QED
    BY <1>1, <1>10, <2>1, WordFields
<1>13. ASSUME ImmShift(f) PROVE w \cap 20 .. 24 = Scattered(i.imm, "I")
  <2>1. i.opcode = "OpImm" /\ Funct3(w) \in {1, 5}
    BY <1>10, <1>13
  <2>2. format = "I" /\ HasImm(format)
    BY <2>1, Formats DEF HasImm
  <2>3. i.imm = Imm(w, "I", "OpImm") /\ i.imm \in SUBSET (0 .. 4)
    BY <1>2, <1>3, <1>13, <2>1, <2>2
  <2>. QED
    BY <1>1, <2>1, <2>3, ShiftAmount
<1>14. ASSUME HasImm(format), ~ImmShift(f) PROVE w \cap ImmBits(format) = Scattered(i.imm, format)
  <2>1. HasFullImm(w, i.opcode)
    BY <1>3, <1>10, <1>14 DEF HasFullImm
  <2>2. i.imm = Imm(w, format, i.opcode) /\ i.imm \in SUBSET Bits
    BY <1>2, <1>3, <1>14
  <2>3. i.imm \cap LowBit(format) .. SignBit(format) = RawImm(w, format, i.opcode)
    BY <1>1, <2>1, <2>2, ImmValue
  <2>. QED
    BY <1>1, <2>1, <2>2, <2>3, ImmRoundTrip
<1>. QED
  BY <1>5, <1>6, <1>7, <1>8, <1>9, <1>10, <1>11, <1>12, <1>13, <1>14, Zenon DEF i

(* A word that decodes is the encoding of its instruction, but for the bits *)
(* that are ignored.                                                       *)
LEMMA DecodedIsAssembled ==
  ASSUME NEW w \in (SUBSET Bits) \ Unnecessary, NewInstruction(w) # Undecodable,
         NewInstruction(w).opcode \in IntegerOpcodes
  PROVE  LET i == NewInstruction(w)
         IN  w \ Ignored(i) = Assembled(i) \ Ignored(i)
<1>. DEFINE i == NewInstruction(w)
            f == i.function
            format == FormatOf(i.opcode)
            a == Assembled(i)
            Same(bits) == w \cap bits = a \cap bits
<1>0. i.opcode \in IntegerOpcodes
  OBVIOUS
<1>1. /\ WellFormed(i)
      /\ w \cap 0 .. 6 = Placed(Major(i.opcode), 0)
      /\ HasRd(format) => w \cap 7 .. 11 = Placed(i.rd, 7)
      /\ format \notin {"U", "J"} /\ i.opcode # "Jalr" =>
           w \cap 12 .. 14 = Placed(FunctThree(f), 12)
      /\ HasRs1(format) => w \cap 15 .. 19 = Placed(i.rs1, 15)
      /\ HasRs2(format) => w \cap 20 .. 24 = Placed(i.rs2, 20)
      /\ i.opcode = "Op" \/ f \in {"Srli", "Srai"} => w \cap 25 .. 31 = Placed(FunctSeven(f), 25)
      /\ i.opcode = "Amo" => FunctSeven(f) = 4 * (Funct7(w) \div 4)
      /\ ImmShift(f) => w \cap 20 .. 24 = Scattered(i.imm, "I")
      /\ HasImm(format) /\ ~ImmShift(f) => w \cap ImmBits(format) = Scattered(i.imm, format)
  BY DecodedPieces, Zenon
<1>. HIDE DEF i
<1>2. /\ a \in SUBSET Bits
      /\ a \cap 0 .. 6 = Placed(Major(i.opcode), 0)
      /\ HasRd(format) => a \cap 7 .. 11 = Placed(i.rd, 7)
      /\ format \notin {"U", "J"} => a \cap 12 .. 14 = Placed(FunctThree(f), 12)
      /\ HasRs1(format) => a \cap 15 .. 19 = Placed(i.rs1, 15)
      /\ HasRs2(format) => a \cap 20 .. 24 = Placed(i.rs2, 20)
      /\ ~HasImm(format) \/ ImmShift(f) => a \cap 25 .. 31 = Placed(FunctSeven(f), 25)
      /\ ImmShift(f) => a \cap 20 .. 24 = Scattered(i.imm, "I")
      /\ HasImm(format) /\ ~ImmShift(f) => a \cap ImmBits(format) = Scattered(i.imm, format)
  BY <1>1, Pieces, Zenon
<1>3. /\ w \in SUBSET Bits
      /\ i.function \in FunctionsOf(i.opcode)
      /\ format \in {"I", "S", "B", "U", "J", "R", "R4"}
      /\ ImmShift(f) => i.opcode = "OpImm"
      /\ format = "R" => i.opcode = "Op"
      /\ format = "R4" => i.opcode = "Amo"
  <2>1. i.function \in FunctionsOf(i.opcode)
    BY <1>1 DEF WellFormed
  <2>. QED
    BY <1>0, <2>1, FunctCodes, Formats, OpcodeSets
<1>. HIDE DEF f, format, a
<1>4. /\ Same(0 .. 6)
      /\ HasRd(format) => Same(7 .. 11)
      /\ format \notin {"U", "J"} /\ i.opcode # "Jalr" => Same(12 .. 14)
      /\ HasRs1(format) => Same(15 .. 19)
      /\ HasRs2(format) => Same(20 .. 24)
      /\ i.opcode = "Op" \/ f \in {"Srli", "Srai"} => Same(25 .. 31)
      /\ ImmShift(f) => Same(20 .. 24)
      /\ HasImm(format) /\ ~ImmShift(f) => Same(ImmBits(format))
  <2>1. f \in {"Srli", "Srai"} => ImmShift(f)
    BY DEF ImmShift
  <2>2. i.opcode = "Op" => ~HasImm(format)
    BY Formats DEF HasImm, format
  <2>. QED
    BY <1>1, <1>2, <2>1, <2>2, Zenon
<1>5. ASSUME i.opcode = "Amo" PROVE Same(27 .. 31)
  <2>. DEFINE n == Funct7(w)
  <2>1. n \in 0 .. 127 /\ Placed(n, 25) = w \cap 25 .. 31
    BY <1>3, WordFields
  <2>2. a \cap 25 .. 31 = Placed(4 * (n \div 4), 25)
    BY <1>1, <1>2, <1>5, Formats DEF HasImm, format
  <2>. HIDE DEF n
  <2>3. 25 \in Bits /\ 4 * (n \div 4) \in 0 .. 127
    BY <2>1 DEF Bits
  <2>4. \A b \in Int : b \in Placed(n, 25) <=> b - 25 \in BitsOf(n)
    BY <2>1, <2>3, PlacedMember
  <2>5. \A b \in Int : b \in Placed(4 * (n \div 4), 25) <=> b - 25 \in BitsOf(4 * (n \div 4))
    BY <2>3, PlacedMember
  <2>6. \A b \in 2 .. 6 : b \in BitsOf(n) <=> b \in BitsOf(4 * (n \div 4))
    <3>1. \A b \in 2 .. 6 : b \in BitsOf(n) <=>
             \/ b = 2 /\ (n \div 4) % 2 = 1
             \/ b = 3 /\ (n \div 8) % 2 = 1
             \/ b = 4 /\ (n \div 16) % 2 = 1
             \/ b = 5 /\ (n \div 32) % 2 = 1
             \/ b = 6 /\ (n \div 64) % 2 = 1
      BY <2>1, SmallBits
    <3>. DEFINE m == 4 * (n \div 4)
    <3>2. \A b \in 2 .. 6 : b \in BitsOf(m) <=>
             \/ b = 2 /\ (m \div 4) % 2 = 1
             \/ b = 3 /\ (m \div 8) % 2 = 1
             \/ b = 4 /\ (m \div 16) % 2 = 1
             \/ b = 5 /\ (m \div 32) % 2 = 1
             \/ b = 6 /\ (m \div 64) % 2 = 1
      <4>1. m \in 0 .. 127
        BY <2>3
      <4>. HIDE DEF m
      <4>. QED
        BY <4>1, SmallBits
    <3>3. /\ m \div 4 = n \div 4 /\ m \div 8 = n \div 8 /\ m \div 16 = n \div 16
          /\ m \div 32 = n \div 32 /\ m \div 64 = n \div 64
      BY <2>1
    <3>. HIDE DEF m
    <3>4. \A b \in 2 .. 6 : b \in BitsOf(n) <=> b \in BitsOf(m)
      BY <3>1, <3>2, <3>3
    <3>. QED
      BY <3>4 DEF m
  <2>7. ASSUME NEW b \in 27 .. 31 PROVE b \in w <=> b \in a
    <3>1. b - 25 \in 2 .. 6 /\ b \in 25 .. 31 /\ b \in Int
      OBVIOUS
    <3>2. b \in w <=> b \in Placed(n, 25)
      BY <2>1, <3>1, Zenon
    <3>3. b \in a <=> b \in Placed(4 * (n \div 4), 25)
      BY <2>2, <3>1, Zenon
    <3>. QED
      BY <2>4, <2>5, <2>6, <3>1, <3>2, <3>3, Zenon
  <2>. QED
    BY <2>7
<1>6. /\ Ignored(i) = IF i.opcode = "Amo" THEN 25 .. 26
                      ELSE IF i.opcode = "Jalr" THEN 12 .. 14
                      ELSE IF f = "Slli" THEN 25 .. 31
                      ELSE IF f = "Ecall" THEN 20 .. 31 ELSE {}
  <2>1. f \in {"Slli", "Ecall"} => i.opcode \notin {"Amo", "Jalr"}
    BY <1>3, FunctionSets DEF f
  <2>. QED
    BY <2>1 DEF Ignored, f, FUNCT3_MASK, FUNCT7_MASK
<1>. DEFINE Covered(bits) == \A b \in Bits \ Ignored(i) : b \in bits => (b \in w <=> b \in a)
<1>7. ASSUME NEW bits, Same(bits) PROVE Covered(bits)
  BY <1>7, Zenon
<1>. HIDE DEF Same
<1>8. ASSUME NEW b \in Bits \ Ignored(i) PROVE b \in w <=> b \in a
  <2>1. CASE format \in {"U", "J"}
    <3>1. HasRd(format) /\ HasImm(format) /\ ImmBits(format) = 12 .. 31 /\ ~ImmShift(f)
      BY <1>3, <2>1, Formats DEF HasRd, HasRs1, HasRs2, HasImm, ImmBits, format
    <3>2. Same(0 .. 6) /\ Same(7 .. 11) /\ Same(12 .. 31)
      BY <1>4, <1>5, <2>1, <3>1, Zenon
    <3>3. Covered(0 .. 6) /\ Covered(7 .. 11) /\ Covered(12 .. 31)
      BY <1>7, <3>2
    <3>4. b \in 0 .. 6 \/ b \in 7 .. 11 \/ b \in 12 .. 31
      BY DEF Bits
    <3>. QED
      BY <3>3, <3>4, Zenon
  <2>2. CASE format = "I" /\ ~ImmShift(f)
    <3>1. HasRd(format) /\ HasRs1(format) /\ HasImm(format) /\ ImmBits(format) = 20 .. 31
      BY <1>3, <2>2, Formats DEF HasRd, HasRs1, HasRs2, HasImm, ImmBits, format
    <3>2. Same(0 .. 6) /\ Same(7 .. 11) /\ Same(15 .. 19) /\ Same(20 .. 31)
      BY <1>4, <1>5, <2>2, <3>1, Zenon
    <3>3. Covered(0 .. 6) /\ Covered(7 .. 11) /\ Covered(15 .. 19) /\ Covered(20 .. 31)
      BY <1>7, <3>2
    <3>4. b \in 12 .. 14 => (b \in w <=> b \in a)
      <4>1. CASE i.opcode = "Jalr"
        BY <1>6, <4>1
      <4>2. CASE i.opcode # "Jalr"
        <5>1. Same(12 .. 14)
          BY <1>4, <2>2, <4>2
        <5>. QED
          BY <1>7, <5>1
      <4>. QED
        BY <4>1, <4>2
    <3>5. \/ b \in 0 .. 6 \/ b \in 7 .. 11 \/ b \in 15 .. 19
          \/ b \in 20 .. 31 \/ b \in 12 .. 14
      BY DEF Bits
    <3>. QED
      BY <3>3, <3>4, <3>5, Zenon
  <2>3. CASE format = "I" /\ ImmShift(f)
    <3>1. HasRd(format) /\ HasRs1(format) /\ i.opcode # "Jalr"
      BY <1>3, <2>3, Formats DEF HasRd, HasRs1, HasRs2, HasImm, ImmBits, format
    <3>2. /\ Same(0 .. 6) /\ Same(7 .. 11) /\ Same(12 .. 14)
          /\ Same(15 .. 19) /\ Same(20 .. 24)
      BY <1>4, <1>5, <2>3, <3>1, Zenon
    <3>3. /\ Covered(0 .. 6) /\ Covered(7 .. 11) /\ Covered(12 .. 14)
          /\ Covered(15 .. 19) /\ Covered(20 .. 24)
      BY <1>7, <3>2
    <3>4. b \in 25 .. 31 => (b \in w <=> b \in a)
      <4>1. CASE f = "Slli"
        <5>1. i.opcode = "OpImm"
          BY <1>3, <2>3
        <5>. QED
          BY <1>6, <4>1, <5>1
      <4>2. CASE f # "Slli"
        <5>1. f \in {"Srli", "Srai"}
          BY <2>3, <4>2 DEF ImmShift
        <5>2. Same(25 .. 31)
          BY <1>4, <5>1
        <5>. QED
          BY <1>7, <5>2
      <4>. QED
        BY <4>1, <4>2
    <3>5. \/ b \in 0 .. 6 \/ b \in 7 .. 11 \/ b \in 12 .. 14
          \/ b \in 15 .. 19 \/ b \in 20 .. 24 \/ b \in 25 .. 31
      BY DEF Bits
    <3>. QED
      BY <3>3, <3>4, <3>5, Zenon
  <2>4. CASE format \in {"S", "B"}
    <3>1. /\ HasRs1(format) /\ HasRs2(format) /\ HasImm(format)
          /\ ImmBits(format) = (7 .. 11) \cup (25 .. 31) /\ ~ImmShift(f)
          /\ i.opcode # "Jalr"
      BY <1>3, <2>4, Formats DEF HasRd, HasRs1, HasRs2, HasImm, ImmBits, format
    <3>2. /\ Same(0 .. 6) /\ Same(12 .. 14) /\ Same(15 .. 19)
          /\ Same(20 .. 24) /\ Same(((7 .. 11) \cup (25 .. 31)))
      BY <1>4, <1>5, <2>4, <3>1, Zenon
    <3>3. /\ Covered(0 .. 6) /\ Covered(12 .. 14) /\ Covered(15 .. 19)
          /\ Covered(20 .. 24) /\ Covered(((7 .. 11) \cup (25 .. 31)))
      BY <1>7, <3>2
    <3>4. \/ b \in 0 .. 6 \/ b \in 12 .. 14 \/ b \in 15 .. 19
          \/ b \in 20 .. 24 \/ b \in ((7 .. 11) \cup (25 .. 31))
      BY DEF Bits
    <3>. QED
      BY <3>3, <3>4, Zenon
  <2>5. CASE format = "R"
    <3>1. HasRd(format) /\ HasRs1(format) /\ HasRs2(format) /\ i.opcode = "Op"
      BY <1>3, <2>5, Formats DEF HasRd, HasRs1, HasRs2, HasImm, ImmBits, format
    <3>2. /\ Same(0 .. 6) /\ Same(7 .. 11) /\ Same(12 .. 14)
          /\ Same(15 .. 19) /\ Same(20 .. 24) /\ Same(25 .. 31)
      BY <1>4, <1>5, <2>5, <3>1, Zenon
    <3>3. /\ Covered(0 .. 6) /\ Covered(7 .. 11) /\ Covered(12 .. 14)
          /\ Covered(15 .. 19) /\ Covered(20 .. 24) /\ Covered(25 .. 31)
      BY <1>7, <3>2
    <3>4. \/ b \in 0 .. 6 \/ b \in 7 .. 11 \/ b \in 12 .. 14
          \/ b \in 15 .. 19 \/ b \in 20 .. 24 \/ b \in 25 .. 31
      BY DEF Bits
    <3>. QED
      BY <3>3, <3>4, Zenon
  <2>6. CASE format = "R4"
    <3>1. HasRd(format) /\ HasRs1(format) /\ HasRs2(format) /\ i.opcode = "Amo"
      BY <1>3, <2>6, Formats DEF HasRd, HasRs1, HasRs2, HasImm, ImmBits, format
    <3>2. /\ Same(0 .. 6) /\ Same(7 .. 11) /\ Same(12 .. 14)
          /\ Same(15 .. 19) /\ Same(20 .. 24) /\ Same(27 .. 31)
      BY <1>4, <1>5, <2>6, <3>1, Zenon
    <3>3. /\ Covered(0 .. 6) /\ Covered(7 .. 11) /\ Covered(12 .. 14)
          /\ Covered(15 .. 19) /\ Covered(20 .. 24) /\ Covered(27 .. 31)
      BY <1>7, <3>2
    <3>4. b \notin 25 .. 26
      BY <1>6, <3>1
    <3>5. \/ b \in 0 .. 6 \/ b \in 7 .. 11 \/ b \in 12 .. 14
          \/ b \in 15 .. 19 \/ b \in 20 .. 24 \/ b \in 27 .. 31
          \/ b \in 25 .. 26
      BY DEF Bits
    <3>. QED
      BY <3>3, <3>4, <3>5, Zenon
  <2>. QED
    BY <1>3, <2>1, <2>2, <2>3, <2>4, <2>5, <2>6
<1>. QED
  BY <1>2, <1>3, <1>8 DEF a, i

-----------------------------------------------------------------------------
(* What the decoder makes of an assembled word                             *)

(* A word with the codes of a function has that function.                  *)
LEMMA CodesHaveFunction ==
  ASSUME NEW w \in SUBSET Bits, NEW opcode \in IntegerOpcodes, NEW f \in FunctionsOf(opcode), NEW imm,
         FormatOf(opcode) \notin {"U", "J"} => Funct3(w) = FunctThree(f),
         ~HasImm(FormatOf(opcode)) \/ ImmShift(f) => Funct7(w) = FunctSeven(f),
         opcode = "System" => (f = "Ebreak" <=> imm = {0})
  PROVE  FunctionOf(w, opcode, imm) = f
<1>. DEFINE c == Funct3(w)
            d == Funct7(w)
            h == Rs3(w)
<1>1. h = d \div 4
  BY HighBitsOfFunct7
<1>2. /\ FormatOf(opcode) \notin {"U", "J"} => c = FunctThree(f)
      /\ ~HasImm(FormatOf(opcode)) \/ ImmShift(f) => d = FunctSeven(f)
  OBVIOUS
<1>3. CASE opcode \in {"Lui", "AuiPc", "Jal", "Jalr"}
  BY <1>3, FunctionSets DEF FunctionOf
<1>4. CASE opcode = "Branch"
  <2>1. FunctionOf(w, opcode, imm) = BranchFunction(c) /\ c = FunctThree(f)
    BY <1>2, <1>4, Formats DEF FunctionOf
  <2>. HIDE DEF c
  <2>. QED
    BY <1>4, <2>1, FunctionSets, FunctThreeCodes DEF BranchFunction
<1>5. CASE opcode = "Load"
  <2>1. FunctionOf(w, opcode, imm) = LoadFunction(c) /\ c = FunctThree(f)
    BY <1>2, <1>5, Formats DEF FunctionOf
  <2>. HIDE DEF c
  <2>. QED
    BY <1>5, <2>1, FunctionSets, FunctThreeCodes DEF LoadFunction
<1>6. CASE opcode = "Store"
  <2>1. FunctionOf(w, opcode, imm) = StoreFunction(c) /\ c = FunctThree(f)
    BY <1>2, <1>6, Formats DEF FunctionOf
  <2>. HIDE DEF c
  <2>. QED
    BY <1>6, <2>1, FunctionSets, FunctThreeCodes DEF StoreFunction
<1>7. CASE opcode = "MiscMem"
  <2>1. FunctionOf(w, opcode, imm) = FenceFunction(c) /\ c = FunctThree(f)
    BY <1>2, <1>7, Formats DEF FunctionOf
  <2>. HIDE DEF c
  <2>. QED
    BY <1>7, <2>1, FunctionSets, FunctThreeCodes DEF FenceFunction
<1>8. CASE opcode = "OpImm"
  <2>1. /\ FunctionOf(w, opcode, imm) = OpImmFunction(c, d) /\ c = FunctThree(f)
        /\ f \in {"Srli", "Srai"} => d = FunctSeven(f)
    BY <1>2, <1>8, Formats DEF FunctionOf, ImmShift
  <2>. HIDE DEF c, d
  <2>2. f \in {"Addi", "Slti", "Sltiu", "Xori", "Ori", "Andi", "Slli"} =>
          c \in {0, 1, 2, 3, 4, 6, 7} /\ OpImmFunction(c, d) = f
    BY <2>1, FunctThreeCodes DEF OpImmFunction
  <2>3. f \in {"Srli", "Srai"} => OpImmFunction(c, d) = f
    BY <2>1, FunctThreeCodes, FunctSevenCodes DEF OpImmFunction, ShiftRightFunction
  <2>. QED
    BY <1>8, <2>1, <2>2, <2>3, FunctionSets
<1>9. CASE opcode = "Op"
  <2>1. FunctionOf(w, opcode, imm) = OpFunction(c, d) /\ c = FunctThree(f) /\ d = FunctSeven(f)
    BY <1>2, <1>9, Formats DEF FunctionOf, HasImm
  <2>. HIDE DEF c, d
  <2>. QED
    BY <1>9, <2>1, FunctionSets, FunctThreeCodes, FunctSevenCodes DEF OpFunction
<1>10. CASE opcode = "System"
  <2>1. FunctionOf(w, opcode, imm) = SystemFunction(c, imm) /\ c = FunctThree(f)
    BY <1>2, <1>10, Formats DEF FunctionOf
  <2>. HIDE DEF c
  <2>. QED
    BY <1>10, <2>1, FunctionSets, FunctThreeCodes DEF SystemFunction
<1>11. CASE opcode = "Amo"
  <2>1. FunctionOf(w, opcode, imm) = AmoFunction(c, h) /\ c = FunctThree(f) /\ h = FunctSeven(f) \div 4
    BY <1>1, <1>2, <1>11, Formats DEF FunctionOf, HasImm
  <2>. HIDE DEF c, h
  <2>. QED
    BY <1>11, <2>1, FunctionSets, FunctThreeCodes, FunctSevenCodes DEF AmoFunction
<1>. QED
  BY <1>3, <1>4, <1>5, <1>6, <1>7, <1>8, <1>9, <1>10, <1>11, OpcodeSets

(* The two words that are replaced are no instruction of the manual's that *)
(* the decoder knows: both have a system opcode and a funct3.              *)
LEMMA UnnecessaryWords ==
  ASSUME NEW w \in Unnecessary
  PROVE  w \in SUBSET Bits /\ Field(w, OPCODE_MASK, 0) = 115 /\ Funct3(w) # 0
<1>. DEFINE m == \h003027f3
            n == \h00351073
<1>1. m = 3155955 /\ n = 3477619
  OBVIOUS
<1>2. /\ 2 ^ 0 = 1 /\ 2 ^ 1 = 2 /\ 2 ^ 2 = 4 /\ 2 ^ 3 = 8 /\ 2 ^ 4 = 16 /\ 2 ^ 5 = 32 /\ 2 ^ 6 = 64
      /\ 2 ^ 12 = 4096 /\ 2 ^ 13 = 8192
  OBVIOUS
<1>3. \A k \in Int, b \in 0 .. 30 : b \in BitsOf(k) <=> (k \div 2 ^ b) % 2 = 1
  BY DEF BitsOf
<1>4. /\ 0 \in BitsOf(m) /\ 1 \in BitsOf(m) /\ 2 \notin BitsOf(m) /\ 3 \notin BitsOf(m)
      /\ 4 \in BitsOf(m) /\ 5 \in BitsOf(m) /\ 6 \in BitsOf(m) /\ 13 \in BitsOf(m)
  BY <1>1, <1>2, <1>3
<1>5. /\ 0 \in BitsOf(n) /\ 1 \in BitsOf(n) /\ 2 \notin BitsOf(n) /\ 3 \notin BitsOf(n)
      /\ 4 \in BitsOf(n) /\ 5 \in BitsOf(n) /\ 6 \in BitsOf(n) /\ 12 \in BitsOf(n)
  BY <1>1, <1>2, <1>3
<1>6. /\ w \in SUBSET Bits
      /\ 0 \in w /\ 1 \in w /\ 2 \notin w /\ 3 \notin w /\ 4 \in w /\ 5 \in w /\ 6 \in w
      /\ 12 \in w \/ 13 \in w
  <2>1. BitsOf(m) \in SUBSET Bits /\ BitsOf(n) \in SUBSET Bits
    BY DEF BitsOf, Bits
  <2>. HIDE DEF m, n
  <2>2. w = BitsOf(m) \/ w = BitsOf(n)
    BY DEF Unnecessary, m, n
  <2>. QED
    BY <1>4, <1>5, <2>1, <2>2
<1>7. Field(w, OPCODE_MASK, 0) = 115
  <2>1. \A b \in Int : b \in Shr(w \cap 0 .. 6, 0) <=> b >= 0 /\ b + 0 \in w /\ b + 0 \in 0 .. 6
    <3>1. 0 \in Bits
      BY DEF Bits
    <3>. QED
      BY <1>6, <3>1, Gathered, Zenon
  <2>. DEFINE bits == Shr(w \cap 0 .. 6, 0)
  <2>2. 0 \in bits /\ 1 \in bits /\ 2 \notin bits /\ 3 \notin bits /\ 4 \in bits /\ 5 \in bits /\ 6 \in bits
    <3>. HIDE DEF bits
    <3>. QED
      BY <1>6, <2>1 DEF bits
  <2>. HIDE DEF bits
  <2>3. Number(bits) = 115
    BY <2>2 DEF Number
  <2>. QED
    BY <2>3 DEF Field, OPCODE_MASK, bits
<1>8. Funct3(w) # 0
  <2>1. Placed(Funct3(w), 12) = w \cap 12 .. 14
    BY <1>6, WordFields
  <2>2. ASSUME Funct3(w) = 0 PROVE FALSE
    <3>1. 0 \in 0 .. 127
      OBVIOUS
    <3>2. BitsOf(0) = {}
      <4>1. BitsOf(0) \subseteq Int /\ BitsOf(0) \subseteq 0 .. 6
        BY <3>1, BitsOfProperties DEF BitsOf
      <4>2. \A b \in Int : b \notin BitsOf(0)
        <5>1. /\ 0 % 2 = 0 /\ (0 \div 2) % 2 = 0 /\ (0 \div 4) % 2 = 0 /\ (0 \div 8) % 2 = 0
              /\ (0 \div 16) % 2 = 0 /\ (0 \div 32) % 2 = 0 /\ (0 \div 64) % 2 = 0
          OBVIOUS
        <5>. QED
          BY <3>1, <5>1, SmallBits
      <4>. QED
        BY <4>1, <4>2
    <3>3. Placed(0, 12) = {}
      BY <3>2 DEF Placed
    <3>. QED
      BY <1>6, <2>1, <2>2, <3>3
  <2>. QED
    BY <2>2
<1>. QED
  BY <1>6, <1>7, <1>8

(* An instruction of the manual's has the fields of its format.            *)
LEMMA AssemblableIsWellFormed ==
  ASSUME NEW s, Assemblable(s)
  PROVE  /\ WellFormed(s)
         /\ HasImm(FormatOf(s.opcode)) <=> s.imm # NULL
         /\ s = [opcode |-> s.opcode, function |-> s.function, rd |-> s.rd,
                 rs1 |-> s.rs1, rs2 |-> s.rs2, imm |-> s.imm]
<1>. DEFINE format == FormatOf(s.opcode)
<1>1. /\ s \in [opcode : Opcode \ FpOpcodes, function : Function,
                rd : 0 .. 31 \cup {NULL}, rs1 : 0 .. 31 \cup {NULL}, rs2 : 0 .. 31 \cup {NULL},
                imm : (SUBSET Bits) \cup {NULL}]
      /\ Decoded(s)
      /\ ImmShift(s.function) => s.imm \subseteq 0 .. 4
  BY Zenon DEF Assemblable
<1>2. /\ s.opcode \in IntegerOpcodes
      /\ s.rd \in 0 .. 31 \cup {NULL} /\ s.rs1 \in 0 .. 31 \cup {NULL} /\ s.rs2 \in 0 .. 31 \cup {NULL}
      /\ s.imm \in (SUBSET Bits) \cup {NULL}
      /\ s = [opcode |-> s.opcode, function |-> s.function, rd |-> s.rd,
              rs1 |-> s.rs1, rs2 |-> s.rs2, imm |-> s.imm]
  BY <1>1 DEF IntegerOpcodes
<1>3. /\ s.function \in FunctionsOf(s.opcode)
      /\ HasRd(format)  <=> s.rd # NULL
      /\ HasRs1(format) <=> s.rs1 # NULL
      /\ HasRs2(format) <=> s.rs2 # NULL
      /\ HasImm(format) <=> s.imm # NULL
  BY <1>1, Zenon DEF Decoded
<1>4. /\ IF HasRd(format) THEN s.rd \in 0 .. 31 ELSE s.rd = NULL
      /\ IF HasRs1(format) THEN s.rs1 \in 0 .. 31 ELSE s.rs1 = NULL
      /\ IF HasRs2(format) THEN s.rs2 \in 0 .. 31 ELSE s.rs2 = NULL
      /\ HasImm(format) => s.imm \in SUBSET Bits
  <2>. HIDE DEF format
  <2>. QED
    BY <1>2, <1>3
<1>5. ImmShift(s.function) => s.imm \in SUBSET (0 .. 4)
  BY <1>1
<1>6. WellFormed(s)
  BY <1>2, <1>3, <1>4, <1>5, Zenon DEF WellFormed
<1>. QED
  BY <1>2, <1>3, <1>6, Zenon

(* The fields and codes of an assembled word are those of its instruction. *)
LEMMA AssembledFields ==
  ASSUME NEW s, WellFormed(s)
  PROVE  LET w      == Assembled(s)
             format == FormatOf(s.opcode)
         IN  /\ Field(w, OPCODE_MASK, 0) = Major(s.opcode)
             /\ HasRd(format) => Rd(w) = s.rd
             /\ format \notin {"U", "J"} => Funct3(w) = FunctThree(s.function)
             /\ HasRs1(format) => Rs1(w) = s.rs1
             /\ HasRs2(format) => Rs2(w) = s.rs2
             /\ ~HasImm(format) \/ ImmShift(s.function) => Funct7(w) = FunctSeven(s.function)
<1>. DEFINE w == Assembled(s)
            format == FormatOf(s.opcode)
            f == s.function
<1>1. /\ w \in SUBSET Bits
      /\ w \cap 0 .. 6 = Placed(Major(s.opcode), 0)
      /\ HasRd(format) => w \cap 7 .. 11 = Placed(s.rd, 7)
      /\ format \notin {"U", "J"} => w \cap 12 .. 14 = Placed(FunctThree(f), 12)
      /\ HasRs1(format) => w \cap 15 .. 19 = Placed(s.rs1, 15)
      /\ HasRs2(format) => w \cap 20 .. 24 = Placed(s.rs2, 20)
      /\ ~HasImm(format) \/ ImmShift(f) => w \cap 25 .. 31 = Placed(FunctSeven(f), 25)
  BY Pieces, Zenon
<1>2. /\ s.opcode \in IntegerOpcodes /\ f \in FunctionsOf(s.opcode)
      /\ HasRd(format) => s.rd \in 0 .. 127
      /\ HasRs1(format) => s.rs1 \in 0 .. 127
      /\ HasRs2(format) => s.rs2 \in 0 .. 127
  BY DEF WellFormed
<1>3. /\ format \notin {"U", "J"} => FunctThree(f) \in 0 .. 127
      /\ ~HasImm(format) \/ ImmShift(f) => FunctSeven(f) \in 0 .. 127
      /\ Major(s.opcode) \in 0 .. 127
  BY <1>2, FunctCodes, MajorIsSevenBits
<1>. HIDE DEF w, format, f
<1>. DEFINE Recovers(low, high) ==
              \A n \in 0 .. 127 : w \cap low .. high = Placed(n, low) => Field(w, low .. high, low) = n
<1>4. /\ Recovers(0, 6) /\ Recovers(7, 11) /\ Recovers(12, 14) /\ Recovers(15, 19)
      /\ Recovers(20, 24) /\ Recovers(25, 31)
  <2>1. \A low \in Bits : \A high \in low .. 31 : high - low <= 6 => Recovers(low, high)
    BY <1>1, PlacedIsField
  <2>2. /\ 0 \in Bits /\ 6 \in 0 .. 31 /\ 6 - 0 <= 6
        /\ 7 \in Bits /\ 11 \in 7 .. 31 /\ 11 - 7 <= 6
        /\ 12 \in Bits /\ 14 \in 12 .. 31 /\ 14 - 12 <= 6
        /\ 15 \in Bits /\ 19 \in 15 .. 31 /\ 19 - 15 <= 6
        /\ 20 \in Bits /\ 24 \in 20 .. 31 /\ 24 - 20 <= 6
        /\ 25 \in Bits /\ 31 \in 25 .. 31 /\ 31 - 25 <= 6
    BY DEF Bits
  <2>. HIDE DEF Recovers
  <2>. QED
    BY <2>1, <2>2, Zenon
<1>5. /\ Field(w, 0 .. 6, 0) = Major(s.opcode)
      /\ HasRd(format) => Field(w, 7 .. 11, 7) = s.rd
      /\ format \notin {"U", "J"} => Field(w, 12 .. 14, 12) = FunctThree(f)
      /\ HasRs1(format) => Field(w, 15 .. 19, 15) = s.rs1
      /\ HasRs2(format) => Field(w, 20 .. 24, 20) = s.rs2
      /\ ~HasImm(format) \/ ImmShift(f) => Field(w, 25 .. 31, 25) = FunctSeven(f)
  BY <1>1, <1>2, <1>3, <1>4, Zenon
<1>. QED
  BY <1>5, Zenon DEF w, format, f, Rd, Funct3, Rs1, Rs2, Funct7,
     OPCODE_MASK, RD_MASK, FUNCT3_MASK, RS1_MASK, RS2_MASK, FUNCT7_MASK

(* The immediate of an assembled word is the instruction's: sign extension *)
(* restores the bits that the word has no place for.                       *)
LEMMA AssembledImm ==
  ASSUME NEW s, Assemblable(s), HasImm(FormatOf(s.opcode))
  PROVE  Imm(Assembled(s), FormatOf(s.opcode), s.opcode) = s.imm
<1>. DEFINE w == Assembled(s)
            format == FormatOf(s.opcode)
            sign == SignBit(format)
            low == LowBit(format)
            f == s.function
<1>1. WellFormed(s)
  BY AssemblableIsWellFormed
<1>2. /\ w \in SUBSET Bits
      /\ ImmShift(f) => w \cap 20 .. 24 = Scattered(s.imm, "I")
      /\ ~ImmShift(f) => w \cap ImmBits(format) = Scattered(s.imm, format)
  BY <1>1, Pieces, Zenon
<1>3. /\ s.opcode \in IntegerOpcodes /\ f \in FunctionsOf(s.opcode)
      /\ s.imm \in SUBSET Bits
      /\ ImmShift(f) => s.imm \in SUBSET (0 .. 4)
  BY <1>1, Zenon DEF WellFormed
<1>4. format \notin {"U", "J"} => Funct3(w) = FunctThree(f)
  BY <1>1, AssembledFields, Zenon
<1>5. ImmShift(f) <=> (s.opcode = "OpImm" /\ Funct3(w) \in {1, 5})
  <2>1. ImmShift(f) => s.opcode = "OpImm"
    BY <1>3, FunctCodes
  <2>2. CASE s.opcode = "OpImm"
    <3>1. Funct3(w) = FunctThree(f)
      BY <1>4, <2>2, Formats
    <3>. HIDE DEF w, f
    <3>. QED
      BY <1>3, <2>2, <3>1, FunctionSets, FunctThreeCodes DEF ImmShift
  <2>. QED
    BY <2>1, <2>2
<1>6. CASE ImmShift(f)
  <2>1. s.opcode = "OpImm" /\ Funct3(w) \in {1, 5} /\ format = "I"
    BY <1>5, <1>6, Formats
  <2>2. Scattered(s.imm, "I") = w \cap 20 .. 24 /\ s.imm \in SUBSET (0 .. 4)
    BY <1>2, <1>3, <1>6
  <2>3. s.imm = Imm(w, "I", "OpImm")
    <3>. HIDE DEF w
    <3>. QED
      BY <1>2, <2>1, <2>2, ShiftAmount
  <2>. QED
    BY <2>1, <2>3
<1>7. CASE ~ImmShift(f)
  <2>. DEFINE imm == Imm(w, format, s.opcode)
              raw == RawImm(w, format, s.opcode)
  <2>1. HasFullImm(w, s.opcode)
    BY <1>3, <1>5, <1>7, OpcodeSets DEF HasFullImm
  <2>2. s.imm \cap low .. sign = raw
    BY <1>2, <1>3, <1>7, <2>1, ImmRoundTrip
  <2>3. /\ imm = raw \cup IF sign \in raw THEN sign + 1 .. 31 ELSE {}
        /\ raw \subseteq low .. sign
    BY <1>2, <2>1, ImmValue, RawMember
  <2>4. s.imm \subseteq low .. 31 /\ s.imm \cap sign .. 31 \in {{}, sign .. 31}
    BY DEF Assemblable
  <2>5. low \in 0 .. 12 /\ sign \in 11 .. 31 /\ low <= sign
    <3>1. format \in {"I", "S", "B", "U", "J"}
      BY <1>3, ImmFormats, OpcodeSets
    <3>. HIDE DEF format
    <3>. QED
      BY <3>1 DEF LowBit, SignBit
  <2>. HIDE DEF imm, raw, low, sign, format
  <2>6. CASE s.imm \cap sign .. 31 = {}
    <3>1. s.imm \subseteq low .. sign /\ sign \notin s.imm
      BY <2>4, <2>5, <2>6
    <3>2. s.imm \cap low .. sign = s.imm
      BY <3>1, Zenon
    <3>3. imm = s.imm
      BY <2>2, <2>3, <3>1, <3>2
    <3>. QED
      BY <3>3 DEF imm, format
  <2>7. CASE s.imm \cap sign .. 31 = sign .. 31
    <3>1. sign \in s.imm /\ sign \in low .. sign /\ sign + 1 .. 31 \subseteq s.imm
      BY <2>5, <2>7
    <3>2. sign \in raw
      BY <2>2, <3>1
    <3>3. imm = raw \cup sign + 1 .. 31
      BY <2>3, <3>2
    <3>4. imm \subseteq s.imm
      BY <2>2, <3>1, <3>3
    <3>5. \A b \in s.imm : b \in low .. sign \/ b \in sign + 1 .. 31
      BY <2>4, <2>5
    <3>6. s.imm \subseteq imm
      BY <2>2, <3>3, <3>5
    <3>7. imm = s.imm
      BY <3>4, <3>6
    <3>. QED
      BY <3>7 DEF imm, format
  <2>. QED
    BY <2>4, <2>6, <2>7
<1>. QED
  BY <1>6, <1>7

LEMMA AssembledIsDecoded ==
  ASSUME NEW s, Assemblable(s)
  PROVE  NewInstruction(Assembled(s)) = s
<1>. DEFINE w == Assembled(s)
            format == FormatOf(s.opcode)
<1>1. /\ WellFormed(s)
      /\ HasImm(format) <=> s.imm # NULL
      /\ s = [opcode |-> s.opcode, function |-> s.function, rd |-> s.rd,
              rs1 |-> s.rs1, rs2 |-> s.rs2, imm |-> s.imm]
  BY AssemblableIsWellFormed, Zenon
<1>2. /\ Field(w, OPCODE_MASK, 0) = Major(s.opcode)
      /\ HasRd(format) => Rd(w) = s.rd
      /\ format \notin {"U", "J"} => Funct3(w) = FunctThree(s.function)
      /\ HasRs1(format) => Rs1(w) = s.rs1
      /\ HasRs2(format) => Rs2(w) = s.rs2
      /\ ~HasImm(format) \/ ImmShift(s.function) => Funct7(w) = FunctSeven(s.function)
  BY <1>1, AssembledFields, Zenon
<1>3. w \in SUBSET Bits
  BY <1>1, Pieces, Zenon
<1>4. HasImm(format) => Imm(w, format, s.opcode) = s.imm
  BY AssembledImm, Zenon
<1>5. /\ s.opcode \in IntegerOpcodes /\ s.function \in FunctionsOf(s.opcode)
      /\ ~HasRd(format) => s.rd = NULL
      /\ ~HasRs1(format) => s.rs1 = NULL
      /\ ~HasRs2(format) => s.rs2 = NULL
      /\ ~HasImm(format) => s.imm = NULL
  BY <1>1, Zenon DEF WellFormed
<1>6. s.opcode = "System" => (s.function = "Ebreak" <=> s.imm = {0})
  <2>1. /\ s.function = "Ecall" => s.imm = {}
        /\ s.function = "Ebreak" => s.imm = {0}
    BY Zenon DEF Assemblable
  <2>2. s.opcode = "System" => s.function \in {"Ecall", "Ebreak"}
    BY <1>5, FunctionSets
  <2>. QED
    BY <2>1, <2>2
<1>. HIDE DEF w
<1>7. OpcodeOf(w) = s.opcode
  BY <1>2, <1>3, <1>5, CodeHasOpcode
<1>8. FunctionOf(w, s.opcode, s.imm) = s.function
  BY <1>2, <1>3, <1>5, <1>6, CodesHaveFunction
<1>9. w \notin Unnecessary
  <2>1. ASSUME w \in Unnecessary PROVE FALSE
    <3>1. Major(s.opcode) = 115 /\ Funct3(w) # 0
      BY <1>2, <2>1, UnnecessaryWords
    <3>2. s.opcode = "System"
      BY <1>5, <3>1, MajorCodes, OpcodeSets
    <3>3. Funct3(w) = 0
      BY <1>2, <1>5, <3>2, Formats, FunctionSets, FunctThreeCodes
    <3>. QED
      BY <3>1, <3>3
  <2>. QED
    BY <2>1
<1>10. Fields(w, format, s.opcode) = [rd |-> s.rd, rs1 |-> s.rs1, rs2 |-> s.rs2, imm |-> s.imm]
  BY <1>2, <1>4, <1>5, Zenon DEF Fields
<1>11. s.opcode # Undecodable /\ s.function # Undecodable
  BY <1>5, NoneAssumption DEF Undecodable, IntegerOpcodes, Function
<1>12. NewInstruction(w) = [opcode |-> s.opcode, function |-> s.function, rd |-> s.rd,
                            rs1 |-> s.rs1, rs2 |-> s.rs2, imm |-> s.imm]
  <2>. DEFINE fields == [rd |-> s.rd, rs1 |-> s.rs1, rs2 |-> s.rs2, imm |-> s.imm]
  <2>1. /\ fields.rd = s.rd /\ fields.rs1 = s.rs1 /\ fields.rs2 = s.rs2 /\ fields.imm = s.imm
    OBVIOUS
  <2>2. Fields(w, format, s.opcode) = fields
    BY <1>10
  <2>. HIDE DEF fields
  <2>. QED
    BY <1>7, <1>8, <1>9, <1>11, <2>1, <2>2, Zenon DEF NewInstruction
<1>. QED
  BY <1>1, <1>12, Zenon DEF w

-----------------------------------------------------------------------------
(* The theorems                                                            *)

(* The word is one an assembler wrote, or one of those given, and what is  *)
(* decoded is that word.                                                   *)
DecodingInv ==
  /\ word \in SUBSET Bits
  /\ source # NULL => source \in Sources /\ word = Assembled(source)
  /\ inst \in {Undecoded, NewInstruction(word)}

LEMMA DecodingInvHolds == Spec => []DecodingInv
<1>1. Init => DecodingInv
  <2>1. ASSUME NEW s \in Sources PROVE Assembled(s) \in SUBSET Bits
    <3>1. Assemblable(s)
      BY InstructionAssumption
    <3>. QED
      BY <3>1, AssemblableIsWellFormed, Pieces, Zenon
  <2>. QED
    BY <2>1, InstructionAssumption DEF Init, DecodingInv
<1>2. DecodingInv /\ [Decode]_vars => DecodingInv'
  <2>. SUFFICES ASSUME DecodingInv, [Decode]_vars PROVE DecodingInv'
    OBVIOUS
  <2>1. CASE Decode
    BY <2>1, Zenon DEF DecodingInv, Decode
  <2>2. CASE UNCHANGED vars
    BY <2>2, Zenon DEF DecodingInv, vars
  <2>. QED
    BY <2>1, <2>2
<1>. QED
  BY <1>1, <1>2, PTL DEF Spec

(* Whatever instruction an assembler writes, Instruction::new gives it     *)
(* back: every opcode, function, register and immediate there is.          *)
THEOREM AssembledIsExecuted == Spec => []DecodesWhatWasAssembled
<1>1. DecodingInv => DecodesWhatWasAssembled
  <2>. SUFFICES ASSUME DecodingInv, source # NULL, inst # Undecoded PROVE inst = source
    BY DEF DecodesWhatWasAssembled
  <2>1. source \in Sources /\ word = Assembled(source) /\ inst = NewInstruction(word)
    BY DEF DecodingInv
  <2>2. Assemblable(source)
    BY <2>1, InstructionAssumption
  <2>. QED
    BY <2>1, <2>2, AssembledIsDecoded, Zenon
<1>. QED
  BY <1>1, DecodingInvHolds, PTL

(* Of all 2^32 words, none decodes to an integer instruction that the      *)
(* manual encodes otherwise, but for the bits Function::new ignores and    *)
(* the two words it replaces.                                              *)
THEOREM NothingElseIsExecuted == Spec => []DecodesNothingElse
<1>1. DecodingInv => DecodesNothingElse
  <2>. SUFFICES ASSUME DecodingInv, inst # Undecoded, inst # Undecodable,
                       inst.opcode \notin FpOpcodes, word \notin Unnecessary
       PROVE word \ Ignored(inst) = Assembled(inst) \ Ignored(inst)
    BY Zenon DEF DecodesNothingElse
  <2>1. word \in (SUBSET Bits) \ Unnecessary /\ inst = NewInstruction(word)
    BY DEF DecodingInv
  <2>2. NewInstruction(word) # Undecodable
    BY <2>1, Zenon
  <2>3. inst.opcode \in Opcode
    BY <2>1, <2>2, DecodedInstruction
  <2>4. NewInstruction(word).opcode \in IntegerOpcodes
    BY <2>1, <2>3 DEF IntegerOpcodes
  <2>. QED
    BY <2>1, <2>2, <2>4, DecodedIsAssembled, Zenon
<1>. QED
  BY <1>1, DecodingInvHolds, PTL

(* Of all 2^32 words, every one that decodes at all decodes to an          *)
(* instruction with a function of its opcode and the fields of its format, *)
(* in their range: one of those the pipeline is specified for.             *)
THEOREM WhatIsDecodedIsAnInstruction == Spec => []DecodesToInstructions
<1>1. DecodingInv => DecodesToInstructions
  <2>. SUFFICES ASSUME DecodingInv, inst \notin {Undecoded, Undecodable}
       PROVE  /\ inst.opcode \in Opcode /\ Decoded(inst)
              /\ {inst.rd, inst.rs1, inst.rs2} \subseteq 0 .. 31 \cup {NULL}
              /\ inst.imm \in (SUBSET Bits) \cup {NULL}
    BY Zenon DEF DecodesToInstructions
  <2>. DEFINE format == FormatOf(inst.opcode)
  <2>1. word \in SUBSET Bits /\ inst = NewInstruction(word) /\ NewInstruction(word) # Undecodable
    BY DEF DecodingInv
  <2>2. /\ inst.opcode \in Opcode /\ inst.function \in FunctionsOf(inst.opcode)
        /\ IF HasRd(format) THEN inst.rd \in 0 .. 31 ELSE inst.rd = NULL
        /\ IF HasRs1(format) THEN inst.rs1 \in 0 .. 31 ELSE inst.rs1 = NULL
        /\ IF HasRs2(format) THEN inst.rs2 \in 0 .. 31 ELSE inst.rs2 = NULL
        /\ IF HasImm(format) THEN inst.imm \in SUBSET Bits /\ inst.imm # NULL ELSE inst.imm = NULL
    BY <2>1, DecodedInstruction, Zenon
  <2>3. /\ HasRd(format) <=> inst.rd # NULL
        /\ HasRs1(format) <=> inst.rs1 # NULL
        /\ HasRs2(format) <=> inst.rs2 # NULL
        /\ HasImm(format) <=> inst.imm # NULL
    <3>1. \A n \in 0 .. 31 : n # NULL
      BY NoneAssumption
    <3>. QED
      BY <2>2, <3>1
  <2>4. Decoded(inst)
    BY <2>2, <2>3, Zenon DEF Decoded
  <2>5. /\ {inst.rd, inst.rs1, inst.rs2} \subseteq 0 .. 31 \cup {NULL}
        /\ inst.imm \in (SUBSET Bits) \cup {NULL}
    BY <2>2
  <2>. QED
    BY <2>2, <2>4, <2>5, Zenon
<1>. QED
  BY <1>1, DecodingInvHolds, PTL
=============================================================================
