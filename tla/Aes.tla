---------------------------------- MODULE Aes ----------------------------------
(***************************************************************************)
(* The AES-128 functions of aes.c on one block, as operators: a block is a *)
(* function from 0..15 to bytes, byte 4*i + j being state[i][j], and    *)
(* the round keys are 44 words of four bytes.                              *)
(***************************************************************************)
EXTENDS Naturals, Sequences

Nb == 4                         \* columns of a state
Nk == 4                         \* words of a key
Nr == 10                        \* rounds

Byte  == 0..255
Block == [0..15 -> Byte]
Word  == [0..3 -> Byte]

-----------------------------------------------------------------------------
(* Bytes.                                                                  *)

\* 2^n, of which the provers know nothing
PowerOf2 == <<1, 2, 4, 8, 16, 32, 64, 128>>
Bit(x, n) == (x \div PowerOf2[n + 1]) % 2

\* tables are sequences, which TLC computes once: entry x is at x + 1
XorNibble == <<>> \o [n \in 1..256 |->
  LET Sum(i) == PowerOf2[i + 1] * ((Bit(n - 1, i) + Bit(n - 1, i + 4)) % 2)
  IN  Sum(0) + Sum(1) + Sum(2) + Sum(3)]

Xor(a, b) == 16 * XorNibble[16 * (a \div 16) + (b \div 16) + 1]
             + XorNibble[16 * (a % 16) + (b % 16) + 1]

XorBlocks(a, b) == [n \in 0..15 |-> Xor(a[n], b[n])]

xtime == <<>> \o [n \in 1..256 |-> Xor((2 * (n - 1)) % 256, 27 * Bit(n - 1, 7))]

\* x times the polynomial y, of five bits
Multiply(x, y) ==
  LET x1 == xtime[x + 1]
      x2 == xtime[x1 + 1]
      x3 == xtime[x2 + 1]
  IN Xor(Xor(Xor(Bit(y, 0) * x, Bit(y, 1) * x1),
             Xor(Bit(y, 2) * x2, Bit(y, 3) * x3)), Bit(y, 4) * xtime[x3 + 1])

sbox == <<
   99, 124, 119, 123, 242, 107, 111, 197,  48,   1, 103,  43, 254, 215, 171, 118,
  202, 130, 201, 125, 250,  89,  71, 240, 173, 212, 162, 175, 156, 164, 114, 192,
  183, 253, 147,  38,  54,  63, 247, 204,  52, 165, 229, 241, 113, 216,  49,  21,
    4, 199,  35, 195,  24, 150,   5, 154,   7,  18, 128, 226, 235,  39, 178, 117,
    9, 131,  44,  26,  27, 110,  90, 160,  82,  59, 214, 179,  41, 227,  47, 132,
   83, 209,   0, 237,  32, 252, 177,  91, 106, 203, 190,  57,  74,  76,  88, 207,
  208, 239, 170, 251,  67,  77,  51, 133,  69, 249,   2, 127,  80,  60, 159, 168,
   81, 163,  64, 143, 146, 157,  56, 245, 188, 182, 218,  33,  16, 255, 243, 210,
  205,  12,  19, 236,  95, 151,  68,  23, 196, 167, 126,  61, 100,  93,  25, 115,
   96, 129,  79, 220,  34,  42, 144, 136,  70, 238, 184,  20, 222,  94,  11, 219,
  224,  50,  58,  10,  73,   6,  36,  92, 194, 211, 172,  98, 145, 149, 228, 121,
  231, 200,  55, 109, 141, 213,  78, 169, 108,  86, 244, 234, 101, 122, 174,   8,
  186, 120,  37,  46,  28, 166, 180, 198, 232, 221, 116,  31,  75, 189, 139, 138,
  112,  62, 181, 102,  72,   3, 246,  14,  97,  53,  87, 185, 134, 193,  29, 158,
  225, 248, 152,  17, 105, 217, 142, 148, 155,  30, 135, 233, 206,  85,  40, 223,
  140, 161, 137,  13, 191, 230,  66, 104,  65, 153,  45,  15, 176,  84, 187,  22 >>

rsbox == <<
   82,   9, 106, 213,  48,  54, 165,  56, 191,  64, 163, 158, 129, 243, 215, 251,
  124, 227,  57, 130, 155,  47, 255, 135,  52, 142,  67,  68, 196, 222, 233, 203,
   84, 123, 148,  50, 166, 194,  35,  61, 238,  76, 149,  11,  66, 250, 195,  78,
    8,  46, 161, 102,  40, 217,  36, 178, 118,  91, 162,  73, 109, 139, 209,  37,
  114, 248, 246, 100, 134, 104, 152,  22, 212, 164,  92, 204,  93, 101, 182, 146,
  108, 112,  72,  80, 253, 237, 185, 218,  94,  21,  70,  87, 167, 141, 157, 132,
  144, 216, 171,   0, 140, 188, 211,  10, 247, 228,  88,   5, 184, 179,  69,   6,
  208,  44,  30, 143, 202,  63,  15,   2, 193, 175, 189,   3,   1,  19, 138, 107,
   58, 145,  17,  65,  79, 103, 220, 234, 151, 242, 207, 206, 240, 180, 230, 115,
  150, 172, 116,  34, 231, 173,  53, 133, 226, 249,  55, 232,  28, 117, 223, 110,
   71, 241,  26, 113,  29,  41, 197, 137, 111, 183,  98,  14, 170,  24, 190,  27,
  252,  86,  62,  75, 198, 210, 121,  32, 154, 219, 192, 254, 120, 205,  90, 244,
   31, 221, 168,  51, 136,   7, 199,  49, 177,  18,  16,  89,  39, 128, 236,  95,
   96,  81, 127, 169,  25, 181,  74,  13,  45, 229, 122, 159, 147, 201, 156, 239,
  160, 224,  59,  77, 174,  42, 245, 176, 200, 235, 187,  60, 131,  83, 153,  97,
   23,  43,   4, 126, 186, 119, 214,  38, 225, 105,  20,  99,  85,  33,  12, 125 >>

Rcon == <<141, 1, 2, 4, 8, 16, 32, 64, 128, 27, 54 >>

getSBoxValue(num)  == sbox[num + 1]

\* mutated: two entries of the inverse table swapped
getSBoxInvertSwapped(num) == rsbox[CASE num = 254 -> 256 [] num = 255 -> 255
                                     [] OTHER -> num + 1]

getSBoxInvert(num) == rsbox[num + 1]

-----------------------------------------------------------------------------
(* The key schedule, one word at a time.                                   *)

KeyCopied(key) == [n \in 0..Nk - 1 |-> [j \in 0..3 |-> key[4 * n + j]]]

\* word n of the round keys from the words before it
KeyWord(RoundKey, n) ==
  LET prev == RoundKey[n - 1]
      rotated == [j \in 0..3 |-> getSBoxValue(prev[(j + 1) % 4])]
      temp == IF n % Nk = 0
              THEN [rotated EXCEPT ![0] = Xor(@, Rcon[n \div Nk + 1])]
              ELSE prev
  IN [j \in 0..3 |-> Xor(RoundKey[n - Nk][j], temp[j])]

AddRoundKey(round, state, RoundKey) ==
  [n \in 0..15 |-> Xor(state[n], RoundKey[round * Nb + n \div 4][n % 4])]

-----------------------------------------------------------------------------
(* A round, and a round of the inverse.                                    *)

SubBytes(state)    == [n \in 0..15 |-> getSBoxValue(state[n])]
InvSubBytes(state) == [n \in 0..15 |-> getSBoxInvert(state[n])]

\* mutated: the way back moves to the left, too
InvShiftRowsLeft(state) == [n \in 0..15 |-> state[(n + 4 * (n % 4)) % 16]]

\* row j moves j columns to the left, and back
ShiftRows(state)    == [n \in 0..15 |-> state[(n + 4 * (n % 4)) % 16]]
InvShiftRows(state) == [n \in 0..15 |-> state[(n + 12 * (n % 4)) % 16]]

MixColumns(state) ==
  [n \in 0..15 |->
     LET S(j) == state[4 * (n \div 4) + ((n + j) % 4)]
         Tmp == Xor(Xor(S(0), S(1)), Xor(S(2), S(3)))
     IN Xor(S(0), Xor(xtime[Xor(S(0), S(1)) + 1], Tmp))]

InvMixColumns(state) ==
  [n \in 0..15 |->
     LET S(j) == state[4 * (n \div 4) + ((n + j) % 4)]
     IN Xor(Xor(Multiply(S(0), 14), Multiply(S(1), 11)),
            Xor(Multiply(S(2), 13), Multiply(S(3), 9)))]

\* one iteration of Cipher, the last without MixColumns
CipherRound(round, state, RoundKey) ==
  LET shifted == ShiftRows(SubBytes(state))
  IN AddRoundKey(round, IF round = Nr THEN shifted ELSE MixColumns(shifted),
                 RoundKey)

\* one iteration of InvCipher, the last without InvMixColumns
InvCipherRound(round, state, RoundKey) ==
  LET added == AddRoundKey(round, InvSubBytes(InvShiftRows(state)), RoundKey)
  IN IF round = 0 THEN added ELSE InvMixColumns(added)

-----------------------------------------------------------------------------
(* The counter of CTR mode: the loop that increments Iv from its last byte *)
(* stops at the first byte that does not overflow.                         *)

\* mutated: the bytes that overflow stay at 255
IncrementKept(Iv) ==
  LET stops == {n \in 0..15 : Iv[n] # 255 /\ \A m \in n + 1..15 : Iv[m] = 255}
  IN [n \in 0..15 |-> IF n \in stops THEN Iv[n] + 1 ELSE Iv[n]]

Increment(Iv) ==
  LET stops == {n \in 0..15 : Iv[n] # 255 /\ \A m \in n + 1..15 : Iv[m] = 255}
  IN [n \in 0..15 |-> CASE n \in stops -> Iv[n] + 1
                        [] \E s \in stops : n < s -> Iv[n]
                        [] OTHER -> 0]

-----------------------------------------------------------------------------
(* Reference definitions, from the field GF(2^8) modulo x^8+x^4+x^3+x+1    *)
(* and not from the tables: the product, and the affine map backwards.     *)

Double(x) == IF x < 128 THEN 2 * x ELSE Xor(2 * x - 256, 27)

Product[x, y \in Byte] ==
  IF y = 0 THEN 0
  ELSE LET half == Double(Product[x, y \div 2])
       IN IF y % 2 = 0 THEN half ELSE Xor(half, x)

Unaffine(x) ==
  LET B(n) == PowerOf2[n + 1] * ((Bit(x, (n + 2) % 8) + Bit(x, (n + 5) % 8)
                                  + Bit(x, (n + 7) % 8) + Bit(5, n)) % 2)
  IN B(0) + B(1) + B(2) + B(3) + B(4) + B(5) + B(6) + B(7)

\* Each table is what its comment says: the substitution box is the affine
\* image of the inverse, the inverse box undoes it, the round constants are
\* powers of two, and Multiply multiplies by the four factors it is used with.
TablesHold ==
  /\ Unaffine(getSBoxValue(0)) = 0
  /\ \A x \in 1..255 : Product[x, Unaffine(getSBoxValue(x))] = 1
  /\ \A x \in Byte : getSBoxInvert(getSBoxValue(x)) = x
  /\ Rcon[2] = 1 /\ \A n \in 2..Nr : Rcon[n + 1] = Double(Rcon[n])
  /\ \A x \in Byte, y \in {9, 11, 13, 14} : Multiply(x, y) = Product[x, y]
=============================================================================
