----------------------------- MODULE AesApp_proofs -----------------------------
(***************************************************************************)
(* The programs that use the AES and the C library, for any programs whose *)
(* calls stay inside their buffers, any keys and texts, any heap that does *)
(* not leave room for an address to wrap back into it, and any number of   *)
(* rollbacks and exceptions: buffers stay apart, types are kept, output    *)
(* reaches _write, and the counter of CTR counts.                          *)
(*                                                                         *)
(* The order: the heap; bytes and blocks under the operators of Aes; the   *)
(* control of a call (ControlInv), its data (DataInv) and the C library's  *)
(* (LibcTyped); what is left to print (ToldInv); the theorems.             *)
(***************************************************************************)
EXTENDS AesApp, TLAPS

\* The heap as _sbrk keeps it: BlocksApart with the types it needs.
HeapInv ==
  /\ heapEnd \in HeapEnds
  /\ brk \in HeapStart..heapEnd
  /\ blocks \in Seq(Int)
  /\ BlocksApart

\* The arithmetic of an address that has gone past the end at most once.
LEMMA Wraps ==
  ASSUME NEW m \in Nat, m > 0, NEW a \in Nat, a < 2 * m
  PROVE  a % m = IF a < m THEN a ELSE a - m
<1>1. CASE a < m
  BY <1>1
<1>2. CASE ~(a < m)
  BY <1>2
<1>3. QED BY <1>1, <1>2

\* What the link leaves: a heap within the addresses, and more room outside
\* it than one request takes.
LEMMA Linked ==
  ASSUME HeapInv
  PROVE  /\ 2^AddrBits \in Nat /\ HeapStart \in Nat /\ BufSize \in Nat
         /\ 0 < BufSize /\ BufSize < 2^AddrBits
         /\ heapEnd \in Nat /\ HeapStart <= heapEnd /\ heapEnd < 2^AddrBits
         /\ BufSize + heapEnd - HeapStart <= 2^AddrBits
         /\ brk \in Nat /\ HeapStart <= brk /\ brk <= heapEnd
BY LibcAssumption DEF HeapInv

\* _sbrk moves the break by what was asked for, and never around the end of
\* the addresses.
LEMMA MovesUp ==
  ASSUME HeapInv, Fits(BufSize)
  PROVE  /\ Moved(BufSize) = brk + BufSize
         /\ brk + BufSize < heapEnd
<1> DEFINE m == 2^AddrBits
           b == brk + BufSize
<1>1. /\ m \in Nat /\ m > 0 /\ b \in Nat /\ b < 2 * m
      /\ heapEnd \in Nat /\ HeapStart \in Nat
      /\ BufSize + heapEnd - HeapStart <= m
  BY Linked
<1>2. b % m = IF b < m THEN b ELSE b - m
  <2> HIDE DEF m, b
  <2>1. QED BY <1>1, Wraps
<1>3. Moved(BufSize) = IF b < m THEN b ELSE b - m
  BY <1>2 DEF Moved
<1>4. /\ Moved(BufSize) \in HeapStart..heapEnd - 1
      /\ HeapStart # heapEnd
  BY DEF Fits
<1>5. brk < heapEnd /\ brk \in Nat /\ BufSize \in Nat
  BY <1>4, Linked DEF HeapInv, BlocksApart
<1>6. b - m < HeapStart
  BY <1>1, <1>5
<1>7. b < m
  <2> SUFFICES ASSUME ~(b < m) PROVE FALSE
    OBVIOUS
  <2> HIDE DEF m, b
  <2>1. Moved(BufSize) = b - m
    BY <1>3
  <2>2. QED BY <2>1, <1>1, <1>4, <1>6
<1>8. Moved(BufSize) = b
  <2> HIDE DEF m, b
  <2>1. QED BY <1>3, <1>7
<1>9. QED BY <1>4, <1>8, <1>1

\* A request for a buffer keeps the heap in order.
LEMMA AskKeeps ==
  ASSUME HeapInv, AskBuffer
  PROVE  HeapInv'
<1>1. CASE HeapStart = heapEnd
  <2>1. ~Fits(BufSize)
    BY <1>1 DEF Fits
  <2>2. heapEnd' = heapEnd /\ brk' = brk
    BY <2>1 DEF AskBuffer, SbrkBrk
  <2>3. SbrkReturns(BufSize) \in Int
    BY <1>1 DEF SbrkReturns, Null
  <2>4. blocks' \in Seq(Int)
    BY <2>3 DEF AskBuffer, HeapInv
  <2>5. QED BY <1>1, <2>2, <2>4 DEF HeapInv, BlocksApart
<1>2. CASE HeapStart # heapEnd /\ ~Fits(BufSize)
  <2>1. SbrkReturns(BufSize) = Failed
    BY <1>2 DEF SbrkReturns
  <2>2. heapEnd' = heapEnd /\ brk' = brk /\ blocks' = blocks
    BY <1>2, <2>1 DEF AskBuffer, SbrkBrk
  <2>3. QED BY <2>2 DEF HeapInv, BlocksApart
<1>3. CASE HeapStart # heapEnd /\ Fits(BufSize)
  <2>1. SbrkReturns(BufSize) = brk /\ brk # Failed
    BY <1>3, Linked, MovesUp DEF SbrkReturns, Failed
  <2>2. heapEnd' = heapEnd /\ brk' = brk + BufSize /\ blocks' = Append(blocks, brk)
    BY <1>3, <2>1, MovesUp DEF AskBuffer, SbrkBrk
  <2>3. blocks' \in Seq(Int) /\ DOMAIN blocks = 1..Len(blocks)
        /\ Len(blocks) \in Nat /\ DOMAIN blocks' = 1..Len(blocks) + 1
    BY <2>2, Linked DEF HeapInv
  <2>4. /\ \A i \in DOMAIN blocks : blocks'[i] = blocks[i] /\ blocks[i] \in Int
        /\ blocks'[Len(blocks) + 1] = brk
    BY <2>2, Linked DEF HeapInv
  <2>5. /\ \A i \in DOMAIN blocks : /\ HeapStart <= blocks[i]
                                    /\ blocks[i] + BufSize <= brk
        /\ \A i, j \in DOMAIN blocks : i < j => blocks[i] + BufSize <= blocks[j]
    BY <1>3 DEF HeapInv, BlocksApart
  <2>6. \A i \in DOMAIN blocks' : /\ HeapStart <= blocks'[i]
                                  /\ blocks'[i] + BufSize <= brk'
    <3> TAKE i \in DOMAIN blocks'
    <3>1. CASE i \in DOMAIN blocks
      BY <3>1, <2>2, <2>4, <2>5, Linked
    <3>2. CASE i = Len(blocks) + 1
      BY <3>2, <2>2, <2>4, Linked
    <3>3. QED BY <3>1, <3>2, <2>3
  <2>7. \A i, j \in DOMAIN blocks' : i < j => blocks'[i] + BufSize <= blocks'[j]
    <3> TAKE i, j \in DOMAIN blocks'
    <3> HAVE i < j
    <3>1. i \in DOMAIN blocks
      BY <2>3
    <3>2. CASE j \in DOMAIN blocks
      BY <3>1, <3>2, <2>4, <2>5
    <3>3. CASE j = Len(blocks) + 1
      BY <3>1, <3>3, <2>4, <2>5
    <3>4. QED BY <3>2, <3>3, <2>3
  <2>8. brk' \in HeapStart..heapEnd' /\ brk' < heapEnd'
    BY <1>3, <2>2, MovesUp, Linked
  <2>9. QED BY <2>2, <2>3, <2>6, <2>7, <2>8 DEF HeapInv, BlocksApart
<1>4. QED BY <1>1, <1>2, <1>3

\* Nothing but a request for a buffer touches the heap: not a rollback, not
\* an exception, not the other steps of printf.
LEMMA OnlyAsked ==
  ASSUME [Next]_vars
  PROVE  AskBuffer \/ UNCHANGED <<heapEnd, brk, blocks>>
<1>1. CASE Run
  <2>1. CASE PrintSetup
    BY <2>1 DEF PrintSetup
  <2>2. CASE PrintRecord
    BY <2>2 DEF PrintRecord, SetBuffer
  <2>3. CASE PrintPut
    BY <2>3 DEF PrintPut, Put, libc
  <2>4. CASE SystemStub
    BY <2>4 DEF SystemStub, Stub
  <2>5. CASE KeyCopy \/ KeyExpansion \/ SetIv \/ Memcmp \/ StoreCheckpoint \/ Abort
    BY <2>5 DEF KeyCopy, KeyExpansion, SetIv, Memcmp, StoreCheckpoint, Abort, libc
  <2>6. CASE Whiten \/ CipherStep \/ EcbOut \/ CbcOut \/ CtrOut
    BY <2>6 DEF Whiten, CipherStep, EcbOut, CbcOut, CtrOut, libc
  <2>7. CASE InvWhiten \/ InvCipherStep \/ InvCbcOut
    BY <2>7 DEF InvWhiten, InvCipherStep, InvCbcOut, libc
  <2>8. QED BY <1>1, <2>1, <2>2, <2>3, <2>4, <2>5, <2>6, <2>7 DEF Run
<1>2. CASE Rollback
  BY <1>2 DEF Rollback, libc
<1>3. CASE \E cause \in Causes : Trap(cause)
  BY <1>3 DEF Trap, WriteStr, libc
<1>4. CASE UNCHANGED vars
  BY <1>4 DEF vars, libc
<1>5. QED BY <1>1, <1>2, <1>3, <1>4 DEF Next, Finished

\* Every buffer that was handed out lies in the heap below the break and no
\* two overlap (_sbrk), however often the caller is rolled back before it has
\* recorded the one it got.
THEOREM HeapInOrder == Spec => []BlocksApart
<1>1. Init => HeapInv
  <2> SUFFICES ASSUME Init PROVE HeapInv
    OBVIOUS
  <2>1. heapEnd \in HeapEnds /\ brk = HeapStart /\ blocks = <<>>
    BY DEF Init, LibcInit
  <2>2. HeapStart \in Nat /\ heapEnd \in Int /\ HeapStart <= heapEnd
    BY <2>1, LibcAssumption
  <2>3. blocks \in Seq(Int) /\ DOMAIN blocks = {}
    BY <2>1
  <2>4. QED BY <2>1, <2>2, <2>3 DEF HeapInv, BlocksApart
<1>2. HeapInv /\ [Next]_vars => HeapInv'
  <2> SUFFICES ASSUME HeapInv, [Next]_vars PROVE HeapInv'
    OBVIOUS
  <2>1. CASE AskBuffer
    BY <2>1, AskKeeps
  <2>2. CASE UNCHANGED <<heapEnd, brk, blocks>>
    BY <2>2 DEF HeapInv, BlocksApart
  <2>3. QED BY <2>1, <2>2, OnlyAsked
<1>3. HeapInv => BlocksApart
  BY DEF HeapInv
<1>4. QED BY <1>1, <1>2, <1>3, PTL DEF Spec

-----------------------------------------------------------------------------
(* The bytes of a computation stay bytes.                                  *)

LEMMA BitIsBit == ASSUME NEW x \in Nat, NEW n \in 0..7 PROVE Bit(x, n) \in 0..1
<1>1. PowerOf2[n + 1] \in Nat /\ PowerOf2[n + 1] > 0
  BY DEF PowerOf2
<1>2. x \div PowerOf2[n + 1] \in Int
  BY <1>1
<1>3. QED BY <1>2 DEF Bit

\* A table holds what the function it is made from gives.
LEMMA TableEntry ==
  ASSUME NEW S, NEW f \in [1..256 -> S]
  PROVE  \A n \in 1..256 : (<<>> \o f)[n] \in S
<1>1. f \in Seq(S) /\ Len(f) = 256
  <2>1. f = [n \in 1..256 |-> f[n]] /\ \A n \in 1..256 : f[n] \in S
    OBVIOUS
  <2>2. QED BY <2>1, SMTT(60)
<1>2. \A n \in 1..256 : (<<>> \o f)[n] = f[n]
  BY <1>1, SMTT(60)
<1>3. QED BY <1>2

\* The table of the sums of two halves of a byte.
LEMMA XorNibbleIsNibble == \A n \in 1..256 : XorNibble[n] \in 0..15
<1> DEFINE Sum(n, i) ==
             PowerOf2[i + 1] * ((Bit(n - 1, i) + Bit(n - 1, i + 4)) % 2)
           f == [n \in 1..256 |-> Sum(n, 0) + Sum(n, 1) + Sum(n, 2) + Sum(n, 3)]
<1>1. ASSUME NEW n \in 1..256, NEW i \in 0..3
      PROVE  (Bit(n - 1, i) + Bit(n - 1, i + 4)) % 2 \in 0..1
  <2>1. Bit(n - 1, i) \in 0..1 /\ Bit(n - 1, i + 4) \in 0..1
    <3>1. n - 1 \in Nat /\ i \in 0..7 /\ i + 4 \in 0..7
      OBVIOUS
    <3>2. QED BY <3>1, BitIsBit
  <2>2. QED BY <2>1
<1>2. \A n \in 1..256 : f[n] \in 0..15
  <2> TAKE n \in 1..256
  <2>1. Sum(n, 0) \in 0..1 /\ Sum(n, 1) \in {0, 2}
        /\ Sum(n, 2) \in {0, 4} /\ Sum(n, 3) \in {0, 8}
    <3>1. PowerOf2[0 + 1] = 1 /\ PowerOf2[1 + 1] = 2 /\ PowerOf2[2 + 1] = 4
          /\ PowerOf2[3 + 1] = 8
      BY DEF PowerOf2
    <3>2. ASSUME NEW i \in 0..3 PROVE Sum(n, i) \in {0, PowerOf2[i + 1]}
      <4>1. PowerOf2[i + 1] \in Nat
        BY <3>1
      <4>2. (Bit(n - 1, i) + Bit(n - 1, i + 4)) % 2 \in {0, 1}
        BY <1>1
      <4>3. QED BY <4>1, <4>2
    <3> HIDE DEF Sum
    <3>3. Sum(n, 0) \in {0, 1} /\ Sum(n, 1) \in {0, 2}
          /\ Sum(n, 2) \in {0, 4} /\ Sum(n, 3) \in {0, 8}
      BY <3>1, <3>2
    <3>4. QED BY <3>3
  <2> HIDE DEF Sum
  <2>2. QED BY <2>1
<1>3. XorNibble = <<>> \o f
  BY DEF XorNibble
<1>4. f \in [1..256 -> 0..15]
  <2> HIDE DEF Sum
  <2>1. f = [n \in 1..256 |-> f[n]]
    OBVIOUS
  <2> HIDE DEF f
  <2>2. QED BY <1>2, <2>1
<1> HIDE DEF f
<1>5. QED BY <1>3, <1>4, TableEntry

LEMMA XorIsByte == ASSUME NEW a \in Byte, NEW b \in Byte PROVE Xor(a, b) \in Byte
<1>1. /\ a \div 16 \in 0..15 /\ b \div 16 \in 0..15
      /\ a % 16 \in 0..15 /\ b % 16 \in 0..15
  BY DEF Byte
<1> DEFINE high == 16 * (a \div 16) + (b \div 16) + 1
           low == 16 * (a % 16) + (b % 16) + 1
<1>2. high \in 1..256 /\ low \in 1..256
  BY <1>1
<1> HIDE DEF high, low
<1>3. XorNibble[high] \in 0..15 /\ XorNibble[low] \in 0..15
  BY <1>2, XorNibbleIsNibble
<1>4. Xor(a, b) = 16 * XorNibble[high] + XorNibble[low]
  BY DEF Xor, high, low
<1>5. QED BY <1>3, <1>4 DEF Byte

LEMMA XtimeIsByte == \A x \in Byte : xtime[x + 1] \in Byte
<1> DEFINE f == [n \in 1..256 |-> Xor((2 * (n - 1)) % 256, 27 * Bit(n - 1, 7))]
<1>1. ASSUME NEW n \in 1..256 PROVE f[n] \in Byte
  <2>1. Bit(n - 1, 7) \in 0..1
    BY BitIsBit
  <2>2. (2 * (n - 1)) % 256 \in Byte /\ 27 * Bit(n - 1, 7) \in Byte
    BY <2>1 DEF Byte
  <2>3. QED BY <2>2, XorIsByte
<1>2. xtime = <<>> \o f
  BY DEF xtime
<1>3. f = [n \in 1..256 |-> f[n]]
  OBVIOUS
<1> HIDE DEF f
<1>4. f \in [1..256 -> Byte]
  BY <1>1, <1>3
<1>5. \A n \in 1..256 : xtime[n] \in Byte
  BY <1>2, <1>4, TableEntry
<1>6. \A x \in Byte : x + 1 \in 1..256
  BY DEF Byte
<1>7. QED BY <1>5, <1>6

LEMMA MultiplyIsByte ==
  ASSUME NEW x \in Byte, NEW y \in 0..31 PROVE Multiply(x, y) \in Byte
<1> DEFINE x1 == xtime[x + 1]
           x2 == xtime[x1 + 1]
           x3 == xtime[x2 + 1]
           x4 == xtime[x3 + 1]
<1>1. x1 \in Byte
  BY XtimeIsByte
<1>2. x2 \in Byte
  <2> HIDE DEF x1
  <2>1. QED BY <1>1, XtimeIsByte
<1>3. x3 \in Byte
  <2> HIDE DEF x2
  <2>1. QED BY <1>2, XtimeIsByte
<1>4. x4 \in Byte
  <2> HIDE DEF x3
  <2>1. QED BY <1>3, XtimeIsByte
<1>5. Multiply(x, y) =
        Xor(Xor(Xor(Bit(y, 0) * x, Bit(y, 1) * x1),
                Xor(Bit(y, 2) * x2, Bit(y, 3) * x3)), Bit(y, 4) * x4)
  BY DEF Multiply
<1> HIDE DEF x1, x2, x3, x4
<1>6. \A n \in 0..7 : Bit(y, n) \in 0..1
  BY BitIsBit
<1>7. /\ Bit(y, 0) * x \in Byte /\ Bit(y, 1) * x1 \in Byte
      /\ Bit(y, 2) * x2 \in Byte /\ Bit(y, 3) * x3 \in Byte
      /\ Bit(y, 4) * x4 \in Byte
  <2>1. ASSUME NEW b \in 0..1, NEW z \in Byte PROVE b * z \in Byte
    <3>1. CASE b = 0 BY <3>1 DEF Byte
    <3>2. CASE b = 1 BY <3>2 DEF Byte
    <3>3. QED BY <3>1, <3>2
  <2>2. /\ Bit(y, 0) \in 0..1 /\ Bit(y, 1) \in 0..1 /\ Bit(y, 2) \in 0..1
        /\ Bit(y, 3) \in 0..1 /\ Bit(y, 4) \in 0..1
    BY <1>6
  <2>3. QED BY <2>1, <2>2, <1>1, <1>2, <1>3, <1>4
<1>8. QED BY <1>5, <1>7, XorIsByte

LEMMA BoxesAreBytes ==
  \A x \in Byte : getSBoxValue(x) \in Byte /\ getSBoxInvert(x) \in Byte
<1>1. \A n \in 1..256 : sbox[n] \in 0..255
  BY DEF sbox
<1>2. \A n \in 1..256 : rsbox[n] \in 0..255
  BY DEF rsbox
<1>3. \A x \in Byte : x + 1 \in 1..256
  BY DEF Byte
<1>4. QED BY <1>1, <1>2, <1>3, Zenon DEF Byte, getSBoxValue, getSBoxInvert

-----------------------------------------------------------------------------
(* Blocks stay blocks, and words of the key schedule words.                *)

RoundKeys == [0..Nb * (Nr + 1) - 1 -> Word]

LEMMA XorBlocksIsBlock ==
  ASSUME NEW a \in Block, NEW b \in Block PROVE XorBlocks(a, b) \in Block
<1>1. \A n \in 0..15 : a[n] \in Byte /\ b[n] \in Byte
  BY DEF Block
<1>2. \A n \in 0..15 : Xor(a[n], b[n]) \in Byte
  BY <1>1, XorIsByte
<1>3. QED BY <1>2 DEF XorBlocks, Block

LEMMA AddRoundKeyIsBlock ==
  ASSUME NEW state \in Block, NEW keys \in RoundKeys, NEW r \in 0..Nr
  PROVE  AddRoundKey(r, state, keys) \in Block
<1>1. ASSUME NEW n \in 0..15 PROVE keys[r * Nb + n \div 4][n % 4] \in Byte
  <2>1. r * Nb + n \div 4 \in 0..43 /\ n % 4 \in 0..3
    BY DEF Nb, Nr
  <2>2. keys[r * Nb + n \div 4] \in Word
    BY <2>1 DEF RoundKeys, Nb, Nr
  <2>3. QED BY <2>1, <2>2 DEF Word
<1>2. \A n \in 0..15 : Xor(state[n], keys[r * Nb + n \div 4][n % 4]) \in Byte
  <2>1. \A n \in 0..15 : state[n] \in Byte
    BY DEF Block
  <2>2. QED BY <1>1, <2>1, XorIsByte
<1>3. QED BY <1>2 DEF AddRoundKey, Block

LEMMA BoxedIsBlock ==
  ASSUME NEW state \in Block
  PROVE  SubBytes(state) \in Block /\ InvSubBytes(state) \in Block
<1>1. \A n \in 0..15 : state[n] \in Byte
  BY DEF Block
<1>2. \A n \in 0..15 : /\ getSBoxValue(state[n]) \in Byte
                       /\ getSBoxInvert(state[n]) \in Byte
  BY <1>1, BoxesAreBytes
<1>3. QED BY <1>2 DEF SubBytes, InvSubBytes, Block

LEMMA ShiftedIsBlock ==
  ASSUME NEW state \in Block
  PROVE  ShiftRows(state) \in Block /\ InvShiftRows(state) \in Block
<1>1. \A n \in 0..15 : state[n] \in Byte
  BY DEF Block
<1>2. \A n \in 0..15 : (n + 4 * (n % 4)) % 16 \in 0..15
                       /\ (n + 12 * (n % 4)) % 16 \in 0..15
  OBVIOUS
<1>3. \A n \in 0..15 : state[(n + 4 * (n % 4)) % 16] \in Byte
                       /\ state[(n + 12 * (n % 4)) % 16] \in Byte
  BY <1>1, <1>2
<1>4. QED BY <1>3 DEF ShiftRows, InvShiftRows, Block

LEMMA MixedIsBlock ==
  ASSUME NEW state \in Block PROVE MixColumns(state) \in Block
<1> DEFINE S(n, j) == state[4 * (n \div 4) + ((n + j) % 4)]
           Tmp(n) == Xor(Xor(S(n, 0), S(n, 1)), Xor(S(n, 2), S(n, 3)))
           f(n) == Xor(S(n, 0), Xor(xtime[Xor(S(n, 0), S(n, 1)) + 1], Tmp(n)))
<1>1. ASSUME NEW n \in 0..15, NEW j \in 0..3 PROVE S(n, j) \in Byte
  <2>1. 4 * (n \div 4) + ((n + j) % 4) \in 0..15
    OBVIOUS
  <2>2. QED BY <2>1 DEF Block
<1>2. MixColumns(state) = [n \in 0..15 |-> f(n)]
  BY DEF MixColumns
<1>3. ASSUME NEW n \in 0..15 PROVE f(n) \in Byte
  <2>1. S(n, 0) \in Byte /\ S(n, 1) \in Byte /\ S(n, 2) \in Byte /\ S(n, 3) \in Byte
    BY <1>1
  <2> HIDE DEF S
  <2>2. Xor(S(n, 0), S(n, 1)) \in Byte /\ Xor(S(n, 2), S(n, 3)) \in Byte
    BY <2>1, XorIsByte
  <2>3. Tmp(n) \in Byte /\ xtime[Xor(S(n, 0), S(n, 1)) + 1] \in Byte
    BY <2>2, XorIsByte, XtimeIsByte
  <2> HIDE DEF Tmp
  <2>4. QED BY <2>1, <2>3, XorIsByte
<1> HIDE DEF f
<1>4. QED BY <1>2, <1>3 DEF Block

LEMMA InvMixedIsBlock ==
  ASSUME NEW state \in Block PROVE InvMixColumns(state) \in Block
<1> DEFINE S(n, j) == state[4 * (n \div 4) + ((n + j) % 4)]
           f(n) == Xor(Xor(Multiply(S(n, 0), 14), Multiply(S(n, 1), 11)),
                       Xor(Multiply(S(n, 2), 13), Multiply(S(n, 3), 9)))
<1>1. ASSUME NEW n \in 0..15, NEW j \in 0..3 PROVE S(n, j) \in Byte
  <2>1. 4 * (n \div 4) + ((n + j) % 4) \in 0..15
    OBVIOUS
  <2>2. QED BY <2>1 DEF Block
<1>2. InvMixColumns(state) = [n \in 0..15 |-> f(n)]
  BY DEF InvMixColumns
<1>3. ASSUME NEW n \in 0..15 PROVE f(n) \in Byte
  <2>1. S(n, 0) \in Byte /\ S(n, 1) \in Byte /\ S(n, 2) \in Byte /\ S(n, 3) \in Byte
    BY <1>1
  <2> HIDE DEF S
  <2>2. /\ Multiply(S(n, 0), 14) \in Byte /\ Multiply(S(n, 1), 11) \in Byte
        /\ Multiply(S(n, 2), 13) \in Byte /\ Multiply(S(n, 3), 9) \in Byte
    BY <2>1, MultiplyIsByte
  <2>3. /\ Xor(Multiply(S(n, 0), 14), Multiply(S(n, 1), 11)) \in Byte
        /\ Xor(Multiply(S(n, 2), 13), Multiply(S(n, 3), 9)) \in Byte
    BY <2>2, XorIsByte
  <2>4. QED BY <2>3, XorIsByte
<1> HIDE DEF f
<1>4. QED BY <1>2, <1>3 DEF Block

\* A round of Cipher and a round of InvCipher.
LEMMA RoundIsBlock ==
  ASSUME NEW state \in Block, NEW keys \in RoundKeys, NEW r \in 0..Nr
  PROVE  /\ CipherRound(r, state, keys) \in Block
         /\ InvCipherRound(r, state, keys) \in Block
<1>1. ShiftRows(SubBytes(state)) \in Block
  BY BoxedIsBlock, ShiftedIsBlock
<1>2. MixColumns(ShiftRows(SubBytes(state))) \in Block
  BY <1>1, MixedIsBlock
<1>3. CipherRound(r, state, keys) \in Block
  BY <1>1, <1>2, AddRoundKeyIsBlock DEF CipherRound
<1>4. InvSubBytes(InvShiftRows(state)) \in Block
  BY BoxedIsBlock, ShiftedIsBlock
<1>5. AddRoundKey(r, InvSubBytes(InvShiftRows(state)), keys) \in Block
  BY <1>4, AddRoundKeyIsBlock
<1>6. QED BY <1>3, <1>5, InvMixedIsBlock DEF InvCipherRound

LEMMA KeyWordIsWord ==
  ASSUME NEW keys \in RoundKeys, NEW n \in Nk..Nb * (Nr + 1) - 1
  PROVE  KeyWord(keys, n) \in Word
<1> DEFINE prev == keys[n - 1]
           rotated == [j \in 0..3 |-> getSBoxValue(prev[(j + 1) % 4])]
           temp == IF n % Nk = 0
                   THEN [rotated EXCEPT ![0] = Xor(@, Rcon[n \div Nk + 1])]
                   ELSE prev
<1>1. n - 1 \in 0..Nb * (Nr + 1) - 1 /\ n - Nk \in 0..Nb * (Nr + 1) - 1
      /\ n \div Nk + 1 \in 2..11
  BY DEF Nb, Nr, Nk
<1>2. prev \in Word /\ keys[n - Nk] \in Word
  BY <1>1 DEF RoundKeys
<1>3. Rcon[n \div Nk + 1] \in Byte
  <2>1. \A m \in 2..11 : Rcon[m] \in 0..255
    BY DEF Rcon
  <2>2. QED BY <1>1, <2>1 DEF Byte
<1>4. rotated \in Word
  <2> HIDE DEF prev
  <2>1. \A j \in 0..3 : prev[(j + 1) % 4] \in Byte
    BY <1>2 DEF Word
  <2>2. \A j \in 0..3 : getSBoxValue(prev[(j + 1) % 4]) \in Byte
    BY <2>1, BoxesAreBytes
  <2>3. QED BY <2>2 DEF Word
<1>5. temp \in Word
  <2> HIDE DEF prev, rotated
  <2>1. Xor(rotated[0], Rcon[n \div Nk + 1]) \in Byte
    BY <1>3, <1>4, XorIsByte DEF Word
  <2>2. [rotated EXCEPT ![0] = Xor(@, Rcon[n \div Nk + 1])] \in Word
    BY <1>4, <2>1 DEF Word
  <2>3. QED BY <1>2, <2>2
<1>6. KeyWord(keys, n) = [j \in 0..3 |-> Xor(keys[n - Nk][j], temp[j])]
  BY DEF KeyWord
<1> HIDE DEF temp
<1>7. \A j \in 0..3 : Xor(keys[n - Nk][j], temp[j]) \in Byte
  BY <1>2, <1>5, XorIsByte DEF Word
<1>8. QED BY <1>6, <1>7 DEF Word

-----------------------------------------------------------------------------
(* Where a program is.                                                     *)

\* The machine never leaves the program, a call, or the buffer of a call.
ControlInv ==
  /\ prog \in Programs /\ at \in 1..Len(prog.calls) + 1
  /\ label \in {"call", "words", "rounds", "out", "record", "spin"}
  /\ round \in 0..Nb * (Nr + 1) - 1 /\ cur \in Nat
  /\ label = "words" => Op \in {"init", "init_iv"} /\ round >= Nk
  /\ label \in {"rounds", "out"} => Op \in BlockOps /\ round <= Nr
  /\ Op \in BlockOps => cur \in First..First + (Bytes - 1) \div 16
  /\ saved.at \in 0..Len(prog.calls) + 1
  /\ saved.at # 0 => saved.cur = FirstAt(saved.at)
  /\ rollbacks \in 0..MaxRollbacks /\ traps \in 0..MaxTraps

LEMMA ProgramFacts ==
  ASSUME prog \in Programs
  PROVE  /\ Len(prog.calls) \in Nat /\ DOMAIN prog.calls = 1..Len(prog.calls)
         /\ \A n \in DOMAIN prog.calls :
              /\ prog.calls[n].op \in Ops
              /\ prog.calls[n].first \in Nat /\ prog.calls[n].bytes \in Nat
              /\ prog.calls[n].op = "system" => prog.calls[n].text \in SystemCall
              /\ prog.calls[n].op \in BlockOps =>
                   InBuffer(prog.calls[n], prog.buf)
         /\ prog.key \in Block /\ prog.iv \in Block
         /\ DOMAIN prog.buf \subseteq Nat
         /\ prog.buf \in [DOMAIN prog.buf -> Block]
<1>1. Program(prog)
  BY AesAppAssumption
<1>2. prog.calls \in Seq([op : Ops, first : Nat, bytes : Nat, text : STRING,
                          newline : BOOLEAN])
  BY <1>1, Zenon DEF Program
<1>3. /\ \A n \in DOMAIN prog.calls :
           prog.calls[n] \in [op : Ops, first : Nat, bytes : Nat, text : STRING,
                              newline : BOOLEAN]
      /\ Len(prog.calls) \in Nat /\ DOMAIN prog.calls = 1..Len(prog.calls)
  <2> DEFINE R == [op : Ops, first : Nat, bytes : Nat, text : STRING,
                   newline : BOOLEAN]
  <2>1. prog.calls \in Seq(R)
    BY <1>2
  <2> HIDE DEF R
  <2>2. /\ \A n \in DOMAIN prog.calls : prog.calls[n] \in R
        /\ Len(prog.calls) \in Nat /\ DOMAIN prog.calls = 1..Len(prog.calls)
    BY <2>1
  <2>3. QED BY <2>2 DEF R
<1>4. \A n \in DOMAIN prog.calls :
        /\ prog.calls[n].op \in Ops
        /\ prog.calls[n].first \in Nat /\ prog.calls[n].bytes \in Nat
  BY <1>3
<1>5. QED BY <1>1, <1>3, <1>4, Zenon DEF Program

\* The number of a byte's block.
LEMMA Sixteenth ==
  ASSUME NEW bytes \in Nat, bytes > 0
  PROVE  /\ (bytes - 1) \div 16 \in Nat
         /\ \A d \in Nat : 16 * d <= bytes - 1 => d <= (bytes - 1) \div 16
<1> DEFINE y == bytes - 1
<1>1. y \in Nat
  OBVIOUS
<1> HIDE DEF y
<1>2. y \div 16 \in Nat /\ y % 16 \in 0..15 /\ y = 16 * (y \div 16) + (y % 16)
  BY <1>1
<1>3. \A d \in Nat : 16 * d <= y => d <= y \div 16
  BY <1>1, <1>2
<1>4. QED BY <1>2, <1>3 DEF y

LEMMA Placed ==
  ASSUME ControlInv
  PROVE  /\ Op # "exit" => at \in DOMAIN prog.calls /\ Op = prog.calls[at].op
         /\ at \notin DOMAIN prog.calls => Op = "exit"
         /\ at \in DOMAIN prog.calls => First = prog.calls[at].first
         /\ \A n : FirstAt(n) \in Nat
<1>1. prog \in Programs
  BY DEF ControlInv
<1>2. \A n \in DOMAIN prog.calls : prog.calls[n].first \in Nat
  BY <1>1, ProgramFacts
<1>3. QED BY <1>2 DEF Op, OpAt, First, FirstAt

\* The block a call is working on is in the buffer, with those before it.
LEMMA CurInBuffer ==
  ASSUME ControlInv, Op \in BlockOps
  PROVE  /\ cur \in DOMAIN prog.buf
         /\ cur # First => cur - 1 \in DOMAIN prog.buf
<1>1. Op # "exit"
  BY DEF BlockOps
<1>2. at \in DOMAIN prog.calls /\ Op = prog.calls[at].op
      /\ First = prog.calls[at].first
  BY <1>1, Placed
<1>3. InBuffer(prog.calls[at], prog.buf) /\ First \in Nat /\ Bytes \in Nat
  BY <1>2, ProgramFacts DEF ControlInv, Bytes
<1>4. First..First + (Bytes - 1) \div 16 \subseteq DOMAIN prog.buf /\ Bytes > 0
  BY <1>2, <1>3 DEF InBuffer, Bytes
<1>5. cur \in First..First + (Bytes - 1) \div 16
  BY DEF ControlInv
<1>6. cur # First => cur - 1 \in First..First + (Bytes - 1) \div 16
  BY <1>3, <1>5
<1>7. QED BY <1>4, <1>5, <1>6

\* The place a call starts with, whether it is come to from the call before,
\* by the abort of the program or by a rollback.
LEMMA PlacedAt ==
  ASSUME ControlInv, UNCHANGED <<prog, traps>>,
         at' \in 1..Len(prog.calls) + 1, label' = "call", round' = 0,
         cur' = FirstAt(at'), rollbacks' \in 0..MaxRollbacks,
         saved'.at \in 0..Len(prog.calls) + 1,
         saved'.at # 0 => saved'.cur = FirstAt(saved'.at)
  PROVE  ControlInv'
<1>1. prog' \in Programs /\ traps' \in 0..MaxTraps
  BY DEF ControlInv
<1>2. cur' \in Nat
  BY Placed
<1>3. round' \in 0..Nb * (Nr + 1) - 1
  BY DEF Nb, Nr
<1>4. Op' \in BlockOps => cur' \in (First..First + (Bytes - 1) \div 16)'
  <2> SUFFICES ASSUME Op' \in BlockOps
               PROVE  cur' \in (First..First + (Bytes - 1) \div 16)'
    OBVIOUS
  <2>1. at' \in DOMAIN prog.calls /\ Op' = prog.calls[at'].op
    BY DEF Op, OpAt, BlockOps
  <2>2. InBuffer(prog.calls[at'], prog.buf) /\ prog.calls[at'].bytes \in Nat
    BY <2>1, ProgramFacts DEF ControlInv
  <2>3. Bytes' > 0 /\ Bytes' \in Nat
    BY <2>2 DEF InBuffer, Bytes
  <2>4. First' = cur'
    BY DEF First, FirstAt
  <2>5. (Bytes' - 1) \div 16 \in Nat
    BY <2>3, Sixteenth
  <2>6. QED BY <1>2, <2>4, <2>5
<1>5. saved'.at \in (0..Len(prog.calls) + 1)'
      /\ at' \in (1..Len(prog.calls) + 1)'
  OBVIOUS
<1>6. (saved.at # 0 => saved.cur = FirstAt(saved.at))'
  BY DEF FirstAt
<1>7. QED BY <1>1, <1>2, <1>3, <1>4, <1>5, <1>6 DEF ControlInv

LEMMA ReturnPlaced ==
  ASSUME ControlInv, Return, Op # "exit", UNCHANGED <<prog, saved, rollbacks, traps>>
  PROVE  ControlInv'
<1>1. at \in DOMAIN prog.calls /\ at + 1 \in 1..Len(prog.calls) + 1
  BY Placed, ProgramFacts DEF ControlInv
<1>2. at' = at + 1 /\ label' = "call" /\ round' = 0 /\ cur' = FirstAt(at + 1)
  BY DEF Return
<1>3. /\ rollbacks' \in 0..MaxRollbacks /\ saved'.at \in 0..Len(prog.calls) + 1
      /\ saved'.at # 0 => saved'.cur = FirstAt(saved'.at)
  BY DEF ControlInv
<1>4. QED BY <1>1, <1>2, <1>3, PlacedAt

LEMMA NextBlockPlaced ==
  ASSUME ControlInv, NextBlock, Op \in BlockOps,
         UNCHANGED <<prog, saved, rollbacks, traps>>
  PROVE  ControlInv'
<1>1. CASE More
  <2>1. at' = at /\ label' = "call" /\ round' = 0 /\ cur' = cur + 1
    BY <1>1 DEF NextBlock
  <2>2. Op' = Op /\ First' = First /\ Bytes' = Bytes
    BY <2>1 DEF Op, OpAt, First, FirstAt, Bytes
  <2>3. cur \in First..First + (Bytes - 1) \div 16 /\ cur \in Nat
    BY DEF ControlInv
  <2>4. at \in DOMAIN prog.calls
    BY Placed DEF BlockOps
  <2>5. First \in Nat /\ Bytes \in Nat
    BY <2>4, Placed, ProgramFacts DEF ControlInv, Bytes
  <2>6. 16 * (cur + 1 - First) < Bytes
    BY <1>1 DEF More
  <2>7. cur + 1 \in First..First + (Bytes - 1) \div 16
    <3> DEFINE done == cur + 1 - First
    <3>1. done \in Nat /\ 16 * done <= Bytes - 1
      BY <2>3, <2>5, <2>6
    <3> HIDE DEF done
    <3>2. Bytes \in Nat /\ Bytes > 0
      BY <3>1, <2>5
    <3>3. done <= (Bytes - 1) \div 16 /\ (Bytes - 1) \div 16 \in Nat
      BY <3>1, <3>2, Sixteenth
    <3>4. cur + 1 = First + done
      BY <2>3, <2>5 DEF done
    <3>5. QED BY <3>1, <3>3, <3>4, <2>5
  <2>8. round' \in 0..Nb * (Nr + 1) - 1
    BY <2>1 DEF Nb, Nr
  <2>9. Op' \in BlockOps => cur' \in (First..First + (Bytes - 1) \div 16)'
    BY <2>1, <2>2, <2>7
  <2>10. (saved.at # 0 => saved.cur = FirstAt(saved.at))'
    BY DEF ControlInv, FirstAt
  <2> HIDE DEF BlockOps
  <2>11. QED BY <2>1, <2>3, <2>8, <2>9, <2>10 DEF ControlInv
<1>2. CASE ~More
  BY <1>2, ReturnPlaced DEF NextBlock, BlockOps
<1>3. QED BY <1>1, <1>2

\* A step that stays in a call.
LEMMA StaysPlaced ==
  ASSUME ControlInv, UNCHANGED <<prog, at, cur, saved, rollbacks, traps>>,
         label' \in {"call", "words", "rounds", "out", "record"},
         round' \in 0..Nb * (Nr + 1) - 1,
         label' = "words" => Op \in {"init", "init_iv"} /\ round' >= Nk,
         label' \in {"rounds", "out"} => Op \in BlockOps /\ round' <= Nr
  PROVE  ControlInv'
BY DEF ControlInv, Op, OpAt, First, FirstAt, Bytes

\* What a call does to the place in the program.
LEMMA RunPlaced == ASSUME ControlInv, Run PROVE ControlInv'
<1>1. CASE KeyCopy
  <2>1. /\ UNCHANGED <<prog, at, cur, saved, rollbacks, traps>>
        /\ Op \in {"init", "init_iv"} /\ label' = "words" /\ round' = Nk
    BY <1>1, Zenon DEF KeyCopy, Rest
  <2>2. QED BY <2>1, StaysPlaced DEF Nb, Nr, Nk
<1>2. CASE KeyExpansion
  <2>1. /\ label = "words" /\ UNCHANGED <<prog, saved, rollbacks, traps>>
        /\ \/ /\ round + 1 < Nb * (Nr + 1) /\ round' = round + 1
              /\ UNCHANGED <<at, label, cur>>
           \/ Return
    BY <1>2, Zenon DEF KeyExpansion, Rest
  <2>2. /\ Op \in {"init", "init_iv"}
        /\ round >= Nk /\ round \in 0..Nb * (Nr + 1) - 1
    BY <2>1 DEF ControlInv
  <2>3. CASE Return
    BY <2>1, <2>2, <2>3, ReturnPlaced
  <2>4. CASE ~Return
    <3>1. round' \in 0..Nb * (Nr + 1) - 1 /\ round' >= Nk
      BY <2>1, <2>2, <2>4 DEF Nb, Nr, Nk
    <3>2. UNCHANGED <<prog, at, cur, saved, rollbacks, traps>> /\ label' = "words"
      BY <2>1, <2>4
    <3>3. QED BY <2>2, <3>1, <3>2, StaysPlaced
  <2>5. QED BY <2>3, <2>4
<1>3. CASE SetIv \/ EcbOut \/ Memcmp \/ PrintPut \/ SystemStub
  <2>1. Return /\ UNCHANGED <<prog, saved, rollbacks, traps>> /\ Op # "exit"
    BY <1>3, Zenon DEF SetIv, EcbOut, Memcmp, PrintPut, SystemStub, Rest
  <2>2. QED BY <2>1, ReturnPlaced
<1>4. CASE Whiten \/ InvWhiten
  <2>1. /\ UNCHANGED <<prog, at, cur, saved, rollbacks, traps>>
        /\ Encrypting \/ Decrypting
        /\ label' = "rounds" /\ round' \in {1, Nr - 1}
    BY <1>4 DEF Whiten, InvWhiten, Rest
  <2>2. Op \in BlockOps
    BY <2>1 DEF Encrypting, Decrypting, BlockOps
  <2>3. round' \in 0..Nb * (Nr + 1) - 1 /\ round' <= Nr
    BY <2>1 DEF Nb, Nr
  <2>4. QED BY <2>1, <2>2, <2>3, StaysPlaced
<1>5. CASE CipherStep \/ InvCipherStep
  <2>1. /\ UNCHANGED <<prog, at, cur, saved, rollbacks, traps>>
        /\ label = "rounds" /\ label' \in {"rounds", "out"}
        /\ \/ round' = round
           \/ CipherStep /\ round # Nr /\ round' = round + 1
           \/ InvCipherStep /\ round # 0 /\ round' = round - 1
    BY <1>5 DEF CipherStep, InvCipherStep, Rest
  <2>2. Op \in BlockOps /\ round <= Nr /\ round \in 0..Nb * (Nr + 1) - 1
    BY <2>1 DEF ControlInv
  <2>3. round' \in 0..Nb * (Nr + 1) - 1 /\ round' <= Nr
    BY <2>1, <2>2 DEF Nb, Nr
  <2>4. QED BY <2>1, <2>2, <2>3, StaysPlaced
<1>6. CASE CbcOut \/ CtrOut \/ InvCbcOut
  <2>1. NextBlock /\ UNCHANGED <<prog, saved, rollbacks, traps>>
        /\ Op \in {"cbc_encrypt", "cbc_decrypt", "ctr"}
    BY <1>6, Zenon DEF CbcOut, CtrOut, InvCbcOut, Rest
  <2>2. QED BY <2>1, NextBlockPlaced DEF BlockOps
<1>7. CASE PrintSetup \/ PrintRecord
  <2>1. /\ UNCHANGED <<prog, at, cur, round, saved, rollbacks, traps>>
        /\ label' \in {"record", "call"}
    BY <1>7 DEF PrintSetup, PrintRecord, Rest
  <2>2. round' \in 0..Nb * (Nr + 1) - 1
    BY <2>1 DEF ControlInv
  <2>3. QED BY <2>1, <2>2, StaysPlaced
<1>8. CASE Abort
  <2>1. /\ UNCHANGED <<prog, cur, round, label, saved, rollbacks, traps>>
        /\ at' = Len(prog.calls) + 1 /\ Op = "abort"
    BY <1>8, Zenon DEF Abort, Rest
  <2>2. label \notin {"words", "rounds", "out"}
    BY <2>1 DEF ControlInv, BlockOps
  <2>3. Len(prog.calls) \in Nat /\ DOMAIN prog.calls = 1..Len(prog.calls)
    BY ProgramFacts DEF ControlInv
  <2>4. Op' = "exit"
    BY <2>1, <2>3 DEF Op, OpAt
  <2>5. saved.at # 0 => saved.cur = FirstAt(saved.at)'
    BY <2>1 DEF ControlInv, FirstAt
  <2>6. Op' \notin BlockOps
    BY <2>4 DEF BlockOps
  <2> HIDE DEF BlockOps
  <2>7. QED BY <2>1, <2>2, <2>3, <2>5, <2>6 DEF ControlInv
<1>9. CASE StoreCheckpoint
  <2>1. /\ Return /\ UNCHANGED <<prog, rollbacks, traps>> /\ Op = "checkpoint"
        /\ saved'.at = at + 1 /\ saved'.cur = FirstAt(at + 1)
    BY <1>9 DEF StoreCheckpoint
  <2>2. at + 1 \in 1..Len(prog.calls) + 1
    BY <2>1, Placed, ProgramFacts DEF ControlInv
  <2>3. at' = at + 1 /\ label' = "call" /\ round' = 0 /\ cur' = FirstAt(at + 1)
    BY <2>1 DEF Return
  <2>4. rollbacks' \in 0..MaxRollbacks
    BY <2>1 DEF ControlInv
  <2>5. saved'.at \in 0..Len(prog.calls) + 1
    BY <2>1, <2>2
  <2>6. QED BY <2>1, <2>2, <2>3, <2>4, <2>5, PlacedAt
<1>10. QED BY <1>1, <1>2, <1>3, <1>4, <1>5, <1>6, <1>7, <1>8, <1>9 DEF Run

LEMMA ControlStep == ASSUME ControlInv, [Next]_vars PROVE ControlInv'
<1>1. CASE Run
  BY <1>1, RunPlaced
<1>2. CASE Rollback
  <2>1. /\ saved.at # 0 /\ rollbacks < MaxRollbacks /\ rollbacks' = rollbacks + 1
        /\ at' = saved.at /\ label' = "call" /\ round' = 0 /\ cur' = saved.cur
        /\ UNCHANGED <<prog, saved, traps>>
    BY <1>2, Zenon DEF Rollback
  <2>2. saved.at \in 1..Len(prog.calls) + 1 /\ rollbacks' \in 0..MaxRollbacks
    BY <2>1, AesAppAssumption, ProgramFacts DEF ControlInv
  <2>3. /\ saved.at \in 0..Len(prog.calls) + 1
        /\ saved.cur = FirstAt(saved.at)
    BY <2>1 DEF ControlInv
  <2>4. QED BY <2>1, <2>2, <2>3, PlacedAt
<1>3. CASE \E cause \in Causes : Trap(cause)
  <2>1. /\ label' = "spin" /\ traps < MaxTraps /\ traps' = traps + 1
        /\ UNCHANGED <<prog, at, cur, round, saved, rollbacks>>
    BY <1>3, Zenon DEF Trap
  <2>2. traps' \in 0..MaxTraps
    BY <2>1, AesAppAssumption DEF ControlInv
  <2>3. QED BY <2>1, <2>2 DEF ControlInv, Op, OpAt, First, FirstAt, Bytes
<1>4. CASE UNCHANGED vars
  BY <1>4 DEF vars, stack, ControlInv, Op, OpAt, First, FirstAt, Bytes
<1>5. QED BY <1>1, <1>2, <1>3, <1>4 DEF Next, Finished

-----------------------------------------------------------------------------
(* What it computes with.                                                  *)

Statuses == {None, "success", "failure"}
DataIs(keys, iv, own, b, st) ==
  /\ keys \in RoundKeys /\ iv \in Block /\ own \in Block
  /\ b \in [DOMAIN prog.buf -> Block] /\ st \in Statuses
DataInv ==
  /\ DataIs(RoundKey, Iv, local, buf, status)
  /\ saved.at # 0 =>
       DataIs(saved.RoundKey, saved.Iv, saved.local, saved.buf, saved.status)

LEMMA IncrementIsBlock ==
  ASSUME NEW iv \in Block PROVE Increment(iv) \in Block
<1> DEFINE stops == {n \in 0..15 : iv[n] # 255 /\ \A m \in n + 1..15 : iv[m] = 255}
           next(n) == CASE n \in stops -> iv[n] + 1
                        [] \E s \in stops : n < s -> iv[n]
                        [] OTHER -> 0
<1>1. Increment(iv) = [n \in 0..15 |-> next(n)]
  BY DEF Increment
<1>2. ASSUME NEW n \in 0..15 PROVE next(n) \in Byte
  <2>1. iv[n] \in 0..255 /\ (n \in stops => iv[n] # 255)
    BY DEF Block, Byte
  <2> HIDE DEF stops
  <2>2. next(n) \in {IF n \in stops THEN iv[n] + 1 ELSE iv[n], iv[n], 0}
    OBVIOUS
  <2> HIDE DEF next
  <2>3. QED BY <2>1, <2>2 DEF Byte
<1> HIDE DEF next
<1>3. QED BY <1>1, <1>2 DEF Block

\* A step writes a block where it works, whatever it computes.
LEMMA RunData == ASSUME ControlInv, DataInv, Run PROVE DataInv'
<1> DEFINE Kept == UNCHANGED <<prog, saved>>
<1>1. /\ RoundKey \in RoundKeys /\ Iv \in Block /\ local \in Block
      /\ buf \in [DOMAIN prog.buf -> Block] /\ status \in Statuses
  BY DEF DataInv, DataIs
<1>2. prog \in Programs /\ prog.key \in Block /\ prog.iv \in Block
  BY ProgramFacts DEF ControlInv
<1>3. ASSUME Kept, RoundKey' \in RoundKeys, Iv' \in Block, local' \in Block,
             buf' \in [DOMAIN prog.buf -> Block], status' \in Statuses
      PROVE  DataInv'
  BY <1>3 DEF DataInv, DataIs
<1>4. ASSUME Op \in BlockOps PROVE cur \in DOMAIN buf /\ buf[cur] \in Block
  BY <1>1, <1>4, CurInBuffer
<1>5. ASSUME Op \in BlockOps, NEW b \in Block,
             buf' = [buf EXCEPT ![cur] = b] \/ buf' = buf
      PROVE  buf' \in [DOMAIN prog.buf -> Block]
  BY <1>1, <1>5
<1> HIDE DEF Kept
<1>6. CASE KeyCopy
  <2>1. /\ Kept /\ UNCHANGED <<Iv, local, buf, status>>
        /\ RoundKey' = [n \in DOMAIN RoundKey |-> IF n < Nk THEN KeyCopied(prog.key)[n]
                                                  ELSE RoundKey[n]]
    BY <1>6, Zenon DEF KeyCopy, Rest, Kept
  <2>2. \A n \in 0..Nk - 1 : KeyCopied(prog.key)[n] \in Word
    <3>1. \A n \in 0..3, j \in 0..3 : prog.key[4 * n + j] \in Byte
      BY <1>2 DEF Block
    <3>2. QED BY <3>1 DEF KeyCopied, Word, Nk
  <2>3. \A n \in DOMAIN RoundKey : n < Nk => n \in 0..Nk - 1
    BY <1>1 DEF RoundKeys, Nk
  <2>4. RoundKey' \in RoundKeys
    BY <1>1, <2>1, <2>2, <2>3 DEF RoundKeys
  <2>5. QED BY <1>1, <1>3, <2>1, <2>4
<1>7. CASE KeyExpansion
  <2>1. /\ Kept /\ UNCHANGED <<local, buf, status>> /\ label = "words"
        /\ RoundKey' = [RoundKey EXCEPT ![round] = KeyWord(RoundKey, round)]
        /\ Iv' \in {Iv, prog.iv}
    BY <1>7 DEF KeyExpansion, Rest, Kept
  <2>2. round \in Nk..Nb * (Nr + 1) - 1
    BY <2>1 DEF ControlInv, Nk, Nb, Nr
  <2>3. KeyWord(RoundKey, round) \in Word
    BY <1>1, <2>2, KeyWordIsWord
  <2>4. RoundKey' \in RoundKeys
    BY <1>1, <2>1, <2>3 DEF RoundKeys
  <2>5. QED BY <1>1, <1>2, <1>3, <2>1, <2>4
<1>8. CASE SetIv
  <2>1. Kept /\ Iv' = prog.iv /\ UNCHANGED <<RoundKey, buf, local, status>>
    BY <1>8, Zenon DEF SetIv, Rest, Kept
  <2>2. QED BY <1>1, <1>2, <1>3, <2>1
<1>9. CASE Whiten \/ CipherStep
  <2>1. Op \in BlockOps /\ Encrypting
    BY <1>9 DEF Whiten, CipherStep, Encrypting, BlockOps
  <2>2. PICK state \in Block, r \in 0..Nr :
          SetState(AddRoundKey(r, state, RoundKey)) \/ SetState(CipherRound(r, state, RoundKey))
    <3>1. CASE Whiten
      <4> DEFINE state == CASE Op = "ecb_encrypt" -> buf[cur]
                            [] Op = "cbc_encrypt" -> Chained
                            [] Op = "ctr"         -> Iv
      <4>1. SetState(AddRoundKey(0, state, RoundKey))
        BY <3>1, Zenon DEF Whiten
      <4>2. Chained \in Block
        <5>1. cur # First => buf[cur - 1] \in Block
          BY <1>1, <2>1, CurInBuffer
        <5>2. QED BY <1>1, <1>4, <2>1, <5>1, XorBlocksIsBlock DEF Chained
      <4>3. state \in Block
        BY <1>1, <1>4, <2>1, <4>2 DEF Encrypting
      <4> HIDE DEF state
      <4>4. 0 \in 0..Nr
        BY DEF Nr
      <4>5. QED BY <4>1, <4>3, <4>4
    <3>2. CASE CipherStep
      <4>1. SetState(CipherRound(round, State, RoundKey)) /\ label = "rounds"
        BY <3>2, Zenon DEF CipherStep
      <4>2. round \in 0..Nr
        BY <4>1 DEF ControlInv, Nr, Nb
      <4>3. State \in Block
        BY <1>1, <1>4, <2>1 DEF State
      <4>4. QED BY <4>1, <4>2, <4>3
    <3>3. QED BY <1>9, <3>1, <3>2
  <2>3. PICK next \in Block : SetState(next)
    BY <1>1, <2>2, AddRoundKeyIsBlock, RoundIsBlock
  <2>4. local' \in Block /\ (buf' = buf \/ buf' = [buf EXCEPT ![cur] = next])
    BY <1>1, <2>3 DEF SetState
  <2>5. Kept /\ UNCHANGED <<RoundKey, Iv, status>>
    BY <1>9, Zenon DEF Whiten, CipherStep, Rest, Kept
  <2>6. QED BY <1>1, <1>3, <1>5, <2>1, <2>4, <2>5
<1>10. CASE CbcOut
  <2>1. /\ Kept /\ UNCHANGED <<RoundKey, buf, local, status>>
        /\ Iv' = IF More THEN Iv ELSE buf[cur]
        /\ Op = "cbc_encrypt"
    BY <1>10, Zenon DEF CbcOut, Rest, Kept
  <2>2. Iv' \in Block
    BY <1>1, <1>4, <2>1 DEF BlockOps
  <2>3. QED BY <1>1, <1>3, <2>1, <2>2
<1>11. CASE CtrOut
  <2> DEFINE mask(n) == IF 16 * (cur - First) + n < Bytes
                        THEN Xor(buf[cur][n], local[n]) ELSE buf[cur][n]
             next == [n \in 0..15 |-> mask(n)]
  <2>1. /\ Kept /\ UNCHANGED <<RoundKey, local, status>>
        /\ buf' = [buf EXCEPT ![cur] = next] /\ Iv' = Increment(Iv)
        /\ Op = "ctr"
    BY <1>11 DEF CtrOut, Rest, Kept
  <2>2. next \in Block
    <3>1. \A n \in 0..15 : buf[cur][n] \in Byte /\ local[n] \in Byte
      BY <1>1, <1>4, <2>1 DEF Block, BlockOps
    <3>2. \A n \in 0..15 : Xor(buf[cur][n], local[n]) \in Byte
      BY <3>1, XorIsByte
    <3>3. \A n \in 0..15 : mask(n) \in Byte
      BY <3>1, <3>2
    <3> HIDE DEF mask
    <3>4. QED BY <3>3 DEF Block
  <2>3. Iv' \in Block
    BY <1>1, <2>1, IncrementIsBlock
  <2> HIDE DEF next
  <2>4. buf' \in [DOMAIN prog.buf -> Block]
    BY <1>5, <2>1, <2>2 DEF BlockOps
  <2>5. QED BY <1>1, <1>3, <2>1, <2>3, <2>4
<1>12. CASE InvWhiten
  <2>1. /\ Kept /\ UNCHANGED <<RoundKey, Iv, status>>
        /\ local' = IF Op = "cbc_decrypt" THEN buf[cur] ELSE local
        /\ buf' = [buf EXCEPT ![cur] = AddRoundKey(Nr, buf[cur], RoundKey)]
        /\ Decrypting
    BY <1>12 DEF InvWhiten, Rest, Kept
  <2>2. Op \in BlockOps
    BY <2>1 DEF Decrypting, BlockOps
  <2>3. Nr \in 0..Nr
    BY DEF Nr
  <2>4. AddRoundKey(Nr, buf[cur], RoundKey) \in Block
    BY <1>1, <1>4, <2>2, <2>3, AddRoundKeyIsBlock
  <2>5. local' \in Block /\ buf' \in [DOMAIN prog.buf -> Block]
    BY <1>1, <1>4, <1>5, <2>1, <2>2, <2>4
  <2>6. QED BY <1>1, <1>3, <2>1, <2>5
<1>13. CASE InvCipherStep
  <2>1. /\ Kept /\ UNCHANGED <<RoundKey, Iv, local, status>> /\ label = "rounds"
        /\ buf' = [buf EXCEPT ![cur] = InvCipherRound(round, buf[cur], RoundKey)]
        /\ Decrypting
    BY <1>13 DEF InvCipherStep, Rest, Kept
  <2>2. Op \in BlockOps
    BY <2>1 DEF Decrypting, BlockOps
  <2>3. round \in 0..Nr
    BY <2>1 DEF ControlInv, Nr, Nb
  <2>4. InvCipherRound(round, buf[cur], RoundKey) \in Block
    BY <1>1, <1>4, <2>2, <2>3, RoundIsBlock
  <2>5. buf' \in [DOMAIN prog.buf -> Block]
    BY <1>5, <2>1, <2>2, <2>4
  <2>6. QED BY <1>1, <1>3, <2>1, <2>5
<1>14. CASE InvCbcOut
  <2>1. /\ Kept /\ UNCHANGED <<RoundKey, local, status>> /\ Iv' = local
        /\ buf' = [buf EXCEPT ![cur] = XorBlocks(buf[cur], Iv)]
        /\ Op = "cbc_decrypt"
    BY <1>14 DEF InvCbcOut, Rest, Kept
  <2>2. Op \in BlockOps
    BY <2>1 DEF BlockOps
  <2>3. XorBlocks(buf[cur], Iv) \in Block
    BY <1>1, <1>4, <2>2, XorBlocksIsBlock
  <2>4. buf' \in [DOMAIN prog.buf -> Block]
    BY <1>5, <2>1, <2>2, <2>3
  <2>5. QED BY <1>1, <1>3, <2>1, <2>4
<1>15. CASE EcbOut \/ PrintSetup \/ PrintRecord \/ PrintPut \/ SystemStub \/ Abort
  <2>1. Kept /\ UNCHANGED <<RoundKey, Iv, local, buf, status>>
    BY <1>15, Zenon DEF EcbOut, PrintSetup, PrintRecord, PrintPut, SystemStub,
                        Abort, Rest, Kept
  <2>2. QED BY <1>1, <1>3, <2>1
<1>16. CASE Memcmp
  <2>1. /\ Kept /\ UNCHANGED <<RoundKey, Iv, local, buf>>
        /\ status' = IF buf[0] = prog.out THEN "success" ELSE "failure"
    BY <1>16, Zenon DEF Memcmp, Rest, Kept
  <2>2. status' \in Statuses
    BY <2>1 DEF Statuses
  <2>3. QED BY <1>1, <1>3, <2>1, <2>2
<1>17. CASE StoreCheckpoint
  <2>1. /\ UNCHANGED <<prog, RoundKey, Iv, local, buf, status>>
        /\ saved'.RoundKey = RoundKey /\ saved'.Iv = Iv /\ saved'.local = local
        /\ saved'.buf = buf /\ saved'.status = status
    BY <1>17 DEF StoreCheckpoint
  <2>2. QED BY <1>1, <2>1 DEF DataInv, DataIs
<1>18. QED
  BY <1>6, <1>7, <1>8, <1>9, <1>10, <1>11, <1>12, <1>13, <1>14, <1>15, <1>16,
     <1>17 DEF Run

LEMMA DataStep == ASSUME ControlInv, DataInv, [Next]_vars PROVE DataInv'
<1>1. CASE Run
  BY <1>1, RunData
<1>2. CASE Rollback
  BY <1>2 DEF Rollback, DataInv, DataIs
<1>3. CASE \E cause \in Causes : Trap(cause)
  BY <1>3 DEF Trap, DataInv, DataIs
<1>4. CASE UNCHANGED vars
  BY <1>4 DEF vars, stack, DataInv, DataIs
<1>5. QED BY <1>1, <1>2, <1>3, <1>4 DEF Next, Finished

-----------------------------------------------------------------------------
(* The C library's own variables.                                          *)

Addr == 0..2^AddrBits - 1
LibcTyped ==
  /\ blocks \in Seq(Addr) /\ got \in Addr
  /\ stdout \in {"new", "unbuffered", "line"}
  /\ errno \in {"0", "ENOSYS", "-ENOSYS"} \cup {Reasons[c] : c \in DOMAIN Reasons}
  /\ saved.at # 0 => saved.got \in Addr

\* What _sbrk answers is an address, its error code too.
LEMMA AnswerIsAddress ==
  ASSUME HeapInv PROVE SbrkReturns(BufSize) \in Addr
<1>1. 2^AddrBits \in Nat /\ 2^AddrBits > 0 /\ brk \in 0..2^AddrBits - 1
  BY Linked
<1>2. SbrkReturns(BufSize) \in {0, brk, 2^AddrBits - 1}
  BY DEF SbrkReturns, Null, Failed
<1>3. QED BY <1>1, <1>2 DEF Addr

LEMMA LibcStep ==
  ASSUME ControlInv, HeapInv, LibcTyped, [Next]_vars
  PROVE  LibcTyped'
<1>1. CASE PrintSetup
  <2>1. /\ blocks' \in {blocks, Append(blocks, SbrkReturns(BufSize))}
        /\ got' = SbrkReturns(BufSize) /\ UNCHANGED <<stdout, errno, saved>>
    BY <1>1 DEF PrintSetup, AskBuffer, stream, Rest
  <2>2. SbrkReturns(BufSize) \in Addr
    BY AnswerIsAddress
  <2>3. blocks' \in Seq(Addr)
    BY <2>1, <2>2 DEF LibcTyped
  <2>4. QED BY <2>1, <2>2, <2>3 DEF LibcTyped
<1>2. CASE PrintRecord
  BY <1>2 DEF PrintRecord, SetBuffer, Rest, LibcTyped, CharacterDevice, Isatty,
              STDOUT_FILENO
<1>3. CASE PrintPut
  BY <1>3 DEF PrintPut, Put, libc, Rest, LibcTyped
<1>4. CASE SystemStub
  <2>1. /\ UNCHANGED <<blocks, stdout, got, saved>> /\ Op = "system"
        /\ Stub(prog.calls[at].text)
    BY <1>4, Zenon DEF SystemStub, Stub, stream, Rest
  <2>2. prog.calls[at].text \in SystemCall
    BY <2>1, Placed, ProgramFacts DEF ControlInv
  <2>3. errno' \in {errno, "ENOSYS", "-ENOSYS"} \cup {Reasons[c] : c \in DOMAIN Reasons}
    <3> DEFINE call == prog.calls[at].text
    <3>1. errno' = CASE call \in Unsupported    -> "ENOSYS"
                     [] call \in Negated        -> "-ENOSYS"
                     [] call \in DOMAIN Reasons -> Reasons[call]
                     [] OTHER                   -> errno
      BY <2>1, Zenon DEF Stub
    <3> HIDE DEF call
    <3>2. QED BY <3>1
  <2>4. QED BY <2>1, <2>3 DEF LibcTyped
<1>5. CASE StoreCheckpoint
  BY <1>5 DEF StoreCheckpoint, libc, LibcTyped
<1>6. CASE KeyCopy \/ KeyExpansion \/ SetIv \/ Memcmp \/ Abort
  BY <1>6 DEF KeyCopy, KeyExpansion, SetIv, Memcmp, Abort, libc, Rest, LibcTyped
<1>7. CASE Whiten \/ CipherStep \/ EcbOut \/ CbcOut \/ CtrOut
  BY <1>7 DEF Whiten, CipherStep, EcbOut, CbcOut, CtrOut, libc, Rest, LibcTyped
<1>8. CASE InvWhiten \/ InvCipherStep \/ InvCbcOut
  BY <1>8 DEF InvWhiten, InvCipherStep, InvCbcOut, libc, Rest, LibcTyped
<1>9. CASE Rollback
  BY <1>9 DEF Rollback, libc, LibcTyped
<1>10. CASE \E cause \in Causes : Trap(cause)
  BY <1>10 DEF Trap, WriteStr, libc, LibcTyped
<1>11. CASE UNCHANGED vars
  BY <1>11 DEF vars, stack, libc, LibcTyped
<1>12. CASE Run
  BY <1>1, <1>2, <1>3, <1>4, <1>5, <1>6, <1>7, <1>8, <1>12 DEF Run
<1>13. QED BY <1>9, <1>10, <1>11, <1>12 DEF Next, Finished

-----------------------------------------------------------------------------
(* What the program has printed.                                           *)

\* As Prints and Text, of the calls up to end and with the status st.
PrintsBy(n, end, st) ==
  \/ OpAt(n) = "print"
  \/ /\ OpAt(n) = "verdict" \/ (OpAt(n) = "success" /\ st = "success")
     /\ \A m \in n..end : OpAt(m) # "memcmp"
TextBy(n, st) == IF OpAt(n) = "print" THEN prog.calls[n].text ELSE st

\* The calls up to end are done: what they printed waits in stdout or is with
\* _write, and is with _write if the end of a line came with it or after it.
Told(end, st) ==
  \A n \in 1..end : \A m \in n..end :
    Reached(m) /\ PrintsBy(n, end, st) =>
      /\ TextBy(n, st) \in sent \cup pending
      /\ PrintsBy(m, end, st) /\ prog.calls[m].newline => TextBy(n, st) \in sent

ToldInv ==
  /\ Told(at - 1, status)
  /\ saved.at # 0 => Told(saved.at - 1, saved.status)

\* What was told stays told, as text only moves on from stdout to _write.
LEMMA StaysTold ==
  ASSUME UNCHANGED prog, sent \subseteq sent',
         sent \cup pending \subseteq sent' \cup pending',
         NEW end, NEW st, Told(end, st)
  PROVE  \A e, s : e = end /\ s = st => Told(e, s)'
<1>1. \A n : OpAt(n)' = OpAt(n)
  BY DEF OpAt
<1>2. \A n, s : TextBy(n, s)' = TextBy(n, s)
  BY <1>1 DEF TextBy
<1>3. \A n, e, s : PrintsBy(n, e, s)' <=> PrintsBy(n, e, s)
  BY <1>1 DEF PrintsBy
<1>4. \A m : Reached(m)' <=> Reached(m)
  BY <1>1 DEF Reached
<1>5. QED BY <1>2, <1>3, <1>4 DEF Told

\* A call that prints nothing ends.
LEMMA SilentTold ==
  ASSUME ControlInv, Op # "exit", Told(at - 1, status),
         Op \notin {"print", "verdict"}, Op = "success" => status # "success",
         NEW st, st = status \/ Op = "memcmp"
  PROVE  Told(at, st)
<1>1. at \in Nat /\ at >= 1 /\ Op = OpAt(at)
  BY ProgramFacts DEF ControlInv, Op
<1>2. SUFFICES ASSUME NEW n \in 1..at, NEW m \in n..at, Reached(m),
                      PrintsBy(n, at, st)
               PROVE  /\ TextBy(n, st) \in sent \cup pending
                      /\ PrintsBy(m, at, st) /\ prog.calls[m].newline =>
                           TextBy(n, st) \in sent
  BY DEF Told
<1>3. ~PrintsBy(at, at, st)
  <2>1. at \in at..at
    BY <1>1
  <2>2. QED BY <1>1, <2>1 DEF PrintsBy
<1>4. n \in 1..at - 1
  BY <1>1, <1>2, <1>3
<1>5. ASSUME NEW k \in 1..at - 1, PrintsBy(k, at, st)
      PROVE  PrintsBy(k, at - 1, status) /\ TextBy(k, st) = TextBy(k, status)
  <2>1. CASE OpAt(k) = "print"
    BY <2>1 DEF PrintsBy, TextBy
  <2>2. CASE OpAt(k) # "print"
    <3>1. \A j \in k..at : OpAt(j) # "memcmp"
      BY <1>5, <2>2 DEF PrintsBy
    <3>2. at \in k..at /\ k..at - 1 \subseteq k..at
      BY <1>1
    <3>3. st = status
      BY <1>1, <3>1, <3>2
    <3>4. QED BY <1>5, <3>1, <3>2, <3>3 DEF PrintsBy
  <2>3. QED BY <2>1, <2>2
<1>6. CASE m = at
  <2>1. Reached(n)
    BY <1>1, <1>2, <1>4 DEF Reached
  <2>2. n \in n..at - 1
    BY <1>1, <1>4
  <2>3. TextBy(n, st) \in sent \cup pending
    BY <1>2, <1>4, <1>5, <2>1, <2>2 DEF Told
  <2>4. QED BY <1>3, <1>6, <2>3
<1>7. CASE m # at
  <2>1. m \in n..at - 1 /\ m \in 1..at - 1
    BY <1>1, <1>4, <1>7
  <2>2. QED BY <1>2, <1>4, <1>5, <2>1 DEF Told
<1>8. QED BY <1>6, <1>7

\* A call that prints.
LEMMA PrintTold ==
  ASSUME ControlInv, LibcTyped, Told(at - 1, status), PrintPut
  PROVE  \A e, s : e = at /\ s = status => Told(e, s)'
<1>1. at \in Nat /\ at >= 1 /\ Op = OpAt(at) /\ Op # "exit"
  BY ProgramFacts DEF ControlInv, Op, PrintPut
<1>2. Op \in {"print", "verdict", "success"} /\ UNCHANGED prog
      /\ IF Printing THEN Put(Text(at), prog.calls[at].newline) ELSE UNCHANGED libc
  BY Zenon DEF PrintPut, Rest
<1>3. CASE ~Printing
  <2>1. Op \notin {"print", "verdict"} /\ (Op = "success" => status # "success")
    BY <1>2, <1>3 DEF Printing
  <2>2. Told(at, status)
    BY <1>1, <2>1, SilentTold
  <2>3. UNCHANGED <<sent, pending>>
    BY <1>2, <1>3 DEF libc
  <2>4. QED BY <1>2, <2>2, <2>3, StaysTold
<1>4. CASE Printing
  <2>1. Put(Text(at), prog.calls[at].newline)
    BY <1>2, <1>4
  <2>2. /\ sent \subseteq sent' /\ sent \cup pending \subseteq sent' \cup pending'
        /\ Text(at) \in sent' \cup pending'
        /\ prog.calls[at].newline =>
             sent \cup pending \subseteq sent' /\ Text(at) \in sent'
    <3>1. \/ sent' = sent \cup (pending \cup {Text(at)})
          \/ /\ sent' = sent /\ pending' = pending \cup {Text(at)}
             /\ stdout # "new" /\ stdout # "unbuffered"
             /\ ~(stdout = "line" /\ prog.calls[at].newline)
      BY <2>1 DEF Put, Write, STDOUT_FILENO
    <3>2. stdout \in {"new", "unbuffered", "line"}
      BY DEF LibcTyped
    <3>3. QED BY <3>1, <3>2
  <2>3. /\ \A n : OpAt(n)' = OpAt(n)
        /\ \A n, s : TextBy(n, s)' = TextBy(n, s)
        /\ \A n, e, s : PrintsBy(n, e, s)' <=> PrintsBy(n, e, s)
        /\ \A m : Reached(m)' <=> Reached(m)
    <3>1. \A n : OpAt(n)' = OpAt(n)
      BY <1>2 DEF OpAt
    <3>2. QED BY <1>2, <3>1 DEF TextBy, PrintsBy, Reached
  <2>4. ASSUME NEW n \in 1..at, NEW m \in n..at, Reached(m),
               PrintsBy(n, at, status)
        PROVE  /\ TextBy(n, status) \in sent' \cup pending'
               /\ PrintsBy(m, at, status) /\ prog.calls[m].newline =>
                    TextBy(n, status) \in sent'
    <3>1. CASE n = at
      <4>1. TextBy(at, status) = Text(at)
        BY DEF TextBy, Text
      <4>2. m = at
        BY <3>1, <1>1
      <4>3. QED BY <2>2, <3>1, <4>1, <4>2
    <3>2. CASE n # at
      <4>1. n \in 1..at - 1 /\ n \in n..at - 1
        BY <3>2, <1>1
      <4>2. ASSUME NEW k \in 1..at - 1, PrintsBy(k, at, status)
            PROVE  PrintsBy(k, at - 1, status)
        <5>1. k..at - 1 \subseteq k..at
          BY <1>1
        <5>2. QED BY <4>2, <5>1 DEF PrintsBy
      <4>3. Reached(n)
        BY <2>4, <1>1 DEF Reached
      <4>4. TextBy(n, status) \in sent \cup pending
        BY <2>4, <4>1, <4>2, <4>3 DEF Told
      <4>5. CASE m = at
        BY <2>2, <4>4, <4>5
      <4>6. CASE m # at
        <5>1. m \in n..at - 1 /\ m \in 1..at - 1
          BY <1>1, <4>1, <4>6
        <5>2. PrintsBy(m, at, status) /\ prog.calls[m].newline =>
                TextBy(n, status) \in sent
          BY <2>4, <4>1, <4>2, <5>1 DEF Told
        <5>3. QED BY <2>2, <4>4, <5>2
      <4>7. QED BY <4>5, <4>6
    <3>3. QED BY <3>1, <3>2
  <2>5. QED BY <1>2, <2>3, <2>4 DEF Told
<1>5. QED BY <1>3, <1>4

\* The two places, as a step leaves them.
LEMMA ToldPlaces ==
  ASSUME \A e, s : e = at' - 1 /\ s = status' => Told(e, s)',
         \A e, s : saved'.at # 0 /\ e = saved'.at - 1 /\ s = saved'.status => Told(e, s)'
  PROVE  ToldInv'
<1>1. Told(at - 1, status)'
  BY DEF Told, PrintsBy, TextBy, Reached
<1>2. saved'.at # 0 => Told(saved.at - 1, saved.status)'
  BY DEF Told, PrintsBy, TextBy, Reached
<1>3. QED BY <1>1, <1>2 DEF ToldInv

\* The steps of a call that say nothing, and those that end one.
LEMMA QuietStep ==
  ASSUME ControlInv, ToldInv, UNCHANGED <<prog, saved>>,
         sent \subseteq sent', sent \cup pending \subseteq sent' \cup pending',
         Told(at' - 1, status')
  PROVE  ToldInv'
<1>1. \A e, s : e = at' - 1 /\ s = status' => Told(e, s)'
  BY StaysTold
<1>2. \A e, s : saved'.at # 0 /\ e = saved'.at - 1 /\ s = saved'.status => Told(e, s)'
  <2> SUFFICES ASSUME saved.at # 0
               PROVE  \A e, s : e = saved.at - 1 /\ s = saved.status => Told(e, s)'
    OBVIOUS
  <2>1. Told(saved.at - 1, saved.status)
    BY DEF ToldInv
  <2>2. QED BY <2>1, StaysTold
<1>3. QED BY <1>1, <1>2, ToldPlaces

\* A call ends that does not print, compares perhaps.
LEMMA ReturnTold ==
  ASSUME ControlInv, ToldInv, Return, UNCHANGED <<prog, saved, sent, pending>>,
         Op \notin {"exit", "print", "verdict"}, Op = "success" => status # "success",
         status' = status \/ Op = "memcmp"
  PROVE  ToldInv'
<1>1. Told(at, status')
  BY SilentTold DEF ToldInv
<1>2. at' - 1 = at
  BY DEF Return, ControlInv
<1>3. QED BY <1>1, <1>2, QuietStep

LEMMA RunTold == ASSUME ControlInv, LibcTyped, ToldInv, Run PROVE ToldInv'
<1>1. ASSUME UNCHANGED <<prog, saved, at, status, sent, pending>> PROVE ToldInv'
  <2>1. Told(at' - 1, status')
    BY <1>1 DEF ToldInv
  <2>2. QED BY <1>1, <2>1, QuietStep
<1>2. CASE KeyCopy \/ Whiten \/ CipherStep \/ InvWhiten \/ InvCipherStep
           \/ PrintSetup \/ PrintRecord
  <2>1. UNCHANGED <<prog, saved, at, status, sent, pending>>
    BY <1>2, Zenon DEF KeyCopy, Whiten, CipherStep, InvWhiten, InvCipherStep,
         PrintSetup, PrintRecord, AskBuffer, SetBuffer, stream, libc, Rest
  <2>2. QED BY <1>1, <2>1
<1>3. CASE KeyExpansion
  <2>1. /\ label = "words" /\ UNCHANGED <<prog, saved, status, sent, pending>>
        /\ at' = at \/ Return
    BY <1>3, Zenon DEF KeyExpansion, libc, Rest
  <2>2. Op \in {"init", "init_iv"}
    BY <2>1 DEF ControlInv
  <2>3. QED BY <1>1, <2>1, <2>2, ReturnTold
<1>4. CASE SetIv \/ EcbOut \/ Memcmp \/ SystemStub
  <2>1. /\ Return /\ UNCHANGED <<prog, saved, sent, pending>>
        /\ Op \in {"set_iv", "ecb_encrypt", "ecb_decrypt", "memcmp", "system"}
        /\ status' = status \/ Op = "memcmp"
    BY <1>4 DEF SetIv, EcbOut, Memcmp, SystemStub, Stub, stream, libc, Rest
  <2>2. QED BY <2>1, ReturnTold
<1>5. CASE CbcOut \/ CtrOut \/ InvCbcOut
  <2>1. /\ UNCHANGED <<prog, saved, status, sent, pending>>
        /\ Op \in {"cbc_encrypt", "cbc_decrypt", "ctr"} /\ NextBlock
    BY <1>5, Zenon DEF CbcOut, CtrOut, InvCbcOut, libc, Rest
  <2>2. at' = at \/ Return
    BY <2>1, Zenon DEF NextBlock
  <2>3. QED BY <1>1, <2>1, <2>2, ReturnTold
<1>6. CASE PrintPut
  <2>1. UNCHANGED <<prog, saved, status>> /\ at' = at + 1
        /\ sent \subseteq sent' /\ sent \cup pending \subseteq sent' \cup pending'
    BY <1>6 DEF PrintPut, Return, Put, Write, libc, Rest
  <2>2. \A e, s : e = at /\ s = status => Told(e, s)'
    BY <1>6, PrintTold DEF ToldInv
  <2>3. at' - 1 = at
    BY <2>1 DEF ControlInv
  <2>4. \A e, s : e = at' - 1 /\ s = status' => Told(e, s)'
    BY <2>1, <2>2, <2>3
  <2>5. ASSUME saved.at # 0
        PROVE  \A e, s : e = saved.at - 1 /\ s = saved.status => Told(e, s)'
    <3>1. Told(saved.at - 1, saved.status)
      BY <2>5 DEF ToldInv
    <3>2. QED BY <2>1, <3>1, StaysTold
  <2>6. saved' = saved
    BY <2>1
  <2>7. QED BY <2>4, <2>5, <2>6, ToldPlaces
<1>7. CASE Abort
  <2>1. /\ UNCHANGED <<prog, saved, status, sent, pending>>
        /\ at' = Len(prog.calls) + 1 /\ Op = "abort"
    BY <1>7, Zenon DEF Abort, libc, Rest
  <2>2. Len(prog.calls) \in Nat /\ at \in 1..Len(prog.calls)
    BY <2>1, Placed, ProgramFacts DEF ControlInv
  <2>3. Told(Len(prog.calls), status)
    <3>1. Told(at - 1, status) /\ OpAt(at) = "abort"
      BY <2>1 DEF ToldInv, Op
    <3>2. SUFFICES ASSUME NEW n \in 1..Len(prog.calls),
                          NEW m \in n..Len(prog.calls), Reached(m),
                          PrintsBy(n, Len(prog.calls), status)
                   PROVE  /\ TextBy(n, status) \in sent \cup pending
                          /\ PrintsBy(m, Len(prog.calls), status)
                             /\ prog.calls[m].newline => TextBy(n, status) \in sent
      BY DEF Told
    <3>3. m < at
      BY <2>2, <3>1, <3>2 DEF Reached
    <3>4. n \in 1..at - 1 /\ m \in n..at - 1
      BY <2>2, <3>3
    <3>5. ASSUME NEW k \in 1..at - 1, PrintsBy(k, Len(prog.calls), status)
          PROVE  PrintsBy(k, at - 1, status)
      <4>1. k..at - 1 \subseteq k..Len(prog.calls)
        BY <2>2
      <4>2. QED BY <3>5, <4>1 DEF PrintsBy
    <3>6. m \in 1..at - 1
      BY <3>4, <2>2
    <3>7. QED BY <3>1, <3>2, <3>4, <3>5, <3>6 DEF Told
  <2>4. at' - 1 = Len(prog.calls)
    BY <2>1, <2>2
  <2>5. QED BY <2>1, <2>3, <2>4, QuietStep
<1>8. CASE StoreCheckpoint
  <2>1. /\ Op = "checkpoint" /\ at' = at + 1
        /\ UNCHANGED <<prog, status, sent, pending>>
        /\ saved'.at = at + 1 /\ saved'.status = status
    BY <1>8 DEF StoreCheckpoint, Return, libc
  <2>2. Told(at, status)
    BY <2>1, SilentTold DEF ToldInv
  <2>3. \A e, s : e = at /\ s = status => Told(e, s)'
    BY <2>1, <2>2, StaysTold
  <2>4. at' - 1 = at /\ saved'.at - 1 = at
    BY <2>1 DEF ControlInv
  <2>5. QED BY <2>1, <2>3, <2>4, ToldPlaces
<1>9. QED BY <1>2, <1>3, <1>4, <1>5, <1>6, <1>7, <1>8 DEF Run

LEMMA ToldStep ==
  ASSUME ControlInv, LibcTyped, ToldInv, [Next]_vars PROVE ToldInv'
<1>1. CASE Run
  BY <1>1, RunTold
<1>2. CASE Rollback
  <2>1. /\ saved.at # 0 /\ at' = saved.at /\ status' = saved.status
        /\ UNCHANGED <<prog, saved, sent, pending>>
    BY <1>2, Zenon DEF Rollback, libc
  <2>2. Told(at' - 1, status')
    BY <2>1 DEF ToldInv
  <2>3. QED BY <2>1, <2>2, QuietStep
<1>3. CASE \E cause \in Causes : Trap(cause)
  <2>1. UNCHANGED <<prog, saved, at, status, pending>> /\ sent \subseteq sent'
    BY <1>3 DEF Trap, WriteStr, Write, libc
  <2>2. Told(at' - 1, status')
    BY <2>1 DEF ToldInv
  <2>3. QED BY <2>1, <2>2, QuietStep
<1>4. CASE UNCHANGED vars
  <2>1. UNCHANGED <<prog, saved, at, status, sent, pending>>
    BY <1>4 DEF vars, stack, libc
  <2>2. Told(at' - 1, status')
    BY <2>1 DEF ToldInv
  <2>3. QED BY <2>1, <2>2, QuietStep
<1>5. QED BY <1>1, <1>2, <1>3, <1>4 DEF Next, Finished

-----------------------------------------------------------------------------
(* The counter of CTR mode.                                                *)

\* The loop of the increment ends at the last byte that does not overflow.
LEMMA LastStops ==
  ASSUME NEW iv \in Block, NEW n \in 0..15, \E m \in n..15 : iv[m] # 255
  PROVE  \E s \in n..15 : iv[s] # 255 /\ \A m \in s + 1..15 : iv[m] = 255
<1> DEFINE Stops(s) == iv[s] # 255 /\ \A m \in s + 1..15 : iv[m] = 255
           C(k) == (\E m \in k..15 : iv[m] # 255) => \E s \in k..15 : Stops(s)
<1>1. C(16)
  OBVIOUS
<1>2. ASSUME NEW k \in 0..15, C(k + 1) PROVE C(k)
  <2> SUFFICES ASSUME \E m \in k..15 : iv[m] # 255
               PROVE  \E s \in k..15 : Stops(s)
    OBVIOUS
  <2>1. CASE \E m \in k + 1..15 : iv[m] # 255
    BY <1>2, <2>1
  <2>2. CASE \A m \in k + 1..15 : iv[m] = 255
    BY <2>2
  <2>3. QED BY <2>1, <2>2
<1> HIDE DEF C
<1>3. ASSUME NEW j \in 3..15, C(j + 1) PROVE C(j) /\ C(j - 1) /\ C(j - 2) /\ C(j - 3)
  <2>1. C(j)
    BY <1>2, <1>3
  <2>2. C(j - 1)
    <3>1. j - 1 \in 0..15 /\ (j - 1) + 1 = j
      OBVIOUS
    <3>2. QED BY <1>2, <2>1, <3>1
  <2>3. C(j - 2)
    <3>1. j - 2 \in 0..15 /\ (j - 2) + 1 = j - 1
      OBVIOUS
    <3>2. QED BY <1>2, <2>2, <3>1
  <2>4. C(j - 3)
    <3>1. j - 3 \in 0..15 /\ (j - 3) + 1 = j - 2
      OBVIOUS
    <3>2. QED BY <1>2, <2>3, <3>1
  <2>5. QED BY <2>1, <2>2, <2>3, <2>4
<1>4. C(15) /\ C(14) /\ C(13) /\ C(12)
  <2>1. 15 \in 3..15 /\ 15 + 1 = 16 /\ 15 - 1 = 14 /\ 15 - 2 = 13 /\ 15 - 3 = 12
    OBVIOUS
  <2>2. QED BY <1>1, <1>3, <2>1
<1>5. C(11) /\ C(10) /\ C(9) /\ C(8)
  <2>1. 11 \in 3..15 /\ 11 + 1 = 12 /\ 11 - 1 = 10 /\ 11 - 2 = 9 /\ 11 - 3 = 8
    OBVIOUS
  <2>2. QED BY <1>4, <1>3, <2>1
<1>6. C(7) /\ C(6) /\ C(5) /\ C(4)
  <2>1. 7 \in 3..15 /\ 7 + 1 = 8 /\ 7 - 1 = 6 /\ 7 - 2 = 5 /\ 7 - 3 = 4
    OBVIOUS
  <2>2. QED BY <1>5, <1>3, <2>1
<1>7. C(3) /\ C(2) /\ C(1) /\ C(0)
  <2>1. 3 \in 3..15 /\ 3 + 1 = 4 /\ 3 - 1 = 2 /\ 3 - 2 = 1 /\ 3 - 3 = 0
    OBVIOUS
  <2>2. QED BY <1>6, <1>3, <2>1
<1>8. C(n)
  BY <1>4, <1>5, <1>6, <1>7
<1>9. QED BY <1>8 DEF C

LEMMA IncrementCounts ==
  ASSUME NEW iv \in Block, NEW n \in 0..15
  PROVE  Increment(iv)[n] =
           (iv[n] + (IF \A m \in n + 1..15 : iv[m] = 255 THEN 1 ELSE 0)) % 256
<1> DEFINE stops == {s \in 0..15 : iv[s] # 255 /\ \A m \in s + 1..15 : iv[m] = 255}
<1>1. Increment(iv)[n] = CASE n \in stops -> iv[n] + 1
                           [] \E s \in stops : n < s -> iv[n]
                           [] OTHER -> 0
  BY DEF Increment
<1>2. \A m \in 0..15 : iv[m] \in 0..255
  BY DEF Block, Byte
<1>3. CASE n \in stops
  <2>1. ~\E s \in stops : n < s
    BY <1>3
  <2>2. Increment(iv)[n] = iv[n] + 1
    BY <1>1, <1>3, <2>1
  <2>3. iv[n] \in 0..254 /\ \A m \in n + 1..15 : iv[m] = 255
    BY <1>2, <1>3
  <2>4. (iv[n] + 1) % 256 = iv[n] + 1
    BY <2>3
  <2>5. QED BY <2>2, <2>3, <2>4
<1>4. CASE \E s \in stops : n < s
  <2>1. n \notin stops /\ ~\A m \in n + 1..15 : iv[m] = 255
    BY <1>4
  <2>2. Increment(iv)[n] = iv[n]
    BY <1>1, <1>4, <2>1
  <2>3. (iv[n] + 0) % 256 = iv[n]
    <3>1. \A x \in 0..255 : (x + 0) % 256 = x
      OBVIOUS
    <3>2. QED BY <1>2, <3>1
  <2>4. (IF \A m \in n + 1..15 : iv[m] = 255 THEN 1 ELSE 0) = 0
    BY <2>1
  <2>5. QED BY <2>2, <2>3, <2>4
<1>5. CASE n \notin stops /\ ~\E s \in stops : n < s
  <2>1. \A s \in n..15 : s \notin stops
    BY <1>5
  <2>2. \A m \in n..15 : iv[m] = 255
    BY <2>1, LastStops
  <2>3. Increment(iv)[n] = 0
    BY <1>1, <1>5
  <2>4. iv[n] = 255 /\ \A m \in n + 1..15 : iv[m] = 255
    BY <2>2
  <2>5. (255 + 1) % 256 = 0
    OBVIOUS
  <2>6. QED BY <2>3, <2>4, <2>5
<1>6. QED BY <1>3, <1>4, <1>5

\* Nothing else moves the counter while CTR works.
LEMMA OnlyCounted ==
  ASSUME ControlInv, [Next]_vars, Op = "ctr", Iv' # Iv, rollbacks' = rollbacks
  PROVE  Iv' = Increment(Iv)
<1>1. ~Rollback
  <2>1. rollbacks \in Int
    BY AesAppAssumption DEF ControlInv
  <2>2. QED BY <2>1 DEF Rollback
<1>2. ~UNCHANGED vars /\ ~(\E cause \in Causes : Trap(cause))
  BY DEF vars, stack, Trap
<1>3. Run
  BY <1>1, <1>2 DEF Next, Finished
<1>4. ~KeyExpansion
  BY DEF KeyExpansion, ControlInv
<1>5. CASE CtrOut
  BY <1>5 DEF CtrOut
<1>6. CASE SetIv \/ CbcOut \/ InvCbcOut
  BY <1>6 DEF SetIv, CbcOut, InvCbcOut
<1>7. CASE KeyCopy \/ Whiten \/ CipherStep \/ EcbOut \/ InvWhiten \/ InvCipherStep
           \/ Memcmp \/ StoreCheckpoint
  BY <1>7 DEF KeyCopy, Whiten, CipherStep, EcbOut, InvWhiten, InvCipherStep,
              Memcmp, StoreCheckpoint
<1>8. CASE PrintSetup \/ PrintRecord \/ PrintPut \/ SystemStub \/ Abort
  BY <1>8 DEF PrintSetup, PrintRecord, PrintPut, SystemStub, Abort
<1>9. QED BY <1>3, <1>4, <1>5, <1>6, <1>7, <1>8 DEF Run

-----------------------------------------------------------------------------
(* The theorems.                                                           *)

AesInv == ControlInv /\ DataInv /\ HeapInv /\ LibcTyped /\ ToldInv

LEMMA AesInit == ASSUME Init PROVE AesInv
<1>1. /\ prog \in Programs
      /\ at = 1 /\ label = "call" /\ round = 0 /\ cur = FirstAt(1)
      /\ RoundKey = NoKey /\ Iv = Zero /\ buf = prog.buf /\ local = Zero
      /\ got = Null /\ status = None
      /\ saved = [at |-> 0] /\ rollbacks = 0 /\ traps = 0
      /\ heapEnd \in HeapEnds /\ brk = HeapStart /\ blocks = <<>>
      /\ stdout = "new" /\ errno = "0"
  BY Zenon DEF Init, LibcInit
<1>2. Len(prog.calls) \in Nat /\ DOMAIN prog.calls = 1..Len(prog.calls)
  BY <1>1, ProgramFacts
<1>3. ControlInv
  <2>1. cur \in Nat
    BY <1>1, ProgramFacts DEF FirstAt
  <2>2. Op \in BlockOps => cur \in First..First + (Bytes - 1) \div 16
    <3> SUFFICES ASSUME Op \in BlockOps
                 PROVE  cur \in First..First + (Bytes - 1) \div 16
      OBVIOUS
    <3>1. at \in DOMAIN prog.calls /\ Op = prog.calls[at].op
      BY DEF Op, OpAt, BlockOps
    <3>2. InBuffer(prog.calls[at], prog.buf) /\ Bytes \in Nat
      BY <1>1, <3>1, ProgramFacts DEF Bytes
    <3>3. (Bytes - 1) \div 16 \in Nat
      BY <3>2, Sixteenth DEF InBuffer, Bytes
    <3>4. First = cur
      BY <1>1 DEF First
    <3>5. QED BY <2>1, <3>3, <3>4
  <2>3. /\ round \in 0..Nb * (Nr + 1) - 1 /\ saved.at = 0
        /\ rollbacks \in 0..MaxRollbacks /\ traps \in 0..MaxTraps
    BY <1>1, AesAppAssumption DEF Nb, Nr
  <2>4. at \in 1..Len(prog.calls) + 1 /\ saved.at \in 0..Len(prog.calls) + 1
    BY <1>1, <1>2, <2>3
  <2> HIDE DEF BlockOps
  <2>5. QED BY <1>1, <2>1, <2>2, <2>3, <2>4 DEF ControlInv
<1>4. DataInv
  <2>1. Zero \in Block /\ NoKey \in RoundKeys
    BY DEF Zero, NoKey, Block, Byte, Word, RoundKeys
  <2>2. prog.buf \in [DOMAIN prog.buf -> Block]
    BY <1>1, ProgramFacts
  <2>3. saved.at = 0
    BY <1>1
  <2>4. QED BY <1>1, <2>1, <2>2, <2>3 DEF DataInv, DataIs, Statuses
<1>5. HeapInv
  <2>1. HeapStart \in Nat /\ heapEnd \in Int /\ HeapStart <= heapEnd
    BY <1>1, LibcAssumption
  <2>2. blocks \in Seq(Int) /\ DOMAIN blocks = {}
    BY <1>1
  <2>3. QED BY <1>1, <2>1, <2>2 DEF HeapInv, BlocksApart
<1>6. LibcTyped
  <2>1. 2^AddrBits \in Nat /\ 2^AddrBits > 0
    BY <1>5, Linked
  <2>2. got \in Addr /\ blocks \in Seq(Addr) /\ saved.at = 0
    BY <1>1, <2>1 DEF Null, Addr
  <2>3. QED BY <1>1, <2>2 DEF LibcTyped
<1>7. ToldInv
  <2>1. 1..at - 1 = {} /\ saved.at = 0
    BY <1>1
  <2>2. QED BY <2>1 DEF ToldInv, Told
<1>8. QED BY <1>3, <1>4, <1>5, <1>6, <1>7 DEF AesInv

LEMMA AesStep == ASSUME AesInv, [Next]_vars PROVE AesInv'
<1>1. HeapInv'
  <2>1. CASE AskBuffer
    BY <2>1, AskKeeps DEF AesInv
  <2>2. CASE UNCHANGED <<heapEnd, brk, blocks>>
    BY <2>2 DEF AesInv, HeapInv, BlocksApart
  <2>3. QED BY <2>1, <2>2, OnlyAsked
<1>2. QED BY <1>1, ControlStep, DataStep, LibcStep, ToldStep DEF AesInv

\* The invariant of AesApp, for any programs that stay inside their buffer.
THEOREM AesInvariant == Spec => []AesInv
<1>1. Init => AesInv
  BY AesInit
<1>2. AesInv /\ [Next]_vars => AesInv'
  BY AesStep
<1>3. QED BY <1>1, <1>2, PTL DEF Spec

\* Type correctness: no program leaves its code, its buffer or the key
\* schedule, no table of aes.c is read outside, every byte of a state, a key
\* and a counter is one, and _sbrk answers with addresses.
THEOREM AesTypeCorrect == Spec => []TypeOK
<1>1. AesInv => TypeOK
  <2> SUFFICES ASSUME AesInv PROVE TypeOK
    OBVIOUS
  <2>1. ControlInv /\ DataInv /\ HeapInv /\ LibcTyped
    BY DEF AesInv
  <2>2. /\ RoundKey \in RoundKeys /\ Iv \in Block /\ local \in Block
        /\ buf \in [DOMAIN prog.buf -> Block] /\ status \in Statuses
    BY <2>1 DEF DataInv, DataIs
  <2>3. QED BY <2>1, <2>2, Zenon
            DEF TypeOK, ControlInv, HeapInv, LibcTyped, RoundKeys, Statuses, Addr
<1>2. QED BY <1>1, AesInvariant, PTL

\* What a program printed, with the end of a line or before one, is with
\* _write when the program ends, though the buffer of stdout is never flushed
\* and a rollback does not take it back: printf, _isatty, _fstat and _write.
THEOREM OutputReachesWriteHolds == Spec => []OutputReachesWrite
<1>1. AesInv => OutputReachesWrite
  <2> SUFFICES ASSUME AesInv, Exited,
                      NEW n \in DOMAIN prog.calls, NEW m \in n..Len(prog.calls),
                      Reached(m), Prints(n), EndsLine(m)
               PROVE  Text(n) \in sent
    BY DEF OutputReachesWrite
  <2>1. ControlInv /\ ToldInv
    BY DEF AesInv
  <2>2. at = Len(prog.calls) + 1
    <3>1. at \notin DOMAIN prog.calls
      <4> SUFFICES ASSUME at \in DOMAIN prog.calls PROVE FALSE
        OBVIOUS
      <4>1. Op = prog.calls[at].op /\ prog.calls[at].op \in Ops
        BY <2>1, ProgramFacts DEF ControlInv, Op, OpAt
      <4>2. QED BY <4>1 DEF Exited, Ops
    <3>2. QED BY <2>1, <3>1, ProgramFacts DEF ControlInv
  <2>3. Len(prog.calls) \in Nat /\ n \in 1..Len(prog.calls)
    BY <2>1, ProgramFacts DEF ControlInv
  <2>4. Told(Len(prog.calls), status)
    <3>1. at - 1 = Len(prog.calls)
      BY <2>2, <2>3
    <3>2. QED BY <2>1, <3>1 DEF ToldInv
  <2>5. \A k : Prints(k) => PrintsBy(k, Len(prog.calls), status)
    BY DEF Prints, PrintsBy
  <2>6. Text(n) = TextBy(n, status)
    BY DEF Text, TextBy
  <2>7. QED BY <2>3, <2>4, <2>5, <2>6 DEF Told, EndsLine
<1>2. QED BY <1>1, AesInvariant, PTL

\* The counter of AES_CTR_xcrypt_buffer, a number of sixteen bytes, goes up by
\* one and wraps, from every value.
THEOREM CounterCountsHolds == Spec => CounterCounts
<1> DEFINE A == Op = "ctr" /\ Iv' # Iv /\ rollbacks' = rollbacks =>
                  \A n \in 0..15 :
                    Iv'[n] = (Iv[n] + (IF \A m \in n + 1..15 : Iv[m] = 255
                                       THEN 1 ELSE 0)) % 256
<1>1. AesInv /\ [Next]_vars => A
  <2> SUFFICES ASSUME AesInv, [Next]_vars, Op = "ctr", Iv' # Iv,
                      rollbacks' = rollbacks, NEW n \in 0..15
               PROVE  Iv'[n] = (Iv[n] + (IF \A m \in n + 1..15 : Iv[m] = 255
                                         THEN 1 ELSE 0)) % 256
    OBVIOUS
  <2>1. Iv' = Increment(Iv) /\ Iv \in Block
    BY OnlyCounted DEF AesInv, DataInv, DataIs
  <2>2. QED BY <2>1, IncrementCounts
<1>2. AesInv /\ [Next]_vars => [A]_vars
  BY <1>1
<1>3. QED BY <1>2, AesInvariant, PTL DEF Spec, CounterCounts

=============================================================================
