-------------------------------- MODULE MCAesApp --------------------------------
(***************************************************************************)
(* Programs for AesApp: the tests of main.c with their vectors, the four   *)
(* ECB blocks of the comment of aes.c, and programs that use CBC and CTR   *)
(* with the vectors of NIST SP 800-38A (F.2.1 and F.5.1).                  *)
(***************************************************************************)
EXTENDS AesApp, TLC

B(bytes) == [n \in 0..15 |-> bytes[n + 1]]

Key == B(<<43, 126, 21, 22, 40, 174, 210, 166, 171, 247, 21, 136, 9, 207, 79, 60>>)
Plain0 == B(<<107, 193, 190, 226, 46, 64, 159, 150, 233, 61, 126, 17, 115, 147, 23, 42>>)
Plain1 == B(<<174, 45, 138, 87, 30, 3, 172, 156, 158, 183, 111, 172, 69, 175, 142, 81>>)
Plain2 == B(<<48, 200, 28, 70, 163, 92, 228, 17, 229, 251, 193, 25, 26, 10, 82, 239>>)
Plain3 == B(<<246, 159, 36, 69, 223, 79, 155, 23, 173, 43, 65, 123, 230, 108, 55, 16>>)
Ecb0 == B(<<58, 215, 123, 180, 13, 122, 54, 96, 168, 158, 202, 243, 36, 102, 239, 151>>)
Ecb1 == B(<<245, 211, 213, 133, 3, 185, 105, 157, 231, 133, 137, 90, 150, 253, 186, 175>>)
Ecb2 == B(<<67, 177, 205, 127, 89, 142, 206, 35, 136, 27, 0, 227, 237, 3, 6, 136>>)
Ecb3 == B(<<123, 12, 120, 94, 39, 232, 173, 63, 130, 35, 32, 113, 4, 114, 93, 212>>)
Cbc0 == B(<<118, 73, 171, 172, 129, 25, 178, 70, 206, 233, 142, 155, 18, 233, 25, 125>>)
Cbc1 == B(<<80, 134, 203, 155, 80, 114, 25, 238, 149, 219, 17, 58, 145, 118, 120, 178>>)
Ctr0 == B(<<135, 77, 97, 145, 182, 32, 227, 38, 27, 239, 104, 100, 153, 13, 182, 206>>)
Ctr1 == B(<<152, 6, 246, 107, 121, 112, 253, 255, 134, 23, 24, 123, 185, 255, 253, 255>>)
CbcIv == B(<<0, 1, 2, 3, 4, 5, 6, 7, 8, 9, 10, 11, 12, 13, 14, 15>>)
CtrIv == B(<<240, 241, 242, 243, 244, 245, 246, 247, 248, 249, 250, 251, 252, 253, 254, 255>>)
Full == B([n \in 1..16 |-> 255])

Blocks(bs) == [n \in 0..Len(bs) - 1 |-> bs[n + 1]]
Two == Blocks(<<Plain0, Plain1>>)
\* the first five bytes of b, the rest of a
HeadOf(a, b) == [n \in 0..15 |-> IF n < 5 THEN b[n] ELSE a[n]]
Prog(calls, iv, out, data, known) ==
  [calls |-> calls, key |-> Key, iv |-> iv, out |-> out, buf |-> data,
   known |-> known]

Encrypt == Prog(TestEncryptEcb, CbcIv, Ecb0, Blocks(<<Plain0>>),
                (4 :> Blocks(<<Ecb0>>)))
Decrypt == Prog(TestDecryptEcb, CbcIv, Plain0, Blocks(<<Ecb0>>),
                (3 :> Blocks(<<Plain0>>)))
Verbose == Prog(TestEncryptEcbVerbose, CbcIv, Ecb0,
                Blocks(<<Plain0, Plain1, Plain2, Plain3>>),
                (10 :> Blocks(<<Ecb0, Ecb1, Ecb2, Ecb3>>)))

\* the whole buffer in one call, and back
CbcWhole ==
  Prog(<<Call("init_iv", 0, 0), Call("cbc_encrypt", 0, 32), Call("set_iv", 0, 0),
         Call("cbc_decrypt", 0, 32)>>, CbcIv, Ecb0, Two,
       (3 :> Blocks(<<Cbc0, Cbc1>>)) @@ (5 :> Two))
\* block by block
CbcParts ==
  Prog(<<Call("init_iv", 0, 0), Call("cbc_encrypt", 0, 16),
         Call("cbc_encrypt", 1, 16), Call("set_iv", 0, 0),
         Call("cbc_decrypt", 0, 16), Call("cbc_decrypt", 1, 16)>>,
       CbcIv, Ecb0, Two, (4 :> Blocks(<<Cbc0, Cbc1>>)) @@ (7 :> Two))
\* a block and five bytes, and back
CtrWhole ==
  Prog(<<Call("init_iv", 0, 0), Call("ctr", 0, 21), Call("set_iv", 0, 0),
         Call("ctr", 0, 21)>>, CtrIv, Ecb0, Two,
       (3 :> Blocks(<<Ctr0, HeadOf(Plain1, Ctr1)>>)) @@ (5 :> Two))
CtrParts ==
  Prog(<<Call("init_iv", 0, 0), Call("ctr", 0, 16), Call("checkpoint", 0, 0),
         Call("ctr", 1, 16), Call("set_iv", 0, 0), Call("ctr", 0, 32)>>,
       CtrIv, Ecb0, Two, (5 :> Blocks(<<Ctr0, Ctr1>>)) @@ (7 :> Two))
\* a rollback between two lines, and text that waits for the end of its line
Waits ==
  Prog(<<Printf("first", FALSE), Call("checkpoint", 0, 0), Printf("second", FALSE),
         Printf("third", TRUE), Printf("lost", FALSE)>>,
       CbcIv, Ecb0, Blocks(<<Plain0>>), (6 :> Blocks(<<Plain0>>)))
\* a counter that wraps
CtrWrap ==
  Prog(<<Call("init_iv", 0, 0), Call("ctr", 0, 32), Call("set_iv", 0, 0),
         Call("ctr", 0, 32)>>, Full, Ecb0, Two, (5 :> Two))

\* system calls, and an end by abort in the middle of the program
System(call) == [Call("system", 0, 0) EXCEPT !.text = call]
Aborts ==
  Prog(<<Call("checkpoint", 0, 0), Printf("open", TRUE), System("open"),
         System("getcwd"), System("read"), System("access"), System("raise"),
         Call("abort", 0, 0), Printf("not reached", TRUE)>>,
       CbcIv, Ecb0, Blocks(<<Plain0>>), (8 :> Blocks(<<Plain0>>)))

MCPrograms == {Encrypt, Decrypt, Verbose, CbcWhole, CbcParts, CtrWhole, CtrParts,
               CtrWrap, Aborts, Waits}
\* no heap, room for one buffer of four bytes, or for three
MCHeapEnds == {8, 14, 24}
=============================================================================
