-------------------------------- MODULE AesApp --------------------------------
(***************************************************************************)
(* A program that uses aes.c on a core or on a group of cores, as the      *)
(* tests of AES_app/main.c do: a sequence of calls of the AES library, of  *)
(* printf and of Store_Checkpoint, with the AES functions one round at a   *)
(* time.  After a mismatch the group goes on from the checkpoint with the  *)
(* registers and the stack of that moment (module Checkpoint); the static  *)
(* data of the C library stay as they are.                                 *)
(***************************************************************************)
EXTENDS Aes, Libc

CONSTANTS
  Programs,     \* the programs, see Program
  MaxRollbacks, \* how often a group is rolled back
  MaxTraps,     \* how many exceptions are taken
  Causes        \* with which values of mcause & kIdMax

exc_id == [kInstMisa |-> 0, kInstAccFault |-> 1, kInstIllegalFault |-> 2,
           kBkpt |-> 3, kLoadAccFault |-> 5, kStrAccFault |-> 7, kECall |-> 11,
           kIdMax |-> 31]

\* A call is a record with the operation op, the block it starts with, how
\* many bytes it works on, and for print the text and whether the line ends.
\* A program has these calls, a key, an initialisation vector, its buffer, the
\* block a test compares with, and what the buffer is known to hold when the
\* program comes to some of its calls.
Ops == {"checkpoint", "init", "init_iv", "set_iv", "ecb_encrypt", "ecb_decrypt",
        "cbc_encrypt", "cbc_decrypt", "ctr", "memcmp", "print",
        "verdict", "success", "system", "abort"}
BlockOps == {"ecb_encrypt", "ecb_decrypt", "cbc_encrypt", "cbc_decrypt", "ctr"}

\* A call of AES works on some bytes, and on blocks of the caller's buffer.
InBuffer(c, buffer) ==
  /\ c.bytes > 0
  /\ c.first..c.first + (c.bytes - 1) \div 16 \subseteq DOMAIN buffer

Program(p) ==
  /\ p.calls \in Seq([op : Ops, first : Nat, bytes : Nat, text : STRING,
                      newline : BOOLEAN])
  /\ \A n \in DOMAIN p.calls :
       /\ p.calls[n].op = "system" => p.calls[n].text \in SystemCall
       /\ p.calls[n].op \in BlockOps => InBuffer(p.calls[n], p.buf)
  /\ p.key \in Block /\ p.iv \in Block /\ p.out \in Block
  /\ DOMAIN p.buf \subseteq Nat /\ p.buf \in [DOMAIN p.buf -> Block]
  /\ DOMAIN p.known \subseteq Nat

ASSUME AesAppAssumption ==
  /\ \A p \in Programs : Program(p)
  /\ MaxRollbacks \in Nat /\ MaxTraps \in Nat
  /\ Causes \subseteq 0..exc_id.kIdMax

\* The tests of main.c, and its verbose example; phex ends a line per block.
Call(op, first, bytes) ==
  [op |-> op, first |-> first, bytes |-> bytes, text |-> "", newline |-> TRUE]
Printf(text, newline) ==
  [op |-> "print", first |-> 0, bytes |-> 0, text |-> text, newline |-> newline]

TestEncryptEcb == <<Call("checkpoint", 0, 0), Call("init", 0, 0),
  Call("ecb_encrypt", 0, 16), Call("memcmp", 0, 0), Call("verdict", 0, 0)>>

TestDecryptEcb == <<Call("init", 0, 0), Call("ecb_decrypt", 0, 16),
  Printf("ECB decrypt: ", FALSE), Call("memcmp", 0, 0), Call("success", 0, 0)>>

TestEncryptEcbVerbose ==
  <<Printf("head", TRUE), Call("init", 0, 0),
    Call("ecb_encrypt", 0, 16), Printf("row 0", TRUE),
    Call("ecb_encrypt", 1, 16), Printf("row 1", TRUE),
    Call("ecb_encrypt", 2, 16), Printf("row 2", TRUE),
    Call("ecb_encrypt", 3, 16), Printf("row 3", TRUE)>>

VARIABLES
  prog,         \* the program
  at,           \* the call it is at
  label,        \* where it is in that call
  round,        \* round, or word of the key schedule
  cur,          \* block the call is working on
  RoundKey,     \* ctx, on the stack
  Iv,
  buf,          \* the caller's buffer, on the stack, by block
  local,        \* the callee's own block: buffer of CTR, storeNextIv of CBC
  got,          \* register: what _sbrk answered
  status,       \* what memcmp said
  saved,        \* the checkpoint: a record of the above; at 0 if none
  rollbacks, traps,
  trace         \* history: trace[b][r], block b after round r of Cipher

stack == <<at, label, round, cur, RoundKey, Iv, buf, local, got, status>>
vars == <<prog, stack, libc, saved, rollbacks, traps, trace>>

None == "none"
Zero == [n \in 0..15 |-> 0]
NoKey == [n \in 0..Nb * (Nr + 1) - 1 |-> [j \in 0..3 |-> 0]]
OpAt(n) == IF n \in DOMAIN prog.calls THEN prog.calls[n].op ELSE "exit"
FirstAt(n) == IF n \in DOMAIN prog.calls THEN prog.calls[n].first ELSE 0
Op == OpAt(at)
First == FirstAt(at)
Bytes == prog.calls[at].bytes

Init ==
  /\ prog \in Programs
  /\ at = 1 /\ label = "call" /\ round = 0 /\ cur = FirstAt(1)
  /\ RoundKey = NoKey /\ Iv = Zero /\ buf = prog.buf /\ local = Zero
  /\ got = Null /\ status = None
  /\ LibcInit
  /\ saved = [at |-> 0] /\ rollbacks = 0 /\ traps = 0 /\ trace = <<>>

\* the call returns
Return ==
  /\ at' = at + 1 /\ label' = "call" /\ round' = 0 /\ cur' = FirstAt(at + 1)

\* the loop over the blocks of a buffer goes on, or ends and the call returns
More == 16 * (cur + 1 - First) < Bytes
NextBlock ==
  IF More THEN at' = at /\ label' = "call" /\ round' = 0 /\ cur' = cur + 1
  ELSE Return

Control == <<at, label, round, cur>>
Rest == <<prog, saved, rollbacks, traps>>

-----------------------------------------------------------------------------
(* AES_init_ctx, AES_init_ctx_iv, AES_ctx_set_iv.                          *)

KeyCopy ==
  /\ Op \in {"init", "init_iv"} /\ label = "call"
  /\ RoundKey' = [n \in DOMAIN RoundKey |-> IF n < Nk THEN KeyCopied(prog.key)[n]
                                           ELSE RoundKey[n]]
  /\ label' = "words" /\ round' = Nk
  /\ UNCHANGED <<at, cur, Iv, buf, local, got, status, libc, Rest, trace>>

\* mutated: one word too many
KeyExpansionLong ==
  /\ label = "words"
  /\ RoundKey' = [RoundKey EXCEPT ![round] = KeyWord(RoundKey, round)]
  /\ IF round < Nb * (Nr + 1)
     THEN round' = round + 1 /\ UNCHANGED <<at, label, cur, Iv>>
     ELSE Return /\ Iv' = IF Op = "init_iv" THEN prog.iv ELSE Iv
  /\ UNCHANGED <<buf, local, got, status, libc, Rest, trace>>

\* mutated: the loop's condition never fails
KeyExpansionEndless ==
  /\ label = "words"
  /\ RoundKey' = [RoundKey EXCEPT ![round] = KeyWord(RoundKey, round)]
  /\ round' = IF round + 1 < Nb * (Nr + 1) THEN round + 1 ELSE Nk
  /\ UNCHANGED <<at, label, cur, Iv, buf, local, got, status, libc, Rest, trace>>

KeyExpansion ==
  /\ label = "words"
  /\ RoundKey' = [RoundKey EXCEPT ![round] = KeyWord(RoundKey, round)]
  /\ IF round + 1 < Nb * (Nr + 1)
     THEN round' = round + 1 /\ UNCHANGED <<at, label, cur, Iv>>
     ELSE Return /\ Iv' = IF Op = "init_iv" THEN prog.iv ELSE Iv
  /\ UNCHANGED <<buf, local, got, status, libc, Rest, trace>>

SetIv ==
  /\ Op = "set_iv" /\ Iv' = prog.iv
  /\ Return
  /\ UNCHANGED <<RoundKey, buf, local, got, status, libc, Rest, trace>>

-----------------------------------------------------------------------------
(* Cipher, in place on a block of the buffer, or on CTR's own block.       *)

Encrypting == Op \in {"ecb_encrypt", "cbc_encrypt", "ctr"}
State == IF Op = "ctr" THEN local ELSE buf[cur]
SetState(state) ==
  IF Op = "ctr" THEN local' = state /\ UNCHANGED buf
  ELSE buf' = [buf EXCEPT ![cur] = state] /\ UNCHANGED local

\* CBC chains with the block before, which is where its pointer Iv points
Chained == XorBlocks(buf[cur], IF cur = First THEN Iv ELSE buf[cur - 1])

Whiten ==
  /\ Encrypting /\ label = "call"
  /\ LET state == CASE Op = "ecb_encrypt" -> buf[cur]
                    [] Op = "cbc_encrypt" -> Chained
                    [] Op = "ctr"         -> Iv
         first == AddRoundKey(0, state, RoundKey)
     IN /\ SetState(first)
        /\ trace' = IF Op = "ctr" THEN trace
                    ELSE [b \in DOMAIN trace \cup {cur} |->
                            IF b = cur THEN [r \in {0} |-> first] ELSE trace[b]]
  /\ label' = "rounds" /\ round' = 1
  /\ UNCHANGED <<at, cur, RoundKey, Iv, got, status, libc, Rest>>

CipherStep ==
  /\ Encrypting /\ label = "rounds"
  /\ LET next == CipherRound(round, State, RoundKey)
     IN /\ SetState(next)
        /\ trace' = IF Op = "ctr" THEN trace
                    ELSE [trace EXCEPT ![cur] =
                            [r \in 0..round |-> IF r = round THEN next ELSE @[r]]]
  /\ IF round = Nr THEN label' = "out" /\ UNCHANGED round
     ELSE round' = round + 1 /\ UNCHANGED label
  /\ UNCHANGED <<at, cur, RoundKey, Iv, got, status, libc, Rest>>

EcbOut ==
  /\ Op \in {"ecb_encrypt", "ecb_decrypt"} /\ label = "out"
  /\ Return
  /\ UNCHANGED <<RoundKey, Iv, buf, local, got, status, libc, Rest, trace>>

\* mutated: the Iv is not kept for the next call
CbcOutForgets ==
  /\ Op = "cbc_encrypt" /\ label = "out"
  /\ NextBlock
  /\ UNCHANGED <<RoundKey, Iv, buf, local, got, status, libc, Rest, trace>>

\* the last block becomes the Iv of the next call
CbcOut ==
  /\ Op = "cbc_encrypt" /\ label = "out"
  /\ NextBlock
  /\ Iv' = IF More THEN Iv ELSE buf[cur]
  /\ UNCHANGED <<RoundKey, buf, local, got, status, libc, Rest, trace>>

\* bytes of the buffer that belong to the call are masked, and Iv counts
CtrOut ==
  /\ Op = "ctr" /\ label = "out"
  /\ buf' = [buf EXCEPT ![cur] =
               [n \in 0..15 |-> IF 16 * (cur - First) + n < Bytes
                                THEN Xor(@[n], local[n]) ELSE @[n]]]
  /\ Iv' = Increment(Iv)
  /\ NextBlock
  /\ UNCHANGED <<RoundKey, local, got, status, libc, Rest, trace>>

-----------------------------------------------------------------------------
(* InvCipher.                                                              *)

Decrypting == Op \in {"ecb_decrypt", "cbc_decrypt"}

InvWhiten ==
  /\ Decrypting /\ label = "call"
  /\ local' = IF Op = "cbc_decrypt" THEN buf[cur] ELSE local
  /\ buf' = [buf EXCEPT ![cur] = AddRoundKey(Nr, @, RoundKey)]
  /\ label' = "rounds" /\ round' = Nr - 1
  /\ UNCHANGED <<at, cur, RoundKey, Iv, got, status, libc, Rest, trace>>

InvCipherStep ==
  /\ Decrypting /\ label = "rounds"
  /\ buf' = [buf EXCEPT ![cur] = InvCipherRound(round, @, RoundKey)]
  /\ IF round = 0 THEN label' = "out" /\ UNCHANGED round
     ELSE round' = round - 1 /\ UNCHANGED label
  /\ UNCHANGED <<at, cur, RoundKey, Iv, local, got, status, libc, Rest, trace>>

InvCbcOut ==
  /\ Op = "cbc_decrypt" /\ label = "out"
  /\ buf' = [buf EXCEPT ![cur] = XorBlocks(@, Iv)]
  /\ Iv' = local
  /\ NextBlock
  /\ UNCHANGED <<RoundKey, local, got, status, libc, Rest, trace>>

-----------------------------------------------------------------------------
(* The rest of the program: memcmp with the expected block, printf.        *)

Memcmp ==
  /\ Op = "memcmp"
  /\ status' = IF buf[0] = prog.out THEN "success" ELSE "failure"
  /\ Return
  /\ UNCHANGED <<RoundKey, Iv, buf, local, got, libc, Rest, trace>>

\* both tests print SUCCESS!, one of them FAILURE!, too
Printing == Op \in {"print", "verdict"} \/ (Op = "success" /\ status = Op)
Text(n) == IF OpAt(n) = "print" THEN prog.calls[n].text ELSE status

PrintSetup ==
  /\ Printing /\ label = "call" /\ stdout = "new"
  /\ AskBuffer /\ got' = SbrkReturns(BufSize)
  /\ label' = "record"
  /\ UNCHANGED <<at, round, cur, RoundKey, Iv, buf, local, status, Rest, trace>>

PrintRecord ==
  /\ Printing /\ label = "record"
  /\ SetBuffer(got)
  /\ label' = "call"
  /\ UNCHANGED <<at, round, cur, RoundKey, Iv, buf, local, got, status, Rest, trace>>

PrintPut ==
  /\ Op \in {"print", "verdict", "success"} /\ label = "call"
  /\ IF Printing THEN Put(Text(at), prog.calls[at].newline) ELSE UNCHANGED libc
  /\ Return
  /\ UNCHANGED <<RoundKey, Iv, buf, local, got, status, Rest, trace>>

SystemStub ==
  /\ Op = "system"
  /\ Stub(prog.calls[at].text)
  /\ Return
  /\ UNCHANGED <<RoundKey, Iv, buf, local, got, status, Rest, trace>>

\* abort goes to _exit, as the end of main does
Abort ==
  /\ Op = "abort"
  /\ at' = Len(prog.calls) + 1
  /\ UNCHANGED <<label, round, cur, RoundKey, Iv, buf, local, got, status, libc,
                 Rest, trace>>

-----------------------------------------------------------------------------
(* Store_Checkpoint, a rollback to it, exceptions, the end.                *)

StoreCheckpoint ==
  /\ Op = "checkpoint"
  /\ Return
  /\ saved' = [at |-> at + 1, cur |-> FirstAt(at + 1), RoundKey |-> RoundKey,
               Iv |-> Iv, buf |-> buf, local |-> local, got |-> got,
               status |-> status]
  /\ UNCHANGED <<prog, RoundKey, Iv, buf, local, got, status, libc, rollbacks,
                 traps, trace>>

\* mutated: the buffer keeps what was computed since the checkpoint
RollbackInPlace ==
  /\ saved.at # 0 /\ Op # "exit" /\ rollbacks < MaxRollbacks
  /\ at' = saved.at /\ label' = "call" /\ round' = 0 /\ cur' = saved.cur
  /\ RoundKey' = saved.RoundKey /\ Iv' = saved.Iv
  /\ got' = saved.got /\ status' = saved.status
  /\ rollbacks' = rollbacks + 1
  /\ UNCHANGED <<prog, buf, local, libc, saved, traps, trace>>

Rollback ==
  /\ saved.at # 0 /\ Op # "exit" /\ rollbacks < MaxRollbacks
  /\ at' = saved.at /\ label' = "call" /\ round' = 0 /\ cur' = saved.cur
  /\ RoundKey' = saved.RoundKey /\ Iv' = saved.Iv
  /\ buf' = saved.buf /\ local' = saved.local
  /\ got' = saved.got /\ status' = saved.status
  /\ rollbacks' = rollbacks + 1
  /\ UNCHANGED <<prog, libc, saved, traps, trace>>

\* handler_exception: the handler of the cause prints, and spins
Message(cause) ==
  CASE cause \in {exc_id.kInstMisa, exc_id.kInstAccFault}     -> "instr_acc_fault"
    [] cause = exc_id.kInstIllegalFault                       -> "instr_ill_fault"
    [] cause = exc_id.kBkpt                                   -> "bkpt"
    [] cause \in {exc_id.kLoadAccFault, exc_id.kStrAccFault} -> "lsu_fault"
    [] cause = exc_id.kECall                                  -> "ecall"
    [] OTHER                                                  -> None

Trap(cause) ==
  /\ label # "spin" /\ Op # "exit" /\ traps < MaxTraps
  /\ label' = "spin" /\ traps' = traps + 1
  /\ IF Message(cause) = None THEN UNCHANGED libc ELSE WriteStr(Message(cause))
  /\ UNCHANGED <<prog, at, round, cur, RoundKey, Iv, buf, local, got, status,
                 saved, rollbacks, trace>>

\* main returns EXIT_SUCCESS whatever memcmp said, and crt0 goes to _exit
Exited == Op = "exit"
Spinning == label = "spin"
Finished == (Exited \/ Spinning) /\ UNCHANGED vars

Run ==
  /\ label # "spin"
  /\ \/ KeyCopy \/ KeyExpansion \/ SetIv
     \/ Whiten \/ CipherStep \/ EcbOut \/ CbcOut \/ CtrOut
     \/ InvWhiten \/ InvCipherStep \/ InvCbcOut
     \/ Memcmp \/ PrintSetup \/ PrintRecord \/ PrintPut
     \/ SystemStub \/ Abort
     \/ StoreCheckpoint

Next == Run \/ Rollback \/ (\E cause \in Causes : Trap(cause)) \/ Finished
Spec == Init /\ [][Next]_vars /\ WF_vars(Run)

-----------------------------------------------------------------------------
(* Properties.                                                             *)

TypeOK ==
  /\ prog \in Programs /\ at \in 1..Len(prog.calls) + 1
  /\ label \in {"call", "words", "rounds", "out", "record", "spin"}
  /\ round \in 0..Nb * (Nr + 1) - 1 /\ cur \in Nat
  /\ RoundKey \in [0..Nb * (Nr + 1) - 1 -> Word]
  /\ Iv \in Block /\ local \in Block
  /\ buf \in [DOMAIN prog.buf -> Block]
  /\ got \in 0..2^AddrBits - 1 /\ status \in {None, "success", "failure"}
  /\ heapEnd \in HeapEnds /\ brk \in HeapStart..heapEnd
  /\ blocks \in Seq(0..2^AddrBits - 1)
  /\ stdout \in {"new", "unbuffered", "line", "full"}
  /\ errno \in {"0", "ENOSYS", "-ENOSYS"} \cup {Reasons[c] : c \in DOMAIN Reasons}
  /\ rollbacks \in 0..MaxRollbacks /\ traps \in 0..MaxTraps

\* The buffer holds, when the program comes to a call, what the published
\* vectors say it does there: the ECB vectors of aes.c and main.c, and the CBC
\* and CTR vectors of the standard aes.c names, in one call or several, with a
\* last block that is not full, and the plain text again after the way back.
KnownAnswers ==
  label = "call" /\ cur = First /\ at \in DOMAIN prog.known =>
    buf = prog.known[at]

\* InvCipher passes backwards through the states Cipher went through: before
\* its round r the block is what Cipher had made of it in round r, with the
\* bytes substituted and the rows shifted.
InverseTracks ==
  Decrypting /\ label = "rounds" /\ cur \in DOMAIN trace =>
    buf[cur] = ShiftRows(SubBytes(trace[cur][round]))

\* The tables and the field multiplication agree with their definition.
TablesAreRijndael == at = 1 /\ label = "call" => TablesHold

\* The comparison of a test succeeds, also when the group was rolled back in
\* the middle of the computation, which is done in place on the stack.
SuccessWhateverRollback == status # "failure"

\* What a program has printed has reached _write when it ends, if the end of a
\* line was printed with it or after it, by whatever call and however often the
\* group was rolled back in between: nobody flushes stdout, _exit is called
\* without exit(), and the text that waits in it is not rolled back.  What the
\* tests print of their status is what it is at the end, if no comparison
\* changes it after that.
Reached(n) == \A m \in 1..n : OpAt(m) # "abort"
Prints(n) ==
  \/ OpAt(n) = "print"
  \/ /\ OpAt(n) = "verdict" \/ (OpAt(n) = "success" /\ status = "success")
     /\ \A m \in n..Len(prog.calls) : OpAt(m) # "memcmp"
EndsLine(n) == Prints(n) /\ prog.calls[n].newline

OutputReachesWrite ==
  Exited => \A n \in DOMAIN prog.calls : \A m \in n..Len(prog.calls) :
              Reached(m) /\ Prints(n) /\ EndsLine(m) => Text(n) \in sent

\* In CTR mode the counter is a big-endian number that goes up by one with
\* each block, and wraps; a rollback takes it back.
CounterCounts ==
  [][Op = "ctr" /\ Iv' # Iv /\ rollbacks' = rollbacks =>
       \A n \in 0..15 :
         Iv'[n] = (Iv[n] + (IF \A m \in n + 1..15 : Iv[m] = 255 THEN 1 ELSE 0)) % 256]_vars

\* Every program comes to its end, or spins in an exception handler.
JobEnds == <>[](Exited \/ Spinning)
=============================================================================
