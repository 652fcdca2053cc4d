--------------------------------- MODULE Libc ---------------------------------
(***************************************************************************)
(* The C library of a program: the system calls of syscalls.c and, above   *)
(* them, as much of newlib's printf as decides which of them are made.     *)
(* All of this is static data: a rollback restores registers and stack     *)
(* and leaves it as it is, so each step is one that a rollback may follow. *)
(***************************************************************************)
EXTENDS Integers, Sequences

CONSTANTS
  AddrBits,     \* width of an address
  HeapStart,    \* __heap_start
  HeapEnds,     \* values of __heap_end a link may give, from __heap_start on
  BufSize       \* bytes newlib asks for the buffer of stdout

ASSUME LibcAssumption ==
  /\ AddrBits \in Nat /\ HeapStart \in Nat /\ BufSize \in Nat
  /\ 2^AddrBits \in Nat         \* which the provers do not know
  /\ 0 < BufSize /\ BufSize < 2^AddrBits
  /\ HeapEnds \subseteq HeapStart..2^AddrBits - 1
  /\ \A end \in HeapEnds : BufSize + end - HeapStart <= 2^AddrBits

VARIABLES
  heapEnd,      \* __heap_end, fixed when the program is linked
  brk,          \* end of the part of the heap that is in use
  blocks,       \* history: what _sbrk answered to the requests for a buffer
  stdout,       \* "new", "unbuffered", "line" or "full"
  pending,      \* pieces of text in the buffer of stdout
  sent,         \* pieces of text _write was called with
  errno         \* why a system call failed last

libc == <<heapEnd, brk, blocks, stdout, pending, sent, errno>>
stream == <<stdout, pending, sent>>

LibcInit ==
  /\ heapEnd \in HeapEnds /\ brk = HeapStart
  /\ blocks = <<>>
  /\ stdout = "new" /\ pending = {} /\ sent = {}
  /\ errno = "0"

-----------------------------------------------------------------------------
(* System calls.                                                           *)

Null == 0
Failed == 2^AddrBits - 1        \* (void *)-1

Moved(incr) == (brk + incr) % 2^AddrBits
Fits(incr) == HeapStart # heapEnd /\ Moved(incr) \in HeapStart..heapEnd - 1

\* mutated: the answer is the break after the call
SbrkReturnsNew(incr) ==
  IF HeapStart = heapEnd THEN Null
  ELSE IF Fits(incr) THEN Moved(incr) ELSE Failed

\* _sbrk: an empty heap is answered by NULL, which is not its error code
SbrkReturns(incr) ==
  IF HeapStart = heapEnd THEN Null
  ELSE IF Fits(incr) THEN brk ELSE Failed
SbrkBrk(incr) == IF Fits(incr) THEN Moved(incr) ELSE brk

\* mutated: stdout is not taken for a terminal
IsattyStderr(file) == file = 2

STDOUT_FILENO == 1
Isatty(file) == file = STDOUT_FILENO
CharacterDevice == TRUE         \* what _fstat says of every file: S_IFCHR

\* _write: the console is compiled out and the function ends without a return
\* statement.  Whatever the caller finds in a0 only decides how often newlib
\* calls again for the same text and an error flag nobody reads.
Write(file, text) == sent' = IF file = STDOUT_FILENO THEN sent \cup text ELSE sent

\* The calls that have no service behind them all return at once. Most say why
\* they failed; two of them with the sign of the Linux system call.
Unsupported == {"nanosleep", "access", "chdir", "chmod", "chown", "faccessat",
                "fstatat", "ftime", "lstat", "openat", "utime"}
Negated == {"getcwd", "gettimeofday"}
FailsSilently == {"close", "open", "sysconf", "times"}
Succeeds == {"getpid", "lseek", "read", "stat"}
Reasons == [execve |-> "ENOMEM", fork |-> "EAGAIN", kill |-> "EINVAL",
            raise |-> "EINVAL", link |-> "EMLINK", unlink |-> "ENOENT",
            wait |-> "ECHILD"]
SystemCall == Unsupported \cup Negated \cup FailsSilently \cup Succeeds
              \cup DOMAIN Reasons

Stub(call) ==
  /\ errno' = CASE call \in Unsupported    -> "ENOSYS"
                [] call \in Negated        -> "-ENOSYS"
                [] call \in DOMAIN Reasons -> Reasons[call]
                [] OTHER                   -> errno
  /\ UNCHANGED <<heapEnd, brk, blocks, stream>>

-----------------------------------------------------------------------------
(* newlib, on the first use of stdout: _fstat, then malloc, then _isatty.  *)
(* A buffer that malloc got is forgotten if the caller is rolled back      *)
(* before it is recorded in the stream.                                    *)

AskBuffer ==
  /\ stdout = "new"
  /\ blocks' = IF SbrkReturns(BufSize) = Failed THEN blocks
               ELSE Append(blocks, SbrkReturns(BufSize))
  /\ brk' = SbrkBrk(BufSize)
  /\ UNCHANGED <<heapEnd, stream, errno>>

SetBuffer(got) ==
  /\ stdout = "new"
  /\ stdout' = IF got = Failed THEN "unbuffered"
               ELSE IF CharacterDevice /\ Isatty(STDOUT_FILENO) THEN "line"
               ELSE "full"
  /\ UNCHANGED <<heapEnd, brk, blocks, pending, sent, errno>>

\* text goes to _write at the end of a line, or at once
Put(piece, newline) ==
  /\ stdout # "new"
  /\ IF stdout = "unbuffered" \/ (stdout = "line" /\ newline)
     THEN Write(STDOUT_FILENO, pending \cup {piece}) /\ pending' = {}
     ELSE pending' = pending \cup {piece} /\ UNCHANGED sent
  /\ UNCHANGED <<heapEnd, brk, blocks, stdout, errno>>

\* _writestr, from an exception handler: past the stream
WriteStr(piece) ==
  /\ Write(STDOUT_FILENO, {piece})
  /\ UNCHANGED <<heapEnd, brk, blocks, stdout, pending, errno>>

-----------------------------------------------------------------------------
(* Properties.                                                             *)

\* Every buffer that was handed out lies in the heap below the break, and no
\* two of them overlap, however often printf was cut off by a rollback.  An
\* empty heap is the exception: malloc is given address 0.
BlocksApart ==
  HeapStart # heapEnd =>
    /\ \A i \in DOMAIN blocks : /\ HeapStart <= blocks[i]
                                /\ blocks[i] + BufSize <= brk
    /\ \A i, j \in DOMAIN blocks : i < j => blocks[i] + BufSize <= blocks[j]
    /\ brk < heapEnd
=============================================================================
