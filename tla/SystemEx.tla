----------------------------- MODULE SystemEx ------------------------------
(***************************************************************************)
(* utils_system_ex (Template2/sys_utils.cpp, and the same function in      *)
(* Template1/popen.c): run a shell command, collect what it prints.        *)
(*                                                                         *)
(* Of the output only the number of bytes matters, of the caller's buffer  *)
(* how many bytes of output it holds and where it was terminated.  errno   *)
(* is not reset before fread, which sets it only when a read fails.        *)
(***************************************************************************)
EXTENDS Integers

CONSTANTS
  max_size,   \* size of the caller's buffer
  MaxReads,   \* 30, the literal in the retry test
  MaxOutput   \* model bound: bytes a command prints

ASSUME SystemExAssumption ==
  /\ max_size \in Nat \ {0}
  /\ MaxReads \in Nat
  /\ MaxOutput \in Nat

VARIABLES
  output,   \* bytes the command prints before its end of file
  taken,    \* of these, read from the pipe
  errno, cnt, sizet,
  filled,   \* bytes of output that the last fread put into recv
  nul,      \* index of the terminator the function wrote, -1 if it did not
  lost,     \* history: a read failed after bytes of its call had been taken
  pipes,    \* history: streams opened and closed
  pc, ret

sysVars == <<output, taken, errno, cnt, sizet, filled, nul, lost, pipes, pc, ret>>

\* WIFEXITED and WEXITSTATUS of what pclose returns.
Status == {"exited 0", "exited other", "signalled", "error"}
check_shell_status(rv) == IF rv = "exited 0" THEN 0 ELSE -1

SysInit ==
  /\ output \in 0..MaxOutput
  /\ taken = 0
  /\ errno \in {"EINTR", "other"}
  /\ cnt = 0 /\ sizet = 0 /\ filled = 0 /\ nul = -1 /\ lost = FALSE
  /\ pipes = [opened |-> 0, closed |-> 0]
  /\ pc = "popen" /\ ret = 0

\* popen; nothing is read if no buffer is given (recv is NULL).
Popen(given) ==
  /\ pc = "popen"
  /\ \/ /\ ret' = -1 /\ pc' = "done" /\ UNCHANGED pipes
     \/ /\ pc' = IF given THEN "read" ELSE "pclose"
        /\ pipes' = [pipes EXCEPT !.opened = @ + 1] /\ UNCHANGED ret
  /\ UNCHANGED <<output, taken, errno, cnt, sizet, filled, nul, lost>>

\* Mutant: cnt starts again before it gets there.
Retry_Wraps(n, e) ==
  /\ cnt' = (cnt + 1) % MaxReads
  /\ sizet' = n
  /\ pc' = IF n = 0 /\ e = "EINTR" THEN "read" ELSE "terminate"

\* Mutant: a short read is repeated over what it read.
Retry_WhenShort(n, e) ==
  /\ cnt' = cnt + 1
  /\ sizet' = IF cnt' > MaxReads THEN 0 ELSE n
  /\ pc' = IF cnt' > MaxReads THEN "pclose" ELSE IF e = "EINTR" THEN "read" ELSE "terminate"

\* Mutant: a read that fails ends it all, before the terminator is written.
Retry_Unterminated(n, e) ==
  /\ cnt' = cnt + 1
  /\ sizet' = IF cnt' > MaxReads THEN 0 ELSE n
  /\ pc' = IF cnt' > MaxReads \/ e = "EINTR" THEN "pclose" ELSE "terminate"

\* What follows an fread of n bytes that left e in errno: the count goes first,
\* so that the last read is given up whatever it brought.
Retry(n, e) ==
  /\ cnt' = cnt + 1
  /\ sizet' = IF cnt' > MaxReads THEN 0 ELSE n
  /\ pc' = IF cnt' > MaxReads THEN "pclose"
           ELSE IF n = 0 /\ e = "EINTR" THEN "read" ELSE "terminate"

Lesser(a, b) == IF a < b THEN a ELSE b

\* fread: until the buffer is full or the output ends, errno untouched; or n
\* bytes, the next read of the pipe having failed with errno e.
Fread ==
  /\ pc = "read"
  /\ \/ LET n == Lesser(max_size, output - taken) IN
        /\ Retry(n, errno) /\ filled' = (IF n = 0 THEN filled ELSE n)
        /\ taken' = taken + n
        /\ UNCHANGED <<errno, lost>>
     \/ \E n \in 0..Lesser(max_size, output - taken), e \in {"EINTR", "other"} :
        /\ n < max_size
        /\ Retry(n, e) /\ filled' = (IF n = 0 THEN filled ELSE n)
        /\ taken' = taken + n
        /\ errno' = e /\ lost' = (lost \/ n > 0)
  /\ UNCHANGED <<output, nul, pipes, ret>>

\* Mutant: one byte too many is cut.
Terminate_CutsTwo ==
  /\ pc = "terminate"
  /\ sizet' = IF sizet >= max_size - 1 THEN max_size - 2 ELSE sizet
  /\ nul' = sizet'
  /\ pc' = "pclose"
  /\ UNCHANGED <<output, taken, errno, cnt, filled, lost, pipes, ret>>

Terminate ==
  /\ pc = "terminate"
  /\ sizet' = IF sizet >= max_size THEN max_size - 1 ELSE sizet
  /\ nul' = sizet'
  /\ pc' = "pclose"
  /\ UNCHANGED <<output, taken, errno, cnt, filled, lost, pipes, ret>>

Pclose ==
  /\ pc = "pclose"
  /\ \E rv \in Status : ret' = IF check_shell_status(rv) = 0 THEN sizet ELSE -1
  /\ pipes' = [pipes EXCEPT !.closed = @ + 1]
  /\ pc' = "done"
  /\ UNCHANGED <<output, taken, errno, cnt, sizet, filled, nul, lost>>

SysNext == (\E given \in BOOLEAN : Popen(given)) \/ Fread \/ Terminate \/ Pclose
SysSpec == SysInit /\ [][SysNext]_sysVars

-----------------------------------------------------------------------------
(* Properties                                                               *)

\* Type correctness: the terminator lies inside the buffer.
SysTypeOK ==
  /\ output \in 0..MaxOutput /\ taken \in 0..output
  /\ errno \in {"EINTR", "other"}
  /\ cnt \in 0..MaxReads + 1
  /\ sizet \in 0..max_size /\ filled \in 0..max_size
  /\ nul \in -1..max_size - 1
  /\ lost \in BOOLEAN
  /\ pipes \in [opened : 0..1, closed : 0..1]
  /\ pc \in {"popen", "read", "terminate", "pclose", "done"}
  /\ ret \in -1..max_size

\* A positive result is a string: the first ret bytes of the output, terminated
\* behind them and inside the buffer, however many reads were interrupted before
\* (sys_utils.cpp:58-71).
PositiveIsPrefix ==
  pc = "done" /\ ret > 0 => nul = ret /\ ret <= filled /\ filled = taken /\ ret < max_size

\* Output is missing from a positive result only if it did not fit, or if a read
\* failed: a short read that was interrupted counts as the end of the output
\* (sys_utils.cpp:68).
ShortOnlyWhenFullOrFailed ==
  pc = "done" /\ ret > 0 /\ ret < output => ret = max_size - 1 \/ lost

\* Where the function returns without terminating what it read, it has read
\* MaxReads + 1 times (or was given no buffer): only then can the result 0 stand
\* for a buffer that holds output (sys_utils.cpp:61-66).
UnterminatedOnlyWhenGivenUp ==
  pc = "done" /\ filled > 0 /\ nul = -1 => cnt = MaxReads + 1 /\ ret <= 0

\* Every stream popen gave is given back to pclose, once, on every path.
ClosesItsPipe == pc = "done" => pipes.closed = pipes.opened

\* The function returns once its command has ended, even if errno says EINTR for
\* ever because an earlier call left it so (sys_utils.cpp:61, 68).
Returns == pc = "read" ~> pc = "done"
=============================================================================
