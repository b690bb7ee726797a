------------------------------ MODULE ChrdevBuf ------------------------------
(***************************************************************************)
(* m_read and m_write of example 05 (Kernel_Buoi 13, 05-fops-rw/exam.c):   *)
(* programs read and write the one buffer of the module, each through its  *)
(* own open file, at the file's offset or with pread() and pwrite() at any *)
(* other.  Nothing locks the buffer, so a call is two or three steps: the  *)
(* length is computed from m_dev.size and the offset, the bytes are copied,*)
(* a write sets m_dev.size.  Lengths are unsigned and wrap at Span.        *)
(***************************************************************************)
EXTENDS Integers

CONSTANTS Caller,    \* programs, each with one file at a time
          Area,      \* bytes of the buffer, NPAGES * PAGE_SIZE
          Half,      \* values of a loff_t that are not negative, 2^63
          CopyMax,   \* the most that the kernel asks for or copies, INT_MAX
          Size,      \* sizes that read() and write() are called with
          Offset     \* offsets that pread() and pwrite() are called with

ASSUME BufAssumption == /\ Area \in Nat \ {0} /\ CopyMax \in Nat /\ Half \in Nat
                        /\ Area <= CopyMax /\ CopyMax < Half
                        /\ Size \subseteq 0 .. CopyMax /\ Offset \subseteq 0 .. Half - 1
                        /\ "junk" \notin Caller

VARIABLES
  size,     \* m_dev.size
  mem,      \* the buffer: who wrote each byte; "zero" after memset, and
            \* "junk" until then
  off,      \* user -> the offset of its file, or Shut if it has none open
  call,     \* user -> the call it is in: where, *offset, the length, and
            \* whether the offset is the file's
  alone     \* history: user -> since it opened its file no other was open,
            \* and it has used no pwrite()

bufVars == <<size, mem, off, call, alone>>

Bytes == 0 .. (Area - 1)
Span  == 2 * Half        \* values of a size_t
Shut  == -1
Idle  == [at |-> "user", pos |-> 0, len |-> 0, own |-> FALSE]

BufInit ==
  /\ size = 0 /\ mem = [b \in Bytes |-> "junk"]
  /\ off = [u \in Caller |-> Shut] /\ call = [u \in Caller |-> Idle]
  /\ alone = [u \in Caller |-> FALSE]

At(u, l)   == call[u].at = l
Becomes(u, c) == call' = [call EXCEPT ![u] = c]
Upto(u)    == call[u].pos + call[u].len

(* The kernel refuses what would end beyond the largest offset.            *)
Asks(u, n, o, own) ==
  /\ At(u, "user") /\ off[u] # Shut
  /\ own => o = off[u]
  /\ o + n < Half

(* Slip: the length of a write is not cut.                                 *)
WriteUncut(n, o) == n

(* size_t arithmetic: both differences wrap for an offset that is beyond.  *)
ToRead(n, o)  == LET room == (size - o) % Span IN IF n > room THEN room ELSE n
ToWrite(n, o) == IF (n + o) % Span > Area THEN (Area - o) % Span ELSE n

Open(u) ==
  /\ At(u, "user") /\ off[u] = Shut
  /\ off' = [off EXCEPT ![u] = 0]
  /\ alone' = [v \in Caller |-> v = u /\ \A w \in Caller : off[w] = Shut]
  /\ UNCHANGED <<size, mem, call>>

Close(u) ==
  /\ At(u, "user") /\ off[u] # Shut
  /\ off' = [off EXCEPT ![u] = Shut]
  /\ UNCHANGED <<size, mem, call, alone>>

Read(u, n, o, own) ==
  /\ Asks(u, n, o, own)
  /\ Becomes(u, [at |-> "copy_to_user", pos |-> o, len |-> ToRead(n, o), own |-> own])
  /\ UNCHANGED <<size, mem, off, alone>>

(* The copy stays in the buffer.                                           *)
Inside(u) == Upto(u) <= Area

(* copy_to_user may meet a bad address: -EFAULT, the offset stays.  Where  *)
(* it leaves the buffer it may also end the program, which the kernel's    *)
(* check of the object, or a fault, does.                                  *)
ReadCopy(u) ==
  /\ At(u, "copy_to_user") /\ Becomes(u, Idle)
  /\ \/ off' = IF call[u].own THEN [off EXCEPT ![u] = Upto(u)] ELSE off
     \/ UNCHANGED off
     \/ ~Inside(u) /\ off' = [off EXCEPT ![u] = Shut]
  /\ UNCHANGED <<size, mem, alone>>

(* Slip: only the bytes that are copied change.                            *)
WriteUnwiped(u, n, o, own) ==
  /\ Asks(u, n, o, own)
  /\ Becomes(u, [at |-> "copy_from_user", pos |-> o, len |-> ToWrite(n, o), own |-> own])
  /\ alone' = [alone EXCEPT ![u] = @ /\ own]
  /\ UNCHANGED <<size, mem, off>>

(* memset clears the whole buffer before the copy.                         *)
Write(u, n, o, own) ==
  /\ Asks(u, n, o, own)
  /\ Becomes(u, [at |-> "copy_from_user", pos |-> o, len |-> ToWrite(n, o), own |-> own])
  /\ mem' = [b \in Bytes |-> "zero"]
  /\ alone' = [alone EXCEPT ![u] = @ /\ own]
  /\ UNCHANGED <<size, off>>

(* n bytes come from user u; copy_from_user clears what it cannot copy.    *)
Fill(u, n) ==
  mem' = [b \in Bytes |->
            IF b \in call[u].pos .. call[u].pos + n - 1 THEN u
            ELSE IF b \in call[u].pos .. Upto(u) - 1 THEN "zero" ELSE mem[b]]

(* copy_from_user may fail after some bytes, and refuses a length that     *)
(* wrapped: -EFAULT, size and offset stay.                                 *)
WriteCopy(u) ==
  /\ At(u, "copy_from_user")
  /\ \/ /\ call[u].len <= CopyMax /\ Fill(u, call[u].len)
        /\ Becomes(u, [call[u] EXCEPT !.at = "set_size"])
     \/ /\ call[u].len <= CopyMax /\ \E n \in 0 .. call[u].len - 1 : Fill(u, n)
        /\ Becomes(u, Idle)
     \/ /\ call[u].len > CopyMax /\ UNCHANGED mem
        /\ Becomes(u, Idle)
  /\ UNCHANGED <<size, off, alone>>

(* Slip: the length is counted twice.                                      *)
SizeTwice(u) ==
  /\ At(u, "set_size") /\ Becomes(u, Idle)
  /\ size' = Upto(u) + call[u].len
  /\ off' = IF call[u].own THEN [off EXCEPT ![u] = Upto(u)] ELSE off
  /\ UNCHANGED <<mem, alone>>

WriteEnd(u) ==
  /\ At(u, "set_size") /\ Becomes(u, Idle)
  /\ size' = Upto(u)
  /\ off' = IF call[u].own THEN [off EXCEPT ![u] = Upto(u)] ELSE off
  /\ UNCHANGED <<mem, alone>>

BufNext == \E u \in Caller :
  \/ Open(u) \/ Close(u)
  \/ \E n \in Size : Read(u, n, off[u], TRUE) \/ Write(u, n, off[u], TRUE)
  \/ \E n \in Size, o \in Offset : Read(u, n, o, FALSE) \/ Write(u, n, o, FALSE)
  \/ ReadCopy(u) \/ WriteCopy(u) \/ WriteEnd(u)

BufSpec == BufInit /\ [][BufNext]_bufVars
-----------------------------------------------------------------------------
(* Type correctness of the buffer and the calls in progress; the size      *)
(* never exceeds the buffer, though offsets may.                           *)
BufTypeOK ==
  /\ size \in 0 .. Area
  /\ mem \in [Bytes -> Caller \cup {"zero", "junk"}]
  /\ off \in [Caller -> (0 .. Half - 1) \cup {Shut}]
  /\ call \in [Caller -> [at  : {"user", "copy_to_user", "copy_from_user", "set_size"},
                           pos : 0 .. Half - 1, len : 0 .. Span - 1, own : BOOLEAN]]
  /\ alone \in [Caller -> BOOLEAN]

(* What read() hands out was put there by m_write, however many programs   *)
(* read and write at whatever offsets: no byte of the buffer that kmalloc  *)
(* left uninitialised is copied to a program at its file's offset.         *)
NoJunkRead ==
  \A u \in Caller : At(u, "copy_to_user") /\ call[u].own =>
    \A b \in Bytes : b \in call[u].pos .. Upto(u) - 1 => mem[b] # "junk"

ReadUpToSize ==
  \A u \in Caller : alone[u] /\ At(u, "copy_to_user") /\ call[u].own => Upto(u) <= size

WritesInside ==
  \A u \in Caller : At(u, "copy_from_user") /\ call[u].len <= CopyMax => Inside(u)

(* exam.c:74: "Check size doesn't exceed our mapped area size": a write    *)
(* or pwrite() does not leave the buffer, however many programs there are  *)
(* and whatever their offsets, as a length that wraps is one the kernel    *)
(* refuses; and read() hands out nothing that lies beyond the last write,  *)
(* while no other program has a file and this one uses no pwrite().        *)
WithinArea == ReadUpToSize /\ WritesInside

-----------------------------------------------------------------------------
(* What the comments say, and the code does not keep.                      *)

(* exam.c:57: "Check size doesn't exceed our mapped area size": no copy to *)
(* a program leaves the buffer.                                            *)
CopiesInside == \A u \in Caller : At(u, "copy_to_user") => Inside(u)

(* Nor does pread() hand out a byte that was never written.                *)
NoJunkPread ==
  \A u \in Caller : At(u, "copy_to_user") =>
    \A b \in Bytes : b \in call[u].pos .. Upto(u) - 1 => mem[b] # "junk"
=============================================================================
