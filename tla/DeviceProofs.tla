---------------------------- MODULE DeviceProofs ----------------------------
(***************************************************************************)
(* The kernel modules, for any examples, number of loads and programs.     *)
(* m_read and m_write of example 05, for any buffer and width of a size_t: *)
(* no write leaves the buffer, a program alone reads no more than was      *)
(* written, no byte left uninitialised is read.  The line that the two     *)
(* GPIO modules drive.  Loads and unloads: 03 and 04 give back what they   *)
(* registered, in order, and serve the files that are open.                *)
(***************************************************************************)
EXTENDS MCDevice, TLAPS

(* A call is in progress only on an open file; one at the file's offset    *)
(* stays at it; a read ends where an offset may be, and a write whose      *)
(* length has not wrapped ends inside.                                     *)
Calls ==
  \A u \in Caller :
    /\ ~At(u, "user") => off[u] # Shut /\ (call[u].own => call[u].pos = off[u])
    /\ At(u, "copy_to_user") => Upto(u) < Half
    /\ At(u, "copy_from_user") /\ call[u].len <= CopyMax => Upto(u) <= Area
    /\ At(u, "set_size") => Upto(u) <= Area

(* A program alone with its file is not beyond the size, nor is where its  *)
(* read ends, and its writes are at the file's offset.                     *)
Alone ==
  \A u \in Caller : alone[u] =>
    /\ \A v \in Caller : v # u => off[v] = Shut
    /\ off[u] <= size
    /\ At(u, "copy_to_user") /\ call[u].own => Upto(u) <= size
    /\ At(u, "copy_from_user") \/ At(u, "set_size") => call[u].own

(* Either the buffer was cleared, or nobody has written, and no file has   *)
(* got further than its start.                                             *)
Cleared == \A b \in Bytes : mem[b] # "junk"
Fresh ==
  /\ size = 0
  /\ \A u \in Caller : /\ off[u] \in {0, Shut} /\ (At(u, "user") \/ At(u, "copy_to_user"))
                       /\ At(u, "copy_to_user") /\ call[u].own => call[u].len = 0

BufInv == BufTypeOK /\ Calls /\ Alone /\ (Cleared \/ Fresh)

-----------------------------------------------------------------------------
(* The lengths that the calls compute, where a size_t wraps and not.       *)
LEMMA SmallMod == ASSUME NEW n \in Nat, NEW k \in 0 .. n - 1 PROVE k % n = k
OBVIOUS

LEMMA WrapMod ==
  ASSUME NEW n \in Nat \ {0}, NEW k \in Int, -n <= k, k < 0 PROVE k % n = k + n
OBVIOUS

LEMMA Widths ==
  /\ Area \in Nat /\ CopyMax \in Nat /\ Half \in Nat /\ Span \in Nat \ {0} /\ Span = 2 * Half
  /\ Area <= CopyMax /\ CopyMax < Half
  /\ \A n \in Size : n \in 0 .. CopyMax
BY BufAssumption DEF Span

LEMMA ToWriteFits ==
  ASSUME NEW n \in Size, NEW o \in 0 .. Half - 1, o + n < Half
  PROVE  ToWrite(n, o) \in 0 .. Span - 1 /\ (ToWrite(n, o) <= CopyMax => o + ToWrite(n, o) <= Area)
<1>1. (n + o) % Span = n + o
  BY Widths, SmallMod
<1>2. o <= Area => (Area - o) % Span = Area - o
  <2> SUFFICES ASSUME o <= Area PROVE (Area - o) % Span = Area - o
    OBVIOUS
  <2>1. Area - o \in 0 .. Span - 1
    BY Widths
  <2> QED BY <2>1, Widths, SmallMod
<1>3. o > Area => (Area - o) % Span = Area - o + Span
  <2> SUFFICES ASSUME o > Area PROVE (Area - o) % Span = Area - o + Span
    OBVIOUS
  <2>1. Area - o \in Int /\ -Span <= Area - o /\ Area - o < 0
    BY Widths
  <2> QED BY <2>1, Widths, WrapMod
<1> QED
  BY <1>1, <1>2, <1>3, Widths DEF ToWrite

LEMMA ToReadFits ==
  ASSUME BufTypeOK, NEW n \in Size, NEW o \in 0 .. Half - 1
  PROVE  /\ ToRead(n, o) \in 0 .. n
         /\ o <= size => o + ToRead(n, o) <= size
<1>1. size \in 0 .. Area
  BY DEF BufTypeOK
<1>2. (size - o) % Span \in 0 .. Span - 1
  BY <1>1, Widths
<1>3. o <= size => (size - o) % Span = size - o
  BY <1>1, Widths, SmallMod
<1>4. ToRead(n, o) = IF n > (size - o) % Span THEN (size - o) % Span ELSE n
  BY DEF ToRead
<1> QED
  BY <1>1, <1>2, <1>3, <1>4, Widths

LEMMA BufStarts == BufInit => BufInv
BY Widths
   DEF BufInit, BufInv, BufTypeOK, Calls, Alone, Fresh, Cleared, Bytes, Shut, Idle, At, Upto

LEMMA OpenCloseKeep ==
  ASSUME BufInv, NEW u \in Caller, Open(u) \/ Close(u)
  PROVE  BufInv'
<1> USE Widths DEF BufInv, BufTypeOK, Calls, Alone, Fresh, Cleared, Shut, At, Upto
<1>1. CASE Open(u)
  <2>1. /\ off' = [off EXCEPT ![u] = 0] /\ UNCHANGED <<size, mem, call>>
        /\ off[u] = Shut /\ At(u, "user")
    BY <1>1 DEF Open
  <2>2. alone' \in [Caller -> BOOLEAN]
    BY <1>1 DEF Open
  <2>3. \A v \in Caller : alone'[v] => v = u /\ \A w \in Caller : off[w] = Shut
    BY <1>1 DEF Open
  <2>4. BufTypeOK' /\ Calls' /\ (Cleared \/ Fresh)'
    <3>1. off' \in [Caller -> (0 .. Half - 1) \cup {Shut}]
      BY <2>1
    <3>2. BufTypeOK'
      BY ONLY BufTypeOK, <2>1, <2>2, <3>1 DEF BufTypeOK, Bytes
    <3>3. Calls'
      BY <2>1
    <3>4. (Cleared \/ Fresh)'
      BY <2>1
    <3> QED
      BY <3>2, <3>3, <3>4
  <2>5. 0 <= size /\ off'[u] = 0 /\ \A w \in Caller : w # u => off'[w] = off[w]
    BY <2>1
  <2>6. Alone'
    BY <2>1, <2>3, <2>5 DEF Alone
  <2> QED
    BY <2>4, <2>6 DEF BufInv
<1>2. CASE Close(u)
  BY <1>2 DEF Close
<1> QED
  BY <1>1, <1>2

LEMMA ReadKeeps ==
  ASSUME BufInv, NEW u \in Caller, NEW n \in Size, NEW o \in 0 .. Half - 1, NEW own \in BOOLEAN,
         Read(u, n, o, own)
  PROVE  BufInv'
<1>1. /\ At(u, "user") /\ off[u] # Shut /\ (own => o = off[u]) /\ o + n < Half
      /\ UNCHANGED <<size, mem, off, alone>>
  BY DEF Read, Asks
<1>2. PICK k \in 0 .. n : k = ToRead(n, o) /\ (o <= size => o + k <= size)
  BY ToReadFits DEF BufInv
<1> DEFINE c == [at |-> "copy_to_user", pos |-> o, len |-> k, own |-> own]
<1>3. call' = [call EXCEPT ![u] = c]
  BY <1>2 DEF Read, Becomes
<1>4. c \in [at  : {"user", "copy_to_user", "copy_from_user", "set_size"},
             pos : 0 .. Half - 1, len : 0 .. Span - 1, own : BOOLEAN]
  BY <1>2, Widths
<1>5. c.at = "copy_to_user" /\ c.pos + c.len < Half /\ c.own = own /\ c.pos = o /\ c.len = k
  BY <1>1, <1>2, Widths
<1> HIDE DEF c
<1>6. BufTypeOK'
  BY <1>1, <1>3, <1>4 DEF BufInv, BufTypeOK
<1>7. \A v \in Caller : call'[v] = IF v = u THEN c ELSE call[v]
  BY <1>3 DEF BufInv, BufTypeOK
<1>8. Calls'
  BY <1>1, <1>5, <1>7 DEF BufInv, Calls, At, Upto
<1>9. Alone'
  BY <1>1, <1>2, <1>5, <1>7 DEF BufInv, Alone, At, Upto
<1>10. (Cleared \/ Fresh)'
  <2>1. CASE Cleared
    BY <1>1, <2>1 DEF Cleared
  <2>2. CASE Fresh
    <3>1. own => k = 0
      BY <1>1, <1>2, <2>2, Widths DEF Fresh
    <3> QED
      BY <1>1, <1>5, <1>7, <2>2, <3>1 DEF Fresh, At
  <2> QED
    BY <2>1, <2>2 DEF BufInv
<1> QED
  BY <1>6, <1>8, <1>9, <1>10 DEF BufInv

(* The end of a call leaves the others as they were.                       *)
LEMMA CallEnds ==
  ASSUME BufTypeOK, NEW u \in Caller, Becomes(u, Idle)
  PROVE  /\ call' \in [Caller -> [at  : {"user", "copy_to_user", "copy_from_user", "set_size"},
                                  pos : 0 .. Half - 1, len : 0 .. Span - 1, own : BOOLEAN]]
         /\ call'[u].at = "user" /\ \A v \in Caller : v # u => call'[v] = call[v]
<1>1. Idle \in [at  : {"user", "copy_to_user", "copy_from_user", "set_size"},
                pos : 0 .. Half - 1, len : 0 .. Span - 1, own : BOOLEAN] /\ Idle.at = "user"
  BY Widths DEF Idle
<1> QED
  BY <1>1 DEF BufTypeOK, Becomes

LEMMA ReadCopyKeeps ==
  ASSUME BufInv, NEW u \in Caller, ReadCopy(u)
  PROVE  BufInv'
<1>1. /\ At(u, "copy_to_user") /\ Becomes(u, Idle) /\ UNCHANGED <<size, mem, alone>>
      /\ \/ call[u].own /\ off' = [off EXCEPT ![u] = Upto(u)]
         \/ UNCHANGED off
         \/ off' = [off EXCEPT ![u] = Shut]
  BY DEF ReadCopy
<1>2. /\ call[u].pos \in 0 .. Half - 1 /\ call[u].len \in 0 .. Span - 1 /\ Upto(u) < Half
      /\ off[u] # Shut /\ (call[u].own => call[u].pos = off[u])
  BY <1>1 DEF BufInv, BufTypeOK, Calls, At
<1>3. Upto(u) \in 0 .. Half - 1
  BY <1>2, Widths DEF Upto
<1>4. BufTypeOK'
  BY <1>1, <1>3, CallEnds DEF BufInv, BufTypeOK
<1>5. /\ call'[u].at = "user" /\ \A v \in Caller : v # u => call'[v] = call[v] /\ off'[v] = off[v]
      /\ off'[u] = off[u] \/ off'[u] = Shut \/ (call[u].own /\ off'[u] = Upto(u))
  BY <1>1, CallEnds DEF BufInv, BufTypeOK
<1>6. Calls'
  BY <1>5 DEF BufInv, Calls, At, Upto
<1>7. Alone'
  <2> SUFFICES ASSUME NEW v \in Caller, alone[v]
               PROVE  /\ \A w \in Caller : w # v => off'[w] = Shut
                      /\ off'[v] <= size
                      /\ call'[v].at = "copy_to_user" /\ call'[v].own
                           => call'[v].pos + call'[v].len <= size
                      /\ call'[v].at \in {"copy_from_user", "set_size"} => call'[v].own
    BY <1>1 DEF Alone, At, Upto
  <2>1. v = u
    BY <1>2 DEF BufInv, Alone
  <2>2. off'[u] <= size
    BY <1>1, <1>5, <2>1 DEF BufInv, BufTypeOK, Alone, Shut
  <2> QED
    BY <1>5, <2>1, <2>2 DEF BufInv, Alone
<1>8. (Cleared \/ Fresh)'
  <2>1. CASE Cleared
    BY <1>1, <2>1 DEF Cleared
  <2>2. CASE Fresh
    <3>1. call[u].own => Upto(u) = 0
      BY <1>1, <1>2, <2>2 DEF Fresh, Upto
    <3> QED
      BY <1>1, <1>5, <2>2, <3>1 DEF Fresh, At
  <2> QED
    BY <2>1, <2>2 DEF BufInv
<1> QED
  BY <1>4, <1>6, <1>7, <1>8 DEF BufInv

LEMMA WriteKeeps ==
  ASSUME BufInv, NEW u \in Caller, NEW n \in Size, NEW o \in 0 .. Half - 1, NEW own \in BOOLEAN,
         Write(u, n, o, own)
  PROVE  BufInv'
<1>1. /\ At(u, "user") /\ off[u] # Shut /\ (own => o = off[u]) /\ o + n < Half
      /\ UNCHANGED <<size, off>> /\ mem' = [b \in Bytes |-> "zero"]
      /\ alone' = [alone EXCEPT ![u] = @ /\ own]
  BY DEF Write, Asks
<1>2. PICK k \in 0 .. Span - 1 : k = ToWrite(n, o) /\ (k <= CopyMax => o + k <= Area)
  BY <1>1, ToWriteFits
<1> DEFINE c == [at |-> "copy_from_user", pos |-> o, len |-> k, own |-> own]
<1>3. call' = [call EXCEPT ![u] = c]
  BY <1>2 DEF Write, Becomes
<1>4. c \in [at  : {"user", "copy_to_user", "copy_from_user", "set_size"},
             pos : 0 .. Half - 1, len : 0 .. Span - 1, own : BOOLEAN]
  OBVIOUS
<1>5. c.at = "copy_from_user" /\ c.own = own /\ c.pos = o /\ c.len = k
  OBVIOUS
<1> HIDE DEF c
<1>6. /\ alone' \in [Caller -> BOOLEAN]
      /\ \A v \in Caller : alone'[v] => alone[v] /\ (v = u => own)
  BY <1>1 DEF BufInv, BufTypeOK
<1>7. BufTypeOK'
  BY <1>1, <1>3, <1>4, <1>6 DEF BufInv, BufTypeOK
<1>8. \A v \in Caller : call'[v] = IF v = u THEN c ELSE call[v]
  BY <1>3 DEF BufInv, BufTypeOK
<1>9. Calls'
  BY <1>1, <1>2, <1>5, <1>8 DEF BufInv, Calls, At, Upto
<1>10. Alone'
  BY <1>1, <1>5, <1>6, <1>8 DEF BufInv, Alone, At, Upto
<1>11. Cleared'
  BY <1>1 DEF Cleared
<1> QED
  BY <1>7, <1>9, <1>10, <1>11 DEF BufInv

LEMMA WriteCopyKeeps ==
  ASSUME BufInv, NEW u \in Caller, WriteCopy(u)
  PROVE  BufInv'
<1>1. /\ At(u, "copy_from_user") /\ UNCHANGED <<size, off, alone>>
      /\ UNCHANGED mem \/ \E n \in Int : Fill(u, n)
      /\ \/ call[u].len <= CopyMax /\ Becomes(u, [call[u] EXCEPT !.at = "set_size"])
         \/ Becomes(u, Idle)
  BY DEF WriteCopy, BufInv, BufTypeOK
<1>2. Cleared
  BY <1>1 DEF BufInv, Fresh, At
<1>3. Cleared' /\ mem' \in [Bytes -> Caller \cup {"zero", "junk"}]
  <2>1. CASE UNCHANGED mem
    BY <1>2, <2>1 DEF Cleared, BufInv, BufTypeOK
  <2>2. CASE \E n \in Int : Fill(u, n)
    BY <1>2, <2>2, BufAssumption DEF Cleared, BufInv, BufTypeOK, Fill
  <2> QED
    BY <1>1, <2>1, <2>2
<1>4. /\ call' \in [Caller -> [at  : {"user", "copy_to_user", "copy_from_user", "set_size"},
                               pos : 0 .. Half - 1, len : 0 .. Span - 1, own : BOOLEAN]]
      /\ \A v \in Caller : v # u => call'[v] = call[v]
      /\ \/ call'[u].at = "user"
         \/ /\ call'[u].at = "set_size" /\ call'[u].pos = call[u].pos
            /\ call'[u].len = call[u].len /\ call'[u].own = call[u].own
            /\ call[u].len <= CopyMax
  <2>1. CASE Becomes(u, Idle)
    BY <2>1, CallEnds DEF BufInv
  <2>2. CASE call[u].len <= CopyMax /\ Becomes(u, [call[u] EXCEPT !.at = "set_size"])
    BY <2>2 DEF Becomes, BufInv, BufTypeOK
  <2> QED
    BY <1>1, <2>1, <2>2
<1>5. BufTypeOK'
  BY <1>1, <1>3, <1>4 DEF BufInv, BufTypeOK
<1>6. Calls'
  BY <1>1, <1>4 DEF BufInv, Calls, At, Upto
<1>7. Alone'
  BY <1>1, <1>4 DEF BufInv, Alone, At, Upto
<1> QED
  BY <1>3, <1>5, <1>6, <1>7 DEF BufInv

LEMMA WriteEndKeeps ==
  ASSUME BufInv, NEW u \in Caller, WriteEnd(u)
  PROVE  BufInv'
<1>1. /\ At(u, "set_size") /\ Becomes(u, Idle) /\ size' = Upto(u) /\ UNCHANGED <<mem, alone>>
      /\ off' = IF call[u].own THEN [off EXCEPT ![u] = Upto(u)] ELSE off
  BY DEF WriteEnd
<1>2. Upto(u) \in 0 .. Area /\ off[u] # Shut
  BY <1>1, Widths DEF BufInv, BufTypeOK, Calls, At, Upto
<1>3. BufTypeOK'
  BY <1>1, <1>2, CallEnds, Widths DEF BufInv, BufTypeOK
<1>4. /\ call'[u].at = "user" /\ \A v \in Caller : v # u => call'[v] = call[v] /\ off'[v] = off[v]
      /\ IF call[u].own THEN off'[u] = Upto(u) ELSE off'[u] = off[u]
  BY <1>1, CallEnds DEF BufInv, BufTypeOK
<1>5. Calls'
  BY <1>4 DEF BufInv, Calls, At, Upto
<1>6. Alone'
  <2> SUFFICES ASSUME NEW v \in Caller, alone[v]
               PROVE  /\ \A w \in Caller : w # v => off'[w] = Shut
                      /\ off'[v] <= size'
                      /\ call'[v].at = "user"
    BY <1>1 DEF Alone, At, Upto
  <2>1. v = u
    BY <1>2 DEF BufInv, Alone
  <2>2. call[u].own
    BY <1>1, <2>1 DEF BufInv, Alone
  <2> QED
    BY <1>1, <1>2, <1>4, <2>1, <2>2 DEF BufInv, Alone
<1>7. Cleared'
  BY <1>1 DEF BufInv, Cleared, Fresh, At
<1> QED
  BY <1>3, <1>5, <1>6, <1>7 DEF BufInv

LEMMA BufKeeps ==
  ASSUME BufInv, [BufNext]_bufVars
  PROVE  BufInv'
<1>1. CASE BufNext
  <2>1. \A u \in Caller : off[u] # Shut => off[u] \in 0 .. Half - 1
    BY DEF BufInv, BufTypeOK
  <2>2. \A o \in Offset : o \in 0 .. Half - 1
    BY BufAssumption
  <2>3. ASSUME NEW u \in Caller, NEW n \in Size,
               Read(u, n, off[u], TRUE) \/ Write(u, n, off[u], TRUE)
        PROVE  BufInv'
    <3>1. off[u] \in 0 .. Half - 1
      BY <2>1, <2>3 DEF Read, Write, Asks
    <3> QED
      BY <2>3, <3>1, ReadKeeps, WriteKeeps
  <2>4. ASSUME NEW u \in Caller, NEW n \in Size, NEW o \in Offset,
               Read(u, n, o, FALSE) \/ Write(u, n, o, FALSE)
        PROVE  BufInv'
    BY <2>2, <2>4, ReadKeeps, WriteKeeps
  <2> QED
    BY <1>1, <2>3, <2>4, OpenCloseKeep, ReadCopyKeeps, WriteCopyKeeps, WriteEndKeeps DEF BufNext
<1>2. CASE UNCHANGED bufVars
  BY <1>2 DEF bufVars, BufInv, BufTypeOK, Calls, Alone, Fresh, Cleared, At, Upto
<1> QED
  BY <1>1, <1>2

(* No write or pwrite() of example 05 leaves the buffer, at any offset and *)
(* between any others, and a program alone with its file that uses no      *)
(* pwrite() is handed by read() no more than was written last.             *)
THEOREM CallsStayWithin == BufSpec => []WithinArea
<1>1. BufInv => WithinArea
  BY DEF BufInv, Calls, Alone, WithinArea, ReadUpToSize, WritesInside, Inside
<1> QED
  BY BufStarts, BufKeeps, <1>1, PTL DEF BufSpec

(* No byte that kmalloc left uninitialised is copied to a program that     *)
(* reads at its file's offset, whatever the others do at theirs.  (One     *)
(* that uses pread() may get some: NoJunkPread is not kept.)               *)
THEOREM NothingLeaks == BufSpec => []NoJunkRead
<1>1. BufInv => NoJunkRead
  <2> SUFFICES ASSUME BufInv, NEW u \in Caller, At(u, "copy_to_user"), call[u].own,
                      NEW b \in Bytes, b \in call[u].pos .. Upto(u) - 1
               PROVE  mem[b] # "junk"
    BY DEF NoJunkRead
  <2>1. CASE Cleared
    BY <2>1 DEF Cleared
  <2>2. CASE Fresh
    <3>1. call[u].len = 0 /\ call[u].pos \in Int
      BY <2>2 DEF Fresh, BufInv, BufTypeOK
    <3> QED
      BY <3>1 DEF Upto
  <2> QED
    BY <2>1, <2>2 DEF BufInv
<1> QED
  BY BufStarts, BufKeeps, <1>1, PTL DEF BufSpec

-----------------------------------------------------------------------------
(* The line is high only for a driver that is loaded and set it, and       *)
(* requested only by one that has not freed it yet.                        *)
GpioInv ==
  /\ GpioTypeOK
  /\ where["integer"] # "oops"
  /\ owner = "integer" => where["integer"] # "absent"
  /\ level = "HIGH" => \/ where["integer"] = "live"
                       \/ where["descriptor"] = "live" /\ gpio_27 = "desc"

LEMMA GpioStarts == GpioInit => GpioInv
BY DEF GpioInit, GpioInv, GpioTypeOK, Driver, Nobody27

LEMMA GpioKeeps == GpioInv /\ [GpioNext]_gpioVars => GpioInv'
<1> SUFFICES ASSUME GpioInv, [GpioNext]_gpioVars PROVE GpioInv'
  OBVIOUS
<1> USE DEF GpioInv, GpioTypeOK, Driver, Nobody27, Step
<1>1. CASE GpioRequest \/ GpioDirectionOutput \/ GpioSetValue
  BY <1>1 DEF GpioRequest, GpioDirectionOutput, GpioSetValue
<1>2. CASE GpioExit \/ GpioFree
  BY <1>2 DEF GpioExit, GpioFree
<1>3. CASE GpiodGet \/ GpiodSetValue
  BY <1>3 DEF GpiodGet, GpiodSetValue, GpiodSet
<1>4. CASE GpiodRemove \/ GpiodPut
  BY <1>4 DEF GpiodRemove, GpiodSet, GpiodPut
<1>5. CASE UNCHANGED gpioVars
  BY <1>5 DEF gpioVars
<1> QED BY <1>1, <1>2, <1>3, <1>4, <1>5 DEF GpioNext

(* When both GPIO modules are gone the line is low and free, in whatever   *)
(* order they were loaded and unloaded.                                    *)
THEOREM LineIsFree == GpioSpec => []LineGivenBack
<1>1. GpioInv => LineGivenBack
  BY DEF GpioInv, GpioTypeOK, LineGivenBack, Driver, Nobody27
<1> QED BY GpioStarts, GpioKeeps, <1>1, PTL DEF GpioSpec

-----------------------------------------------------------------------------
(* Loads and unloads of the character device                               *)

(* The steps of chdev_init of each example.                                *)
Steps(e) == IF e = 2 THEN {"region", "renumber"}
            ELSE IF e = 3 THEN {"region", "class", "device"}
            ELSE IF e = 4 THEN {"region", "class", "device", "cdev"}
            ELSE Resource

HeldOnly(S) == \A r \in Resource : Held(r) => r \in S

(* While 03 or 04 loads: what may be held, by the steps that are left.     *)
Loading ==
  \/ /\ todo \in {<<"region", "class", "device">>, <<"region", "class", "device", "cdev">>}
     /\ HeldOnly({})
  \/ /\ dev_num = "own" /\ Held("region")
     /\ \/ /\ todo \in {<<"class", "device">>, <<"class", "device", "cdev">>}
           /\ HeldOnly({"region"})
        \/ /\ todo \in {<<"device">>, <<"device", "cdev">>}
           /\ HeldOnly({"region", "class"})
        \/ /\ todo \in {<<>>, <<"cdev">>}
           /\ HeldOnly({"region", "class", "device"})
        \/ /\ todo = <<>> /\ ex[nload] = 4
           /\ HeldOnly({"region", "class", "device", "cdev"})

(* While it unwinds or goes: what is still held is still to be released.   *)
Unloading ==
  \/ todo = <<>> /\ HeldOnly({})
  \/ /\ dev_num = "own"
     /\ \/ todo = <<"region">> /\ HeldOnly({"region"})
        \/ todo = <<"class", "region">> /\ HeldOnly({"region", "class"})
        \/ todo = <<"device", "class", "region">> /\ HeldOnly({"region", "class", "device"})
        \/ /\ todo = <<"cdev", "device", "class", "region">>
           /\ HeldOnly({"region", "class", "device", "cdev"})

Live ==
  /\ dev_num = "own"
  /\ HeldOnly({"region", "class", "device"} \cup (IF ex[nload] = 3 THEN {} ELSE {"cdev"}))

(* The inductive invariant.                                                *)
TodoRight ==
  /\ mod # "absent" => nload \in Load /\ ex[nload] \in 2 .. 5
  /\ mod = "coming" => todo \in Seq(Steps(ex[nload]))
  /\ mod # "absent" /\ ex[nload] \in {3, 4} =>
       /\ mod = "coming" => Loading
       /\ mod = "live" => Live
       /\ mod \in {"failing", "going"} => Unloading
       /\ mod = "failing" => ~Held("cdev")
LoadsRight ==
  /\ \A l \in Load : l > nload => \A r \in Resource : <<l, r>> \notin held
  /\ GivesBackAll /\ ReleasedInOrder
FilesRight ==
  \A u \in User :
    /\ file[u].load <= nload
    /\ file[u].load # 0 /\ ex[file[u].load] = 4 =>
         file[u].load = nload /\ (mod = "live" \/ (mod = "coming" /\ Held("cdev")))

LifeInv == LifeTypeOK /\ TodoRight /\ LoadsRight /\ FilesRight

-----------------------------------------------------------------------------
LEMMA CodeOf ==
  /\ Code(2) = Example02 /\ Code(3) = Example03 /\ Code(4) = Example04 /\ Code(5) = Example05
BY DEF Code

(* What the tables of the examples hold.                                   *)
LEMMA InitOf ==
  /\ Code(2).init = <<"region", "renumber">>
  /\ Code(3).init = <<"region", "class", "device">>
  /\ Code(4).init = <<"region", "class", "device", "cdev">>
  /\ Code(5).init = <<"region", "class", "device", "cdev", "buffer">>
BY CodeOf DEF Example02, Example03, Example04, Example05

LEMMA ExitOf ==
  /\ Code(2).exit = <<"region">>
  /\ Code(3).exit = <<"device", "class", "region">>
  /\ Code(4).exit = <<"cdev", "device", "class", "region">>
  /\ Code(5).exit = <<"cdev", "device", "class", "region">>
BY CodeOf DEF Example02, Example03, Example04, Example05

LEMMA UnwindOf ==
  /\ \A e \in 2 .. 5 : Code(e).unwind["region"] = <<>>
  /\ \A e \in {4, 5} : Code(e).unwind["cdev"] = <<"device", "class", "region">>
  /\ Code(5).unwind["buffer"] = <<"device", "class", "region">>
<1>1. \A e \in 2 .. 5 : e \in {2, 3, 4, 5}
  OBVIOUS
<1> QED BY <1>1, CodeOf DEF Example02, Example03, Example04, Example05

LEMMA TodoSteps ==
  ASSUME NEW e \in 2 .. 5
  PROVE  /\ Code(e).init \in Seq(Steps(e)) /\ Steps(e) \subseteq Resource \cup {"renumber"}
         /\ Code(e).exit \in Seq(Resource)
         /\ \A r \in Steps(e) \cap {"region", "cdev", "buffer"} : Code(e).unwind[r] \in Seq(Resource)
<1>1. e \in {2, 3, 4, 5}
  OBVIOUS
<1>2. Steps(e) \subseteq Resource \cup {"renumber"}
  BY DEF Steps, Resource
<1>3. Code(e).init \in Seq(Steps(e))
  <2>1. <<"region", "renumber">> \in Seq(Steps(2))
    BY DEF Steps
  <2>2. <<"region", "class", "device">> \in Seq(Steps(3))
    BY DEF Steps
  <2>3. <<"region", "class", "device", "cdev">> \in Seq(Steps(4))
    BY DEF Steps
  <2>4. <<"region", "class", "device", "cdev", "buffer">> \in Seq(Steps(5))
    BY DEF Steps, Resource
  <2> QED BY <1>1, <2>1, <2>2, <2>3, <2>4, InitOf
<1>4. Code(e).exit \in Seq(Resource)
  <2>1. <<"region">> \in Seq(Resource)
    BY DEF Resource
  <2>2. <<"device", "class", "region">> \in Seq(Resource)
    BY DEF Resource
  <2>3. <<"cdev", "device", "class", "region">> \in Seq(Resource)
    BY DEF Resource
  <2> QED BY <1>1, <2>1, <2>2, <2>3, ExitOf
<1>5. ASSUME NEW r \in Steps(e) \cap {"region", "cdev", "buffer"}
      PROVE  Code(e).unwind[r] \in Seq(Resource)
  <2>1. <<"device", "class", "region">> \in Seq(Resource) /\ <<>> \in Seq(Resource)
    BY DEF Resource
  <2>2. r = "region" \/ (r = "cdev" /\ e \in {4, 5}) \/ (r = "buffer" /\ e = 5)
    BY <1>1 DEF Steps
  <2> QED BY <2>1, <2>2, UnwindOf
<1> QED BY <1>2, <1>3, <1>4, <1>5

LEMMA LifeStarts == LifeInit => LifeInv
<1> SUFFICES ASSUME LifeInit PROVE LifeInv
  OBVIOUS
<1>1. <<>> \in Seq(Resource \cup {"renumber"})
  OBVIOUS
<1>2. Closed \in [load : 0 .. MaxLoad, busy : BOOLEAN] /\ Closed.load = 0 /\ ~Closed.busy
  BY ChrdevAssumption DEF Closed
<1>3. /\ file \in [User -> [load : 0 .. MaxLoad, busy : BOOLEAN]]
      /\ \A u \in User : file[u].load = 0 /\ ~file[u].busy
  BY <1>2 DEF LifeInit
<1>4. LifeTypeOK
  BY <1>1, <1>3, ChrdevAssumption DEF LifeInit, LifeTypeOK
<1> QED
  BY <1>3, <1>4 DEF LifeInit, LifeInv, TodoRight, LoadsRight, GivesBackAll, ReleasedInOrder,
     FilesRight

-----------------------------------------------------------------------------
(* The head and the tail of what is left to do, while 03 or 04 loads or    *)
(* goes.                                                                   *)
LEMMA LoadingStep ==
  ASSUME Loading, todo # <<>>
  PROVE
    \/ /\ Head(todo) = "region" /\ HeldOnly({})
       /\ Tail(todo) \in {<<"class", "device">>, <<"class", "device", "cdev">>}
    \/ /\ dev_num = "own" /\ Held("region")
       /\ \/ /\ Head(todo) = "class" /\ HeldOnly({"region"})
             /\ Tail(todo) \in {<<"device">>, <<"device", "cdev">>}
          \/ /\ Head(todo) = "device" /\ HeldOnly({"region", "class"})
             /\ Tail(todo) \in {<<>>, <<"cdev">>}
          \/ /\ Head(todo) = "cdev" /\ HeldOnly({"region", "class", "device"})
             /\ Tail(todo) = <<>>
<1>1. /\ Head(<<"region", "class", "device">>) = "region"
      /\ Tail(<<"region", "class", "device">>) = <<"class", "device">>
  OBVIOUS
<1>2. /\ Head(<<"region", "class", "device", "cdev">>) = "region"
      /\ Tail(<<"region", "class", "device", "cdev">>) = <<"class", "device", "cdev">>
  OBVIOUS
<1>3. Head(<<"class", "device">>) = "class" /\ Tail(<<"class", "device">>) = <<"device">>
  OBVIOUS
<1>4. /\ Head(<<"class", "device", "cdev">>) = "class"
      /\ Tail(<<"class", "device", "cdev">>) = <<"device", "cdev">>
  OBVIOUS
<1>5. Head(<<"device">>) = "device" /\ Tail(<<"device">>) = <<>>
  OBVIOUS
<1>6. Head(<<"device", "cdev">>) = "device" /\ Tail(<<"device", "cdev">>) = <<"cdev">>
  OBVIOUS
<1>7. Head(<<"cdev">>) = "cdev" /\ Tail(<<"cdev">>) = <<>>
  OBVIOUS
<1> QED
  BY <1>1, <1>2, <1>3, <1>4, <1>5, <1>6, <1>7, Zenon DEF Loading

LEMMA UnloadingStep ==
  ASSUME Unloading, todo # <<>>
  PROVE
    /\ dev_num = "own"
    /\ \/ Head(todo) = "region" /\ HeldOnly({"region"}) /\ Tail(todo) = <<>>
       \/ /\ Head(todo) = "class" /\ HeldOnly({"region", "class"})
          /\ Tail(todo) = <<"region">>
       \/ /\ Head(todo) = "device" /\ HeldOnly({"region", "class", "device"})
          /\ Tail(todo) = <<"class", "region">>
       \/ /\ Head(todo) = "cdev" /\ HeldOnly({"region", "class", "device", "cdev"})
          /\ Tail(todo) = <<"device", "class", "region">>
<1>1. Head(<<"region">>) = "region" /\ Tail(<<"region">>) = <<>>
  OBVIOUS
<1>2. Head(<<"class", "region">>) = "class" /\ Tail(<<"class", "region">>) = <<"region">>
  OBVIOUS
<1>3. /\ Head(<<"device", "class", "region">>) = "device"
      /\ Tail(<<"device", "class", "region">>) = <<"class", "region">>
  OBVIOUS
<1>4. /\ Head(<<"cdev", "device", "class", "region">>) = "cdev"
      /\ Tail(<<"cdev", "device", "class", "region">>) = <<"device", "class", "region">>
  OBVIOUS
<1> QED
  BY <1>1, <1>2, <1>3, <1>4, Zenon DEF Unloading

(* Nothing left to do.                                                     *)
LEMMA NothingLeft ==
  ASSUME todo = <<>>
  PROVE  /\ Loading => /\ dev_num = "own" /\ HeldOnly({"region", "class", "device", "cdev"})
                       /\ ex[nload] # 4 => HeldOnly({"region", "class", "device"})
         /\ Unloading => HeldOnly({})
<1>1. /\ <<>> # <<"region", "class", "device">> /\ <<>> # <<"region", "class", "device", "cdev">>
      /\ <<>> # <<"class", "device">> /\ <<>> # <<"class", "device", "cdev">>
      /\ <<>> # <<"device">> /\ <<>> # <<"device", "cdev">>
  OBVIOUS
<1>2. /\ <<>> # <<"region">> /\ <<>> # <<"class", "region">>
      /\ <<>> # <<"device", "class", "region">>
      /\ <<>> # <<"cdev", "device", "class", "region">>
  OBVIOUS
<1>3. Loading => dev_num = "own" /\ \/ HeldOnly({"region", "class", "device"})
                                    \/ ex[nload] = 4 /\ HeldOnly({"region", "class", "device", "cdev"})
  BY <1>1, Zenon DEF Loading
<1>4. HeldOnly({"region", "class", "device"}) => HeldOnly({"region", "class", "device", "cdev"})
  BY DEF HeldOnly
<1>5. Unloading => HeldOnly({})
  BY <1>2, Zenon DEF Unloading
<1> QED
  BY <1>3, <1>4, <1>5

-----------------------------------------------------------------------------
LEMMA InsmodKeeps ==
  ASSUME LifeInv, NEW e \in Examples, Insmod(e)
  PROVE  LifeInv'
<1>1. /\ mod = "absent" /\ nload < MaxLoad /\ mod' = "coming" /\ nload' = nload + 1
      /\ ex' = [ex EXCEPT ![nload + 1] = e] /\ todo' = Code(e).init /\ dev_num' = "none"
      /\ UNCHANGED <<held, file>>
  BY DEF Insmod
<1>2. e \in 2 .. 5 /\ nload \in 0 .. MaxLoad /\ nload' \in Load /\ nload' # 0 /\ ex \in [Load -> 0 .. 5]
  BY <1>1, ChrdevAssumption DEF LifeInv, LifeTypeOK, Load
<1>3. /\ ex' \in [Load -> 0 .. 5] /\ ex'[nload'] = e
      /\ \A l \in Load : l # nload' => ex'[l] = ex[l]
  BY <1>1, <1>2
<1>4. todo' \in Seq(Steps(e)) /\ todo' \in Seq(Resource \cup {"renumber"})
  <2>1. Seq(Steps(e)) \subseteq Seq(Resource \cup {"renumber"})
    BY <1>2, TodoSteps, SMTT(30)
  <2> QED BY <1>1, <1>2, <2>1, TodoSteps
<1>5. LifeTypeOK'
  <2>1. nload' \in 0 .. MaxLoad
    BY <1>2, ChrdevAssumption DEF Load
  <2>2. mod' \in {"absent", "coming", "live", "failing", "going", "oops"} /\ dev_num' \in {"none", "own", "other"}
    BY <1>1
  <2>3. /\ held' \subseteq Load \X Resource
        /\ file' \in [User -> [load : 0 .. MaxLoad, busy : BOOLEAN]]
        /\ \A u \in User : file'[u].busy => file'[u].load # 0
    BY <1>1 DEF LifeInv, LifeTypeOK
  <2> QED BY <1>3, <1>4, <2>1, <2>2, <2>3, Zenon DEF LifeTypeOK
<1>6. \A r \in Resource : <<nload', r>> \notin held'
  BY <1>1, <1>2 DEF LifeInv, LoadsRight, LifeTypeOK
<1>7. TodoRight'
  <2>1. e \in {3, 4} => Loading'
    BY <1>1, <1>6, InitOf DEF Loading, HeldOnly, Held, Mine
  <2> QED
    BY <1>1, <1>2, <1>3, <1>4, <2>1 DEF TodoRight
<1>8. LoadsRight'
  <2>1. \A l \in Load : l > nload' => \A r \in Resource : <<l, r>> \notin held'
    BY <1>1, <1>2 DEF LifeInv, LoadsRight
  <2>2. \A l \in Load : <<l, "device">> \in held' \/ <<l, "cdev">> \in held' => l # nload'
    BY <1>6 DEF Resource
  <2>3. GivesBackAll'
    BY <1>1, <1>3, <1>6 DEF LifeInv, LoadsRight, GivesBackAll, Loaded
  <2>4. ReleasedInOrder'
    BY <1>1, <1>3, <2>2 DEF LifeInv, LoadsRight, ReleasedInOrder
  <2> QED
    BY <2>1, <2>3, <2>4 DEF LoadsRight
<1>9. FilesRight'
  <2> SUFFICES ASSUME NEW u \in User
               PROVE  /\ file[u].load <= nload'
                      /\ file[u].load # 0 => ex'[file[u].load] # 4
    BY <1>1 DEF FilesRight
  <2>1. file[u].load \in 0 .. MaxLoad /\ file[u].load <= nload
    BY DEF LifeInv, LifeTypeOK, FilesRight
  <2>2. file[u].load # 0 => /\ file[u].load \in Load /\ file[u].load # nload'
                            /\ ex[file[u].load] # 4
    BY <1>1, <1>2, <2>1 DEF LifeInv, FilesRight, Load
  <2> QED BY <1>1, <1>2, <1>3, <2>1, <2>2
<1> QED BY <1>5, <1>7, <1>8, <1>9 DEF LifeInv

(* What a load does until it is gone: its steps change no other load, and  *)
(* no open file but for those that open, call and close it.                *)
LEMMA LoadTypes ==
  ASSUME LifeInv, LoadStep \/ Rmmod
  PROVE  LifeTypeOK' /\ UNCHANGED <<ex, nload, file>> /\ nload \in Load /\ ex[nload] \in 2 .. 5
<1>1. UNCHANGED <<ex, nload, file>> /\ mod # "absent"
  BY DEF LoadStep, Rmmod, Acquire, FailUnseen, Fail, InitReturns, Release, ReleaseFaults, Gone
<1>2. nload \in Load /\ ex[nload] \in 2 .. 5
  BY <1>1 DEF LifeInv, TodoRight
<1>3. todo \in Seq(Resource \cup {"renumber"})
  BY DEF LifeInv, LifeTypeOK
<1>4. mod' \in {"absent", "coming", "live", "failing", "going", "oops"}
  BY DEF LoadStep, Rmmod, Acquire, FailUnseen, Fail, InitReturns, Release, ReleaseFaults, Gone, LifeInv,
     LifeTypeOK
<1>5. todo' \in Seq(Resource \cup {"renumber"})
  <2>1. Seq(Resource) \subseteq Seq(Resource \cup {"renumber"})
    OBVIOUS
  <2>2. CASE Acquire \/ FailUnseen \/ Release
    BY <1>3, <2>2 DEF Acquire, FailUnseen, Release
  <2>3. CASE Rmmod
    BY <1>2, <2>1, <2>3, TodoSteps DEF Rmmod
  <2>4. CASE Fail
    <3>1. /\ mod = "coming" /\ todo # <<>> /\ Head(todo) \in {"region", "cdev", "buffer"}
          /\ todo' = Code(ex[nload]).unwind[Head(todo)] /\ todo \in Seq(Steps(ex[nload]))
      BY <2>4 DEF Fail, LifeInv, TodoRight
    <3>2. Head(todo) \in Steps(ex[nload])
      BY <3>1
    <3> QED BY <1>2, <2>1, <3>1, <3>2, TodoSteps
  <2>5. CASE InitReturns \/ ReleaseFaults \/ Gone
    BY <1>3, <2>5 DEF InitReturns, ReleaseFaults, Gone
  <2> QED BY <2>2, <2>3, <2>4, <2>5 DEF LoadStep
<1>6. held' \subseteq Load \X Resource /\ dev_num' \in {"none", "own", "other"}
  <2>1. held \subseteq Load \X Resource /\ dev_num \in {"none", "own", "other"}
    BY DEF LifeInv, LifeTypeOK
  <2>2. CASE Acquire
    BY <1>2, <2>1, <2>2 DEF Acquire, Mine
  <2>3. CASE ~Acquire
    <3>1. held' \subseteq held /\ dev_num' = dev_num
      BY <2>3 DEF LoadStep, Rmmod, FailUnseen, Fail, InitReturns, Release, ReleaseFaults, Gone
    <3> QED BY <2>1, <3>1
  <2> QED BY <2>2, <2>3
<1> QED BY <1>1, <1>2, <1>4, <1>5, <1>6 DEF LifeInv, LifeTypeOK

(* Of the other loads nothing is registered or released.                   *)
LEMMA OthersKept ==
  ASSUME LifeInv, LoadStep \/ Rmmod, NEW l \in Load, l # nload, NEW r \in Resource
  PROVE  <<l, r>> \in held' <=> <<l, r>> \in held
<1>1. CASE Acquire
  BY <1>1 DEF Acquire, Mine
<1>2. CASE Release
  BY <1>2 DEF Release, Mine
<1>3. CASE ~Acquire /\ ~Release
  BY <1>3 DEF LoadStep, Rmmod, FailUnseen, Fail, InitReturns, ReleaseFaults, Gone
<1> QED BY <1>1, <1>2, <1>3

(* What is left to show of such a step: its own load.                      *)
LEMMA OwnLoad ==
  ASSUME LifeInv, LoadStep \/ Rmmod, TodoRight', FilesRight',
         ex[nload] \in {3, 4} =>
           /\ mod' = "absent" => \A r \in Resource : ~Held(r)'
           /\ Held("device")' => Held("class")'
           /\ Held("cdev")' => Held("region")'
  PROVE  LifeInv'
<1>1. LifeTypeOK' /\ UNCHANGED <<ex, nload, file>> /\ nload \in Load
  BY LoadTypes
<1>2. \A l \in Load : l > nload' => \A r \in Resource : <<l, r>> \notin held'
  <2>1. \A l \in Load : l > nload => l # nload
    BY DEF LifeInv, LifeTypeOK, Load
  <2> QED BY <1>1, <2>1, OthersKept DEF LifeInv, LoadsRight
<1>3. GivesBackAll'
  <2> SUFFICES ASSUME NEW l \in Load, ex[l] \in {3, 4}, ~Loaded(l)', NEW r \in Resource
               PROVE  <<l, r>> \notin held'
    BY <1>1 DEF GivesBackAll
  <2>1. CASE l = nload
    BY <1>1, <2>1 DEF Loaded, Held, Mine
  <2>2. CASE l # nload
    BY <2>2, OthersKept DEF LifeInv, LoadsRight, GivesBackAll, Loaded
  <2> QED BY <2>1, <2>2
<1>4. ReleasedInOrder'
  <2> SUFFICES ASSUME NEW l \in Load, ex[l] \in {3, 4}
               PROVE  /\ <<l, "device">> \in held' => <<l, "class">> \in held'
                      /\ <<l, "cdev">> \in held' => <<l, "region">> \in held'
    BY <1>1 DEF ReleasedInOrder
  <2>1. CASE l = nload
    BY <1>1, <2>1 DEF Held, Mine
  <2>2. CASE l # nload
    <3>1. \A r \in {"device", "class", "cdev", "region"} : <<l, r>> \in held' <=> <<l, r>> \in held
      BY <2>2, OthersKept DEF Resource
    <3> QED BY <3>1 DEF LifeInv, LoadsRight, ReleasedInOrder
  <2> QED BY <2>1, <2>2
<1> QED BY <1>1, <1>2, <1>3, <1>4 DEF LifeInv, LoadsRight

(* The own load of each step.                                              *)
LEMMA AcquireKeeps ==
  ASSUME LifeInv, Acquire
  PROVE  LifeInv'
<1>1. /\ mod = "coming" /\ todo # <<>> /\ todo' = Tail(todo)
      /\ UNCHANGED <<mod, ex, nload, file>>
      /\ \/ Head(todo) = "renumber" /\ dev_num' = "other" /\ UNCHANGED held
         \/ /\ Head(todo) \in Resource /\ (Head(todo) = "device" => Held("class"))
            /\ held' = held \cup {Mine(Head(todo))}
            /\ dev_num' = IF Head(todo) = "region" THEN "own" ELSE dev_num
  BY DEF Acquire
<1>2. nload \in Load /\ ex[nload] \in 2 .. 5 /\ todo \in Seq(Steps(ex[nload]))
  BY <1>1 DEF LifeInv, TodoRight
<1>3. Head(todo) \in Steps(ex[nload]) /\ todo' \in Seq(Steps(ex[nload]))
  BY <1>1, <1>2
<1>4. CASE ex[nload] \in {3, 4}
  <2>1. Head(todo) # "renumber" /\ (Head(todo) = "cdev" => ex[nload] = 4)
    BY <1>3, <1>4 DEF Steps
  <2>2. /\ \A r \in Resource : Held(r)' <=> Held(r) \/ r = Head(todo)
        /\ dev_num' = IF Head(todo) = "region" THEN "own" ELSE dev_num
    BY <1>1, <2>1 DEF Held, Mine
  <2>3. Loading
    BY <1>1, <1>4 DEF LifeInv, TodoRight
  <2>4. \A r \in {"region", "class", "device", "cdev"} : r \in Resource
    BY DEF Resource
  <2>5. Loading' /\ (Held("device")' => Held("class")') /\ (Held("cdev")' => Held("region")')
    <3>1. CASE Head(todo) = "region"
      <4>1. HeldOnly({}) /\ todo' \in {<<"class", "device">>, <<"class", "device", "cdev">>}
        BY <1>1, <2>3, <3>1, LoadingStep
      <4>2. HeldOnly({"region"})' /\ dev_num' = "own" /\ Held("region")'
        BY <2>2, <2>4, <3>1, <4>1 DEF HeldOnly
      <4> QED BY <2>4, <4>1, <4>2 DEF Loading, HeldOnly
    <3>2. CASE Head(todo) = "class"
      <4>1. /\ HeldOnly({"region"}) /\ dev_num = "own" /\ Held("region")
            /\ todo' \in {<<"device">>, <<"device", "cdev">>}
        BY <1>1, <2>3, <3>2, LoadingStep
      <4>2. HeldOnly({"region", "class"})' /\ dev_num' = "own" /\ Held("region")'
        BY <2>2, <2>4, <3>2, <4>1 DEF HeldOnly
      <4> QED BY <2>4, <4>1, <4>2 DEF Loading, HeldOnly
    <3>3. CASE Head(todo) = "device"
      <4>1. /\ HeldOnly({"region", "class"}) /\ dev_num = "own" /\ Held("region")
            /\ todo' \in {<<>>, <<"cdev">>}
        BY <1>1, <2>3, <3>3, LoadingStep
      <4>2. /\ HeldOnly({"region", "class", "device"})' /\ dev_num' = "own" /\ Held("region")'
            /\ Held("class")'
        BY <1>1, <2>2, <2>4, <3>3, <4>1 DEF HeldOnly
      <4> QED BY <4>1, <4>2 DEF Loading
    <3>4. CASE Head(todo) = "cdev"
      <4>1. /\ HeldOnly({"region", "class", "device"}) /\ dev_num = "own" /\ Held("region")
            /\ todo' = <<>>
        BY <1>1, <2>3, <3>4, LoadingStep
      <4>2. /\ HeldOnly({"region", "class", "device", "cdev"})' /\ dev_num' = "own"
            /\ Held("region")' /\ (Held("device")' => Held("class")')
        <5>1. Held("device") => Held("class")
          BY <1>2, <1>4 DEF LifeInv, LoadsRight, ReleasedInOrder, Held, Mine
        <5> QED BY <2>2, <2>4, <3>4, <4>1, <5>1 DEF HeldOnly
      <4> QED BY <1>1, <2>1, <3>4, <4>1, <4>2 DEF Loading
    <3> QED BY <1>1, <2>3, <3>1, <3>2, <3>3, <3>4, LoadingStep
  <2>6. TodoRight'
    BY <1>1, <1>2, <1>3, <2>5 DEF TodoRight
  <2>7. FilesRight'
    <3>1. Held("cdev") => Held("cdev")'
      BY <2>2, <2>4
    <3> QED BY <1>1, <3>1 DEF LifeInv, FilesRight
  <2> QED BY <1>1, <2>5, <2>6, <2>7, OwnLoad DEF LoadStep
<1>5. CASE ex[nload] \notin {3, 4}
  <2>1. TodoRight'
    BY <1>1, <1>2, <1>3, <1>5 DEF TodoRight
  <2>2. FilesRight'
    BY <1>1, <1>5 DEF LifeInv, FilesRight
  <2> QED BY <1>5, <2>1, <2>2, OwnLoad DEF LoadStep
<1> QED BY <1>4, <1>5

LEMMA FailUnseenKeeps ==
  ASSUME LifeInv, FailUnseen
  PROVE  LifeInv'
<1>1. /\ mod = "coming" /\ todo # <<>> /\ todo' = Tail(todo) /\ Head(todo) \in {"class", "device"}
      /\ UNCHANGED <<mod, ex, nload, held, dev_num, file>>
  BY DEF FailUnseen
<1>2. /\ nload \in Load /\ ex[nload] \in 2 .. 5 /\ todo \in Seq(Steps(ex[nload]))
      /\ \A r \in Resource : Held(r)' <=> Held(r)
  BY <1>1 DEF LifeInv, TodoRight, Held, Mine
<1>3. todo' \in Seq(Steps(ex[nload]))
  BY <1>1, <1>2
<1>4. ASSUME ex[nload] \in {3, 4} PROVE Loading'
  <2>1. Loading
    BY <1>1, <1>4 DEF LifeInv, TodoRight
  <2>2. dev_num' = "own" /\ Held("region")'
    BY <1>1, <2>1, LoadingStep DEF Held, Mine
  <2>3. \/ /\ HeldOnly({"region"}) /\ todo' \in {<<"device">>, <<"device", "cdev">>}
        \/ /\ HeldOnly({"region", "class"}) /\ todo' \in {<<>>, <<"cdev">>}
    BY <1>1, <2>1, LoadingStep
  <2>4. \/ /\ HeldOnly({"region", "class"})' /\ todo' \in {<<"device">>, <<"device", "cdev">>}
        \/ /\ HeldOnly({"region", "class", "device"})' /\ todo' \in {<<>>, <<"cdev">>}
    BY <1>2, <2>3 DEF HeldOnly
  <2> QED BY <2>2, <2>4 DEF Loading
<1>5. TodoRight' /\ FilesRight'
  BY <1>1, <1>2, <1>3, <1>4 DEF LifeInv, TodoRight, FilesRight, Held, Mine
<1>6. ex[nload] \in {3, 4} => (Held("device") => Held("class")) /\ (Held("cdev") => Held("region"))
  BY <1>2 DEF LifeInv, LoadsRight, ReleasedInOrder, Held, Mine
<1> QED BY <1>1, <1>5, <1>6, OwnLoad DEF LoadStep, Held, Mine

LEMMA FailKeeps ==
  ASSUME LifeInv, Fail
  PROVE  LifeInv'
<1>1. /\ mod = "coming" /\ todo # <<>> /\ mod' = "failing"
      /\ Head(todo) \in {"region", "cdev", "buffer"}
      /\ todo' = Code(ex[nload]).unwind[Head(todo)]
      /\ UNCHANGED <<ex, nload, held, dev_num, file>>
  BY DEF Fail
<1>2. /\ nload \in Load /\ ex[nload] \in 2 .. 5 /\ todo \in Seq(Steps(ex[nload]))
      /\ \A r \in Resource : Held(r)' <=> Held(r)
  BY <1>1 DEF LifeInv, TodoRight, Held, Mine
<1>3. Head(todo) \in Steps(ex[nload])
  BY <1>1, <1>2
<1>4. ASSUME ex[nload] \in {3, 4} PROVE Unloading' /\ ~Held("cdev") /\ ~Held("cdev")'
  <2>1. Loading
    BY <1>1, <1>4 DEF LifeInv, TodoRight
  <2>2. CASE Head(todo) = "region"
    <3>1. HeldOnly({}) /\ todo' = <<>>
      BY <1>1, <1>2, <2>1, <2>2, LoadingStep, UnwindOf
    <3>2. ~Held("cdev") /\ ~Held("cdev")'
      BY <1>2, <3>1 DEF HeldOnly, Resource
    <3> QED BY <1>2, <3>1, <3>2 DEF Unloading, HeldOnly
  <2>3. CASE Head(todo) = "cdev"
    <3>1. ex[nload] = 4
      BY <1>3, <1>4, <2>3 DEF Steps
    <3>2. HeldOnly({"region", "class", "device"}) /\ dev_num = "own"
      BY <1>1, <2>1, <2>3, LoadingStep
    <3>3. todo' = <<"device", "class", "region">>
      BY <1>1, <2>3, <3>1, UnwindOf
    <3>4. HeldOnly({"region", "class", "device"})' /\ ~Held("cdev") /\ ~Held("cdev")'
      BY <1>2, <3>2 DEF HeldOnly, Resource
    <3> QED BY <1>1, <3>2, <3>3, <3>4 DEF Unloading
  <2>4. Head(todo) # "buffer"
    BY <1>3, <1>4 DEF Steps
  <2> QED BY <1>1, <2>2, <2>3, <2>4
<1>5. TodoRight'
  BY <1>1, <1>2, <1>4 DEF TodoRight
<1>6. FilesRight'
  BY <1>1, <1>4 DEF LifeInv, FilesRight
<1>7. ex[nload] \in {3, 4} => (Held("device") => Held("class")) /\ (Held("cdev") => Held("region"))
  BY <1>2 DEF LifeInv, LoadsRight, ReleasedInOrder, Held, Mine
<1> QED BY <1>1, <1>5, <1>6, <1>7, OwnLoad DEF LoadStep, Held, Mine

LEMMA InitReturnsKeeps ==
  ASSUME LifeInv, InitReturns
  PROVE  LifeInv'
<1>1. /\ mod = "coming" /\ todo = <<>> /\ mod' = "live"
      /\ UNCHANGED <<ex, nload, todo, held, dev_num, file>>
  BY DEF InitReturns
<1>2. nload \in Load /\ ex[nload] \in 2 .. 5 /\ \A r \in Resource : Held(r)' <=> Held(r)
  BY <1>1 DEF LifeInv, TodoRight, Held, Mine
<1>3. ASSUME ex[nload] \in {3, 4} PROVE Live'
  <2>1. Loading
    BY <1>1, <1>3 DEF LifeInv, TodoRight
  <2>2. /\ dev_num = "own" /\ HeldOnly({"region", "class", "device", "cdev"})
        /\ ex[nload] # 4 => HeldOnly({"region", "class", "device"})
    BY <1>1, <2>1, NothingLeft
  <2> QED BY <1>1, <1>2, <1>3, <2>2 DEF Live, HeldOnly
<1>4. TodoRight' /\ FilesRight'
  BY <1>1, <1>2, <1>3 DEF TodoRight, LifeInv, FilesRight
<1>5. ex[nload] \in {3, 4} => (Held("device") => Held("class")) /\ (Held("cdev") => Held("region"))
  BY <1>2 DEF LifeInv, LoadsRight, ReleasedInOrder, Held, Mine
<1> QED BY <1>1, <1>4, <1>5, OwnLoad DEF LoadStep, Held, Mine

LEMMA RmmodKeeps ==
  ASSUME LifeInv, Rmmod
  PROVE  LifeInv'
<1>1. /\ mod = "live" /\ mod' = "going" /\ todo' = Code(ex[nload]).exit
      /\ \A u \in User : file[u].load # nload
      /\ UNCHANGED <<ex, nload, held, dev_num, file>>
  BY DEF Rmmod
<1>2. nload \in Load /\ ex[nload] \in 2 .. 5 /\ \A r \in Resource : Held(r)' <=> Held(r)
  BY <1>1 DEF LifeInv, TodoRight, Held, Mine
<1>3. ASSUME ex[nload] \in {3, 4} PROVE Unloading'
  <2>1. Live
    BY <1>1, <1>3 DEF LifeInv, TodoRight
  <2>2. CASE ex[nload] = 3
    <3>1. dev_num' = "own" /\ HeldOnly({"region", "class", "device"})'
      BY <1>1, <1>2, <2>1, <2>2 DEF Live, HeldOnly
    <3> QED BY <1>1, <2>2, <3>1, ExitOf DEF Unloading
  <2>3. CASE ex[nload] = 4
    <3>1. dev_num' = "own" /\ HeldOnly({"region", "class", "device", "cdev"})'
      BY <1>1, <1>2, <2>1, <2>3 DEF Live, HeldOnly
    <3> QED BY <1>1, <2>3, <3>1, ExitOf DEF Unloading
  <2> QED BY <1>3, <2>2, <2>3
<1>4. TodoRight' /\ FilesRight'
  BY <1>1, <1>2, <1>3 DEF TodoRight, LifeInv, FilesRight
<1>5. ex[nload] \in {3, 4} => (Held("device") => Held("class")) /\ (Held("cdev") => Held("region"))
  BY <1>2 DEF LifeInv, LoadsRight, ReleasedInOrder, Held, Mine
<1> QED BY <1>1, <1>4, <1>5, OwnLoad DEF Held, Mine

LEMMA ReleaseKeeps ==
  ASSUME LifeInv, Release
  PROVE  LifeInv'
<1>1. /\ mod \in {"failing", "going"} /\ todo # <<>> /\ todo' = Tail(todo)
      /\ held' = IF Head(todo) = "region" /\ dev_num # "own" THEN held
                 ELSE held \ {Mine(Head(todo))}
      /\ UNCHANGED <<mod, ex, nload, dev_num, file>>
  BY DEF Release
<1>2. nload \in Load /\ ex[nload] \in 2 .. 5
  BY <1>1 DEF LifeInv, TodoRight
<1>3. ASSUME ex[nload] \in {3, 4}
      PROVE  /\ Unloading' /\ (mod = "failing" => ~Held("cdev")')
             /\ (Held("device")' => Held("class")') /\ (Held("cdev")' => Held("region")')
  <2>1. Unloading
    BY <1>1, <1>3 DEF LifeInv, TodoRight
  <2>2. dev_num' = "own" /\ \A r \in Resource : Held(r)' <=> Held(r) /\ r # Head(todo)
    BY <1>1, <2>1, UnloadingStep DEF Held, Mine
  <2>3. (Held("device") => Held("class")) /\ (Held("cdev") => Held("region"))
    BY <1>2, <1>3 DEF LifeInv, LoadsRight, ReleasedInOrder, Held, Mine
  <2>4. \A r \in {"region", "class", "device", "cdev"} : r \in Resource
    BY DEF Resource
  <2>9. mod = "failing" => ~Held("cdev")'
    BY <1>1, <1>3, <2>2, <2>4 DEF LifeInv, TodoRight
  <2>5. CASE Head(todo) = "region"
    <3>1. HeldOnly({"region"}) /\ todo' = <<>>
      BY <1>1, <2>1, <2>5, UnloadingStep
    <3>2. HeldOnly({})'
      BY <2>2, <2>5, <3>1 DEF HeldOnly
    <3> QED BY <2>4, <3>1, <3>2 DEF Unloading, HeldOnly
  <2>6. CASE Head(todo) = "class"
    <3>1. HeldOnly({"region", "class"}) /\ todo' = <<"region">>
      BY <1>1, <2>1, <2>6, UnloadingStep
    <3>2. HeldOnly({"region"})'
      BY <2>2, <2>6, <3>1 DEF HeldOnly
    <3> QED BY <2>2, <2>4, <3>1, <3>2 DEF Unloading, HeldOnly
  <2>7. CASE Head(todo) = "device"
    <3>1. HeldOnly({"region", "class", "device"}) /\ todo' = <<"class", "region">>
      BY <1>1, <2>1, <2>7, UnloadingStep
    <3>2. HeldOnly({"region", "class"})'
      BY <2>2, <2>7, <3>1 DEF HeldOnly
    <3> QED BY <2>2, <2>4, <3>1, <3>2 DEF Unloading, HeldOnly
  <2>8. CASE Head(todo) = "cdev"
    <3>1. /\ HeldOnly({"region", "class", "device", "cdev"})
          /\ todo' = <<"device", "class", "region">>
      BY <1>1, <2>1, <2>8, UnloadingStep
    <3>2. HeldOnly({"region", "class", "device"})'
      BY <2>2, <2>8, <3>1 DEF HeldOnly
    <3>3. Unloading'
      BY <2>2, <3>1, <3>2 DEF Unloading
    <3> QED BY <2>2, <2>3, <2>4, <2>8, <3>3
  <2> QED BY <1>1, <2>1, <2>9, <2>5, <2>6, <2>7, <2>8, UnloadingStep
<1>4. TodoRight' /\ FilesRight'
  BY <1>1, <1>2, <1>3 DEF TodoRight, LifeInv, FilesRight
<1> QED BY <1>1, <1>3, <1>4, OwnLoad DEF LoadStep

(* A fault leaves everything as it is; no file is served from then on.     *)
LEMMA ReleaseFaultsKeeps ==
  ASSUME LifeInv, ReleaseFaults
  PROVE  LifeInv'
<1>1. /\ mod \in {"failing", "going"} /\ mod' = "oops"
      /\ UNCHANGED <<ex, nload, todo, held, dev_num, file>>
  BY DEF ReleaseFaults
<1>2. nload \in Load /\ ex[nload] \in 2 .. 5 /\ \A r \in Resource : Held(r)' <=> Held(r)
  BY <1>1 DEF LifeInv, TodoRight, Held, Mine
<1>3. TodoRight' /\ FilesRight'
  BY <1>1, <1>2 DEF TodoRight, LifeInv, FilesRight
<1>4. ex[nload] \in {3, 4} => (Held("device") => Held("class")) /\ (Held("cdev") => Held("region"))
  BY <1>2 DEF LifeInv, LoadsRight, ReleasedInOrder, Held, Mine
<1> QED BY <1>1, <1>3, <1>4, OwnLoad DEF LoadStep, Held, Mine

LEMMA GoneKeeps ==
  ASSUME LifeInv, Gone
  PROVE  LifeInv'
<1>1. /\ mod \in {"failing", "going"} /\ todo = <<>> /\ mod' = "absent"
      /\ UNCHANGED <<ex, nload, todo, held, dev_num, file>>
  BY DEF Gone
<1>2. ASSUME ex[nload] \in {3, 4} PROVE \A r \in Resource : ~Held(r)
  <2>1. Unloading
    BY <1>1, <1>2 DEF LifeInv, TodoRight
  <2> QED BY <1>1, <2>1, NothingLeft DEF HeldOnly
<1>3. TodoRight' /\ FilesRight'
  BY <1>1 DEF TodoRight, LifeInv, FilesRight
<1> QED BY <1>1, <1>2, <1>3, OwnLoad DEF LoadStep, Held, Mine, Resource

-----------------------------------------------------------------------------
(* Opening a file, a call on it and closing it change no load.             *)
LEMMA FilesKeep ==
  ASSUME LifeInv, NEW u \in User, OpenFile(u) \/ FileCall(u) \/ CloseFile(u)
  PROVE  LifeInv'
<1>1. UNCHANGED <<mod, ex, nload, todo, held, dev_num>>
  BY DEF OpenFile, FileCall, CloseFile
<1>2. TodoRight' /\ LoadsRight'
  BY <1>1 DEF LifeInv, TodoRight, LoadsRight, Loading, Unloading, Live, HeldOnly, Held, Mine,
     GivesBackAll, ReleasedInOrder, Loaded
<1>3. /\ file \in [User -> [load : 0 .. MaxLoad, busy : BOOLEAN]]
      /\ \A v \in User : file[v].busy => file[v].load # 0
      /\ nload \in 0 .. MaxLoad
  BY DEF LifeInv, LifeTypeOK
<1>4. CASE OpenFile(u)
  <2>1. file' = [file EXCEPT ![u] = [load |-> nload, busy |-> FALSE]]
    BY <1>4 DEF OpenFile
  <2>2. ex[nload] = 4 => mod = "live" \/ (mod = "coming" /\ Held("cdev"))
    BY <1>4 DEF OpenFile, LifeInv, TodoRight
  <2>3. /\ file' \in [User -> [load : 0 .. MaxLoad, busy : BOOLEAN]]
        /\ \A v \in User : file'[v].busy => file'[v].load # 0
    BY <1>3, <2>1
  <2>4. \A v \in User : file'[v].load = nload \/ file'[v] = file[v]
    BY <1>3, <2>1
  <2>5. FilesRight'
    BY <1>1, <1>3, <2>2, <2>4 DEF LifeInv, FilesRight, Held, Mine
  <2> QED BY <1>1, <1>2, <2>3, <2>5 DEF LifeInv, LifeTypeOK
<1>5. CASE FileCall(u)
  <2>1. file[u].load # 0 /\ file' = [file EXCEPT ![u].busy = ~@]
    BY <1>5 DEF FileCall
  <2>2. /\ file' \in [User -> [load : 0 .. MaxLoad, busy : BOOLEAN]]
        /\ \A v \in User : file'[v].load = file[v].load
        /\ \A v \in User : file'[v].busy => file'[v].load # 0
    BY <1>3, <2>1
  <2>3. FilesRight'
    BY <1>1, <2>2 DEF LifeInv, FilesRight, Held, Mine
  <2> QED BY <1>1, <1>2, <2>2, <2>3 DEF LifeInv, LifeTypeOK
<1>6. CASE CloseFile(u)
  <2>1. file' = [file EXCEPT ![u] = Closed]
    BY <1>6 DEF CloseFile
  <2>2. /\ file' \in [User -> [load : 0 .. MaxLoad, busy : BOOLEAN]]
        /\ \A v \in User : file'[v].busy => file'[v].load # 0
        /\ \A v \in User : file'[v].load = 0 \/ file'[v] = file[v]
    <3>1. Closed \in [load : 0 .. MaxLoad, busy : BOOLEAN] /\ Closed.load = 0 /\ ~Closed.busy
      BY ChrdevAssumption DEF Closed
    <3>2. \A v \in User : file'[v] = Closed \/ file'[v] = file[v]
      BY <1>3, <2>1
    <3> QED BY <1>3, <2>1, <3>1, <3>2
  <2>3. FilesRight'
    BY <1>1, <1>3, <2>2 DEF LifeInv, FilesRight, Held, Mine
  <2> QED BY <1>1, <1>2, <2>2, <2>3 DEF LifeInv, LifeTypeOK
<1> QED BY <1>4, <1>5, <1>6

LEMMA LifeKeeps ==
  ASSUME LifeInv, [LifeNext]_lifeVars
  PROVE  LifeInv'
<1>1. CASE LoadStep
  BY <1>1, AcquireKeeps, FailUnseenKeeps, FailKeeps, InitReturnsKeeps, ReleaseKeeps,
     ReleaseFaultsKeeps, GoneKeeps DEF LoadStep
<1>2. CASE UNCHANGED lifeVars
  BY <1>2 DEF lifeVars, LifeInv, LifeTypeOK, TodoRight, LoadsRight, FilesRight, Loading,
     Unloading, Live, HeldOnly, Held, Mine, GivesBackAll, ReleasedInOrder, Loaded
<1> QED
  BY <1>1, <1>2, InsmodKeeps, RmmodKeeps, FilesKeep DEF LifeNext, LifeEnded

LEMMA LifeHolds == LifeSpec => []LifeInv
BY LifeStarts, LifeKeeps, PTL DEF LifeSpec

(* Examples 03 and 04 leave nothing registered, however far chdev_init got *)
(* and whatever earlier loads left.                                        *)
THEOREM LoadsGiveBack == LifeSpec => []GivesBackAll
BY LifeHolds, PTL DEF LifeInv, LoadsRight

(* They release in the order in which one thing rests on another.          *)
THEOREM LoadsReleaseInOrder == LifeSpec => []ReleasedInOrder
BY LifeHolds, PTL DEF LifeInv, LoadsRight

(* No file of example 04 is open on a module that failed or is going.      *)
THEOREM OpenFilesAreServed == LifeSpec => []FilesServed
<1>1. LifeInv => FilesServed
  BY DEF LifeInv, FilesRight, FilesServed
<1> QED BY LifeHolds, <1>1, PTL

-----------------------------------------------------------------------------
(* Each step of the kernel modules is of one of the three.                 *)
LEMMA DeviceIsThree == Spec => LifeSpec /\ BufSpec /\ GpioSpec
<1>1. Init => LifeInit /\ BufInit /\ GpioInit
  BY DEF Init
<1>2. [Next]_vars => [LifeNext]_lifeVars /\ [BufNext]_bufVars /\ [GpioNext]_gpioVars
  BY DEF Next, vars
<1> QED BY <1>1, <1>2, PTL DEF Spec, LifeSpec, BufSpec, GpioSpec

(* The types of all three, in whichever the behaviour is.                  *)
THEOREM DeviceIsTyped == Spec => []DeviceTypeOK
<1>1. LifeInv /\ BufInv /\ GpioInv => DeviceTypeOK
  BY DEF LifeInv, BufInv, GpioInv, DeviceTypeOK
<1> QED
  BY DeviceIsThree, LifeHolds, BufStarts, BufKeeps, GpioStarts, GpioKeeps, <1>1, PTL
     DEF BufSpec, GpioSpec
=============================================================================
