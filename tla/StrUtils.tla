------------------------------ MODULE StrUtils ------------------------------
(***************************************************************************)
(* The string functions of 1.General_Knowledge, each called with any short *)
(* string in an array of exactly its length and the terminator.  A step is *)
(* one turn of a loop.  strtol and the limits of int and long are          *)
(* external; calls with a NULL pointer, which return at once, are left out.*)
(***************************************************************************)
EXTENDS Integers, SequencesExt

CONSTANTS Alphabet,            \* characters of the strings
          MaxLen,              \* bound: their length
          IntMax, LongMax      \* the largest int and long; the least is one
                               \* further from zero

ASSUME StrAssumption ==
  /\ Alphabet \subseteq {" ", "-", "0", "1", "2", "3", "4", "5", "6", "7", "8", "9", "x"}
  /\ MaxLen \in Nat /\ IntMax \in Nat /\ LongMax \in Nat /\ IntMax <= LongMax

NUL   == "NUL"
Digits == <<"0", "1", "2", "3", "4", "5", "6", "7", "8", "9">>
Digit  == [c \in Range(Digits) |-> CHOOSE d \in 0 .. 9 : Digits[d + 1] = c]

VARIABLES fn,      \* the function called
          len,     \* strlen of its argument
          given,   \* the argument, at indices 0 .. len
          str,     \* the array as it is now
          fpc,     \* where the function is
          i, j,    \* its indices; start and end in str_trim
          ret,     \* what str_to_int returned
          out

strVars == <<fn, len, given, str, fpc, i, j, ret, out>>

Strings(n) == {s \in [0 .. n -> Alphabet \cup {NUL}] : \A k \in 0 .. n : s[k] = NUL <=> k = n}

(* The call f(s).                                                          *)
StrStart(f, n, s) ==
  /\ fn = f /\ len = n /\ given = s /\ str = s
  /\ fpc = "start" /\ i = 0 /\ j = n - 1 /\ ret = -1 /\ out = 0

StrInit ==
  \E f \in {"str_reverse", "str_trim", "str_to_int"}, n \in 0 .. MaxLen :
    \E s \in Strings(n) : StrStart(f, n, s)

(* What a read finds; beyond the array it may be anything, say no space.   *)
Peek(k) == IF k \in 0 .. len THEN str[k] ELSE "x"

Turn(f, from, to) == fn = f /\ fpc = from /\ fpc' = to

-----------------------------------------------------------------------------
(* str_reverse                                                             *)

Swap ==
  /\ fn = "str_reverse" /\ fpc = "start" /\ i < j
  /\ str' = [str EXCEPT ![i] = str[j], ![j] = str[i]]
  /\ i' = i + 1 /\ j' = j - 1
  /\ UNCHANGED <<fn, len, given, fpc, ret, out>>

Reversed ==
  /\ Turn("str_reverse", "start", "done") /\ i >= j
  /\ UNCHANGED <<fn, len, given, str, i, j, ret, out>>

-----------------------------------------------------------------------------
(* str_trim                                                                *)

SkipLeading ==
  /\ IF Peek(i) = " "
       THEN fn = "str_trim" /\ fpc = "start" /\ i' = i + 1 /\ UNCHANGED fpc
       ELSE Turn("str_trim", "start", "tail") /\ UNCHANGED i
  /\ UNCHANGED <<fn, len, given, str, j, ret, out>>

(* Slip: without end >= start.                                             *)
SkipTrailingFreely ==
  /\ IF Peek(j) = " "
       THEN fn = "str_trim" /\ fpc = "tail" /\ j' = j - 1 /\ UNCHANGED fpc
       ELSE Turn("str_trim", "tail", "move") /\ UNCHANGED j
  /\ UNCHANGED <<fn, len, given, str, i, ret, out>>

SkipTrailing ==
  /\ IF j >= i /\ Peek(j) = " "
       THEN fn = "str_trim" /\ fpc = "tail" /\ j' = j - 1 /\ UNCHANGED fpc
       ELSE Turn("str_trim", "tail", "move") /\ UNCHANGED j
  /\ UNCHANGED <<fn, len, given, str, i, ret, out>>

(* Slip: the terminator is not set.                                        *)
MoveOnly ==
  /\ Turn("str_trim", "move", "done")
  /\ str' = [k \in 0 .. len |-> IF k < j - i + 1 THEN Peek(i + k) ELSE str[k]]
  /\ UNCHANGED <<fn, len, given, i, j, ret, out>>

(* memmove and the new terminator.                                         *)
Move ==
  /\ Turn("str_trim", "move", "done")
  /\ str' = [k \in 0 .. len |-> CASE k < j - i + 1 -> Peek(i + k)
                                  [] k = j - i + 1 -> NUL
                                  [] OTHER -> str[k]]
  /\ UNCHANGED <<fn, len, given, i, j, ret, out>>

-----------------------------------------------------------------------------
(* str_to_int                                                              *)

(* The number in s from index a to b - 1, by its digits.                   *)
Value(s, a, b) ==
  LET v[n \in 0 .. b - a] == IF n = 0 THEN 0 ELSE 10 * v[n - 1] + Digit[s[a + n - 1]]
  IN v[b - a]

(* strtol, base 10: where the number ends, or 0 when there is none, and    *)
(* the number, or the nearest that a long can hold.                        *)
ToLong(v) == IF v > LongMax THEN LongMax ELSE IF v < -LongMax - 1 THEN -LongMax - 1 ELSE v
Strtol(s) ==
  LET first == CHOOSE k \in 0 .. len : s[k] # " " /\ \A n \in 0 .. k - 1 : s[n] = " "
      sign  == IF s[first] = "-" THEN 1 ELSE 0
      end   == CHOOSE k \in first + sign .. len :
                 s[k] \notin DOMAIN Digit /\ \A n \in first + sign .. k - 1 : s[n] \in DOMAIN Digit
      abs   == Value(s, first + sign, end)
  IN IF end = first + sign THEN [end |-> 0, val |-> 0]
     ELSE [end |-> end, val |-> ToLong(IF sign = 1 THEN -abs ELSE abs)]

(* (int)val keeps the low bits.                                            *)
ToInt(v) == ((v + IntMax + 1) % (2 * (IntMax + 1))) - (IntMax + 1)

Convert ==
  /\ Turn("str_to_int", "start", "done")
  /\ LET r == Strtol(str) IN
       IF str[r.end] # NUL THEN ret' = 0 /\ UNCHANGED out
                           ELSE ret' = 1 /\ out' = ToInt(r.val)
  /\ UNCHANGED <<fn, len, given, str, i, j>>

-----------------------------------------------------------------------------
StrNext == Swap \/ Reversed \/ SkipLeading \/ SkipTrailing \/ Move \/ Convert
StrSpec == StrInit /\ [][StrNext]_strVars

-----------------------------------------------------------------------------
(* Type correctness: every index that is read or written is in the array,  *)
(* the length that str_trim moves is not negative, and a string stays one. *)
StrTypeOK ==
  /\ fn \in {"str_reverse", "str_trim", "str_to_int"} /\ len \in 0 .. MaxLen
  /\ str \in [0 .. len -> Alphabet \cup {NUL}] /\ \E k \in 0 .. len : str[k] = NUL
  /\ fpc \in {"start", "tail", "move", "done"}
  /\ i \in 0 .. len /\ j \in -1 .. len - 1
  /\ fn = "str_trim" => j >= i - 1
  /\ ret \in {-1, 0, 1}

ReverseRight ==
  fn = "str_reverse" /\ fpc = "done" =>
    str[len] = NUL /\ \A k \in 0 .. len - 1 : str[k] = given[len - 1 - k]

TrimRight ==
  fn = "str_trim" /\ fpc = "done" =>
    \E a \in 0 .. len : \E n \in 0 .. len - a :
      /\ str[n] = NUL /\ \A k \in 0 .. n - 1 : str[k] = given[a + k]
      /\ \A k \in 0 .. len - 1 : k < a \/ k >= a + n => given[k] = " "
      /\ n > 0 => str[0] # " " /\ str[n - 1] # " "

(* A number in decimal: spaces, perhaps a sign, digits, and nothing else.  *)
IsNumber(s) ==
  \E a, b \in 0 .. len - 1 :
    /\ a <= b /\ \A k \in 0 .. a - 1 : s[k] = " "
    /\ s[a] = "-" => a < b
    /\ s[a] \in DOMAIN Digit \cup {"-"} /\ b = len - 1
    /\ \A k \in a + 1 .. b : s[k] \in DOMAIN Digit
NumberOf(s) ==
  LET a == CHOOSE k \in 0 .. len - 1 : s[k] # " " /\ \A n \in 0 .. k - 1 : s[n] = " "
  IN IF s[a] = "-" THEN -Value(s, a + 1, len) ELSE Value(s, a, len)
FitsInt(v) == v \in -IntMax - 1 .. IntMax

ToIntRight ==
  /\ FitsInt(out)
  /\ fn = "str_to_int" /\ fpc = "done" =>
       IF IsNumber(given)
         THEN FitsInt(NumberOf(given)) => ret = 1 /\ out = NumberOf(given)
         ELSE len > 0 => ret = 0

(* str_reverse puts each character in the mirrored place.  What str_trim   *)
(* leaves begins and ends with something, and only spaces were dropped     *)
(* before and after it.  str_to_int takes every number that an int can     *)
(* hold and gives its value, stores nothing that is not an int, and        *)
(* refuses every string but the empty one that is not a number.            *)
StringsRight == ReverseRight /\ TrimRight /\ ToIntRight

(* Not kept.  strutils.c:38, "kiem tra loi" (check for errors): neither a  *)
(* number that is too large nor the empty string is one.                   *)
ErrorsFound ==
  fn = "str_to_int" /\ fpc = "done" /\ ret = 1 =>
    IsNumber(given) /\ out = NumberOf(given)
=============================================================================
