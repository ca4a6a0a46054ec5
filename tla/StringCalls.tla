---------------------------- MODULE StringCalls ----------------------------
(***************************************************************************)
(* Calls of the routines of module Strings, one at a time, against what    *)
(* their callers rely on.  An action is a call, with the memory it found   *)
(* kept beside the one it leaves; give_back makes room for the next call.  *)
(***************************************************************************)
EXTENDS Strings

CONSTANTS
    Memories,     \* memories the calls find
    Fills,        \* values memset and its kin are called with
    Formats       \* formats of printf: sequences of the pieces below

\* Memories are bytes, with a NUL at the last address; fills are numbers.
MemoriesWellFormed ==
    /\ \A m \in Memories :
           LET top == Cardinality(DOMAIN m) - 1
           IN  top \in Nat /\ m \in [0 .. top -> 0 .. 255] /\ m[top] = 0
    /\ Fills \subseteq Int

\* What the pieces of a format are: conversions of numbers, or of the string at an
\* address, and characters, of which a single % is none.
FormatsWellFormed ==
    \A pieces \in Formats :
        /\ pieces \in Seq([kind : {"copy", "percent", "padded", "x", "u", "d", "c", "s"}, arg : Nat])
        /\ \A p \in Range(pieces) :
               /\ p.kind = "copy" => p.arg # Percent
               /\ p.kind \in {"x", "padded", "u", "d"} => p.arg < UINT
               /\ p.kind = "s" => \A m \in Memories : p.arg \in DOMAIN m

VARIABLES
    mem,
    before,       \* history: the memory the call found
    call,         \* the call: a record with its name and arguments, or Idle
    result        \* what it returned or printed: a sequence

vars == <<mem, before, call, result>>

Idle == [name |-> "none"]
Addresses == DOMAIN before
Size == Cardinality(Addresses)

TypeOK ==
    /\ before \in Memories
    /\ mem \in [Addresses -> 0 .. 255]
    /\ call = Idle => mem = before

Init == mem \in Memories /\ before = mem /\ call = Idle /\ result = << >>

Call(c, m, r) ==
    call' = c /\ mem' = m /\ result' = r /\ UNCHANGED before

\* What all but memmove may be given: ranges apart, or one moved to the front.
Proper(d, s, n) == d <= s \/ s + n <= d

copy(d, s, n) ==
    LET c(name) == [name |-> name, d |-> d, s |-> s, n |-> n]
    IN  /\ d + n <= Size /\ s + n <= Size
        /\ \/ Call(c("memmove"), memmove(mem, d, s, n), << >>)
           \/ Proper(d, s, n) /\ Call(c("memcpy"), memcpy(mem, d, s, n), << >>)
           \/ Proper(d, s, n) /\ Call(c("strncpy"), strncpy(mem, d, s, n), << >>)

copy_string(d, s) ==
    LET l == strlen(mem, s) + 1
    IN  /\ Proper(d, s, l) /\ d + l <= Size
        /\ \E m \in {strcpy(mem, d, s), ece391_strcpy(mem, d, s)} :
               Call([name |-> "strcpy", d |-> d, s |-> s, n |-> l], m, << >>)

fill(d, v, n) ==
    LET c(unit) == [name |-> "memset", d |-> d, value |-> v, n |-> n, unit |-> unit]
    IN  \/ d + n <= Size /\ Call(c(1), memset(mem, d, v, n), << >>)
        \/ d + 2 * n <= Size /\ Call(c(2), memset_word(mem, d, v, n), << >>)
        \/ d + 4 * n <= Size /\ Call(c(4), memset_dword(mem, d, v, n), << >>)

compare(a, b, n) ==
    Call([name |-> "compare", d |-> a, s |-> b, n |-> n], mem,
         <<strncmp(mem, a, b, n), ece391_strncmp(mem, a, b, n), ece391_strcmp(mem, a, b)>>)

\* A piece of a format: a character to copy, or a conversion and its argument.
Text(piece) ==
    CASE piece.kind = "copy" -> <<piece.arg>>
      [] piece.kind = "percent" -> <<Percent, Percent>>
      [] piece.kind = "padded" -> <<Percent, Sharp, Specifier.x>>
      [] OTHER -> <<Percent, Specifier[piece.kind]>>

Argument(piece) == IF piece.kind \in {"copy", "percent"} THEN << >> ELSE <<piece.arg>>

print(pieces) ==
    Call([name |-> "printf", pieces |-> pieces], mem,
         printf(mem, FlattenSeq([k \in DOMAIN pieces |-> Text(pieces[k])]),
                FlattenSeq([k \in DOMAIN pieces |-> Argument(pieces[k])])))

number(value, radix) ==
    Call([name |-> "itoa", value |-> value, radix |-> radix], mem, ece391_itoa(value, radix))

give_back ==
    call # Idle /\ call' = Idle /\ mem' = before /\ result' = << >> /\ UNCHANGED before

Calls ==
    \/ \E d \in Addresses, s \in Addresses, n \in 0 .. Size : copy(d, s, n) \/ compare(d, s, n)
    \/ \E d \in Addresses, s \in Addresses : copy_string(d, s)
    \/ \E d \in Addresses, v \in Fills, n \in 0 .. Size : fill(d, v, n)
    \/ \E pieces \in Formats : print(pieces)
    \/ \E value \in 0 .. UINT - 1, radix \in {2, 10} : number(value, radix)

Next == (call = Idle /\ Calls) \/ give_back

Spec == Init /\ [][Next]_vars

-----------------------------------------------------------------------------
\* A routine that writes leaves in its range the bytes it was told to put there,
\* as they were before the call, and every other byte as it was: however the
\* range is aligned and, if it is memmove, wherever the ranges overlap.
WritesExactly ==
    /\ call.name \in {"memcpy", "memmove", "strcpy"} =>
           mem = [k \in Addresses |-> IF k \in call.d .. call.d + call.n - 1
                                      THEN before[call.s + k - call.d] ELSE before[k]]
    /\ call.name = "strncpy" =>
           mem = [k \in Addresses |->
                     CASE k \notin call.d .. call.d + call.n - 1 -> before[k]
                       [] OTHER -> IF \E j \in call.s .. call.s + k - call.d : before[j] = 0
                                   THEN 0 ELSE before[call.s + k - call.d]]
    /\ call.name = "memset" =>
           mem = [k \in Addresses |->
                     IF k \in call.d .. call.d + call.unit * call.n - 1
                     THEN (call.value \div 256 ^ ((k - call.d) % call.unit)) % 256 ELSE before[k]]

\* The strings at two addresses, cut to n bytes.
Cut(a, n) == LET l == strlen(before, a)
             IN  [k \in 1 .. (IF l < n THEN l ELSE n) |-> before[a + k - 1]]

\* A comparison returns 0 for equal strings, and for no others, up to the length
\* compared; the kernel's routine and the user programs' agree on that.
ComparesAsStrings ==
    call.name = "compare" =>
        /\ result[1] = 0 <=> Cut(call.d, call.n) = Cut(call.s, call.n)
        /\ result[2] = 0 <=> result[1] = 0
        /\ result[3] = 0 <=> Cut(call.d, Size) = Cut(call.s, Size)

\* The numeral of a number: as many digits as it needs, the highest first.
Numeral(v, radix) ==
    LET n == CHOOSE n \in 1 .. v + 1 : v < Power(radix, n) /\ (n = 1 \/ v >= Power(radix, n - 1))
    IN  [k \in 1 .. n |-> Digit((v \div Power(radix, n - k)) % radix)]

Shown(piece) ==
    CASE piece.kind = "copy" -> <<piece.arg>>
      [] piece.kind = "percent" -> <<Percent>>
      [] piece.kind = "x" -> Numeral(piece.arg, 16)
      [] piece.kind = "padded" -> [k \in 1 .. HEX_DIGITS |->
                                      Digit((piece.arg \div Power(16, HEX_DIGITS - k)) % 16)]
      [] piece.kind = "u" -> Numeral(piece.arg, 10)
      [] piece.kind = "d" -> IF piece.arg < UINT \div 2 THEN Numeral(piece.arg, 10)
                             ELSE <<Minus>> \o Numeral(UINT - piece.arg, 10)
      [] piece.kind = "c" -> <<piece.arg % 256>>
      [] piece.kind = "s" -> [k \in 1 .. strlen(before, piece.arg) |-> before[piece.arg + k - 1]]

\* printf shows the pieces of its format one after the other, each conversion
\* with its own argument and every number with its value, the least negative
\* and the widest included.
FormatsInOrder ==
    /\ call.name = "printf" =>
           result = FlattenSeq([k \in DOMAIN call.pieces |-> Shown(call.pieces[k])])
    /\ call.name = "itoa" => result = Numeral(call.value, call.radix)
=============================================================================
