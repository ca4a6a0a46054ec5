------------------------------ MODULE Strings ------------------------------
(***************************************************************************)
(* The string and memory routines of lib.c and, for user programs, of      *)
(* ece391support.c.                                                        *)
(*                                                                         *)
(* A routine that writes memory takes a memory m, a function from a range  *)
(* of addresses to bytes, and gives the one after; the words of the        *)
(* routines in assembly are four bytes, and an address is aligned when its *)
(* last two bits are 0.  What a routine only prints is a sequence.         *)
(***************************************************************************)
EXTENDS Integers, Sequences, SequencesExt

CONSTANTS
    UINT,         \* unsigned numbers are below this, 2^32 in the code
    HEX_DIGITS    \* hexadecimal digits of one, 8 in the code

\* b to the n-th.
Power(b, n) ==
    LET power[k \in 0 .. n] == IF k = 0 THEN 1 ELSE b * power[k - 1]
    IN  power[n]

\* A number has HEX_DIGITS digits to the base 16.
ASSUME StringsAssumption ==
    /\ HEX_DIGITS \in Nat \ {0}
    /\ UINT = Power(16, HEX_DIGITS)

-----------------------------------------------------------------------------
(* Memory *)

\* n bytes one after the other, from the first on or from the last.
Forward(m, d, s, n) ==
    LET copy[i \in 0 .. n] ==
            IF i = 0 THEN m
            ELSE LET c == copy[i - 1] IN [c EXCEPT ![d + i - 1] = c[s + i - 1]]
    IN  copy[n]

Backward(m, d, s, n) ==
    LET copy[i \in 0 .. n] ==
            IF i = 0 THEN m
            ELSE LET c == copy[i - 1] IN [c EXCEPT ![d + n - i] = c[s + n - i]]
    IN  copy[n]

\* rep movsl: n words, each read whole before it is written.
Words(m, d, s, n) ==
    LET copy[i \in 0 .. n] ==
            IF i = 0 THEN m
            ELSE LET c == copy[i - 1]
                     at == d + 4 * (i - 1)
                 IN  [k \in DOMAIN m |-> IF k \in at .. at + 3 THEN c[s + k - d] ELSE c[k]]
    IN  copy[n]

\* Bytes up to a word of the destination, whole words, and the bytes left.
Lead(d, n) == LET h == (-d) % 4 IN IF h < n THEN h ELSE n
WordCount(d, n) == (n - Lead(d, n)) \div 4

\* MUTANT of Rest: the bytes before the first whole word are forgotten.
Rest_of_all(d, n) == n % 4

Rest(d, n) == (n - Lead(d, n)) % 4

memcpy(m, d, s, n) ==
    LET h == Lead(d, n)
        w == WordCount(d, n)
        whole == Words(Forward(m, d, s, h), d + h, s + h, w)
    IN  Forward(whole, d + h + 4 * w, s + h + 4 * w, Rest(d, n))

memmove(m, d, s, n) == IF s >= d THEN Forward(m, d, s, n) ELSE Backward(m, d, s, n)

Filled(m, d, n, byte) == [k \in DOMAIN m |-> IF k \in d .. d + n - 1 THEN byte ELSE m[k]]

\* Single bytes, words of four times the byte, single bytes.
memset(m, d, c, n) ==
    LET h == Lead(d, n)
        w == WordCount(d, n)
        whole == Filled(Filled(m, d, h, c % 256), d + h, 4 * w, c % 256)
    IN  Filled(whole, d + h + 4 * w, Rest(d, n), c % 256)

\* n units of this many bytes, the low byte of c first.
Units(m, d, c, n, size) ==
    [k \in DOMAIN m |-> IF k \in d .. d + size * n - 1 THEN (c \div 256 ^ ((k - d) % size)) % 256
                        ELSE m[k]]

memset_word(m, d, c, n) == Units(m, d, c, n, 2)
memset_dword(m, d, c, n) == Units(m, d, c, n, 4)

-----------------------------------------------------------------------------
(* Strings in memory, up to a NUL *)

\* Bytes from s up to the first NUL.
strlen(m, s) ==
    CHOOSE n \in {k - s : k \in DOMAIN m} :
        n >= 0 /\ m[s + n] = 0 /\ \A k \in 0 .. n - 1 : m[s + k] # 0

\* The loops stop at a NUL that the copying has not overwritten: the strings
\* do not overlap, or are moved towards the front.
strcpy(m, d, s) ==
    LET n == strlen(m, s) IN [Forward(m, d, s, n) EXCEPT ![d + n] = 0]

ece391_strcpy(m, d, s) == Forward(m, d, s, strlen(m, s) + 1)

strncpy(m, d, s, n) ==
    LET k == IF strlen(m, s) < n THEN strlen(m, s) ELSE n
    IN  Filled(Forward(m, d, s, k), d + k, n - k, 0)

\* MUTANT of Stops: one byte too many is compared.
Stops_one_more(m, a, b, n) ==
    {i \in 0 .. n : {a + i, b + i} \subseteq DOMAIN m /\ (m[a + i] # m[b + i] \/ m[a + i] = 0)}

\* Where a comparison of at most n bytes may stop.
Stops(m, a, b, n) ==
    {i \in 0 .. n - 1 : {a + i, b + i} \subseteq DOMAIN m /\ (m[a + i] # m[b + i] \/ m[a + i] = 0)}

Least(S) == CHOOSE i \in S : \A j \in S : i <= j

AsSigned(byte) == IF byte > 127 THEN byte - 256 ELSE byte

\* The kernel's characters are signed and the user programs' are not.
strncmp(m, a, b, n) ==
    LET S == Stops(m, a, b, n)
    IN  IF S = {} THEN 0 ELSE AsSigned(m[a + Least(S)]) - AsSigned(m[b + Least(S)])

ece391_strncmp(m, a, b, n) ==
    LET S == Stops(m, a, b, n)
    IN  IF n = 0 \/ S = {} THEN 0 ELSE m[a + Least(S)] - m[b + Least(S)]

ece391_strcmp(m, a, b) ==
    LET i == Least(Stops(m, a, b, strlen(m, a) + 1)) IN m[a + i] - m[b + i]

\* What puts shows and how many bytes: those of the string.
puts(m, s) == [k \in 1 .. strlen(m, s) |-> m[s + k - 1]]

-----------------------------------------------------------------------------
(* Numbers *)

\* ASCII, as the array lookup has it.
Digit(i) == IF i < 10 THEN 48 + i ELSE 55 + i

\* The swaps end in the middle.
strrev(s) ==
    LET swaps == Len(s) \div 2
    IN  [k \in DOMAIN s |-> IF k <= swaps \/ k > Len(s) - swaps THEN s[Len(s) + 1 - k] ELSE s[k]]

ece391_strrev(s) == IF Len(s) <= 1 THEN s ELSE strrev(s)

\* The digits of a number that is not 0, the last one first.
LowFirst(value, radix) ==
    LET digits[v \in 0 .. value] ==
            IF v = 0 THEN << >> ELSE <<Digit(v % radix)>> \o digits[v \div radix]
    IN  digits[value]

itoa(value, radix) == IF value = 0 THEN <<Digit(0)>> ELSE strrev(LowFirst(value, radix))

ece391_itoa(value, radix) ==
    IF value = 0 THEN <<Digit(0)>> ELSE ece391_strrev(LowFirst(value, radix))

-----------------------------------------------------------------------------
(* printf *)

Percent == 37
Sharp == 35
Minus == 45
Specifier == [x |-> 120, u |-> 117, d |-> 100, c |-> 99, s |-> 115]

\* %#x: zeros in front of the digits, as many as a number has digits in all.
PaddedHex(value) ==
    LET digits == itoa(value, 16)
    IN  [k \in 1 .. HEX_DIGITS - Len(digits) |-> Digit(0)] \o digits

\* MUTANT of Signed: the magnitude is taken for a signed number again.
Signed_twice(value) ==
    IF value >= UINT \div 2 THEN <<Minus>> \o itoa((UINT - value) % (UINT \div 2), 10) ELSE itoa(value, 10)

\* %d: a negative value has its sign bit set and is negated as 32 bits.
Signed(value) ==
    IF value >= UINT \div 2 THEN <<Minus>> \o itoa((UINT - value) % UINT, 10) ELSE itoa(value, 10)

\* What a conversion shows of its argument; a string's is its address in m.
Conversion(m, spec, alternate, arg) ==
    CASE spec = Specifier.x -> IF alternate THEN PaddedHex(arg) ELSE itoa(arg, 16)
      [] spec = Specifier.u -> itoa(arg, 10)
      [] spec = Specifier.d -> Signed(arg)
      [] spec = Specifier.c -> <<arg % 256>>
      [] spec = Specifier.s -> puts(m, arg)

\* One character of the format: mode says whether a conversion has begun, rest
\* are the arguments not used yet.  An unknown specifier shows nothing.
Scan(m, st, ch) ==
    CASE st.mode = "text" /\ ch = Percent -> [st EXCEPT !.mode = "plain"]
      [] st.mode = "text" /\ ch # Percent -> [st EXCEPT !.out = Append(@, ch)]
      [] st.mode # "text" /\ ch = Percent
             -> [mode |-> "text", rest |-> st.rest, out |-> Append(st.out, ch)]
      [] st.mode # "text" /\ ch = Sharp -> [st EXCEPT !.mode = "alternate"]
      [] st.mode # "text" /\ ch \in Range(Specifier)
             -> [mode |-> "text", rest |-> Tail(st.rest),
                 out |-> st.out \o Conversion(m, ch, st.mode = "alternate", Head(st.rest))]
      [] OTHER -> [st EXCEPT !.mode = "text"]

\* The state after all characters of a format, one after the other.
Scanned(m, st, format) ==
    LET after[k \in 0 .. Len(format)] ==
            IF k = 0 THEN st ELSE Scan(m, after[k - 1], format[k])
    IN  after[Len(format)]

\* The format is a sequence without its NUL, and no caller's ends within a
\* conversion, after which printf would read on behind the NUL.
printf(m, format, args) ==
    Scanned(m, [mode |-> "text", rest |-> args, out |-> << >>], format).out
=============================================================================
