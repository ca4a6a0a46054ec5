-------------------------- MODULE FileSystemProofs --------------------------
(***************************************************************************)
(* Proofs about the parts of MCFileSystem, for every list of names, every  *)
(* image, size of buffers and reads, and whatever is typed: a listing of   *)
(* the directory is in order and dir_open stays inside its buffer, a       *)
(* program's arguments are what was typed behind its name, the shell tells *)
(* a missing command from a program's end, the routines on memory and      *)
(* strings write and compare what they should, in every memory, and printf *)
(* shows the pieces of its format in order, and numbers with their values. *)
(*                                                                         *)
(* Each part has an inductive invariant of its own (ListingInv, CommandInv,*)
(* LibraryInv) that every step of the others leaves alone; the table of    *)
(* descriptors is shared by the parts of the files and of the programs,    *)
(* whose invariant is TableInv.  Induction is over the length of the list  *)
(* of names, the rounds of the loops that copy, the digits of a number, and*)
(* the characters and pieces of a format, with the lemmas AllNat and       *)
(* Recursion of LoopLemmas.                                                *)
(***************************************************************************)
EXTENDS MCFileSystem, ProgramsProofs, FiniteSetTheorems

-----------------------------------------------------------------------------
(* Commands and their arguments *)

\* A blank and the end of a string are different.
LEMMA BlankIsNoNUL == Shell!Blank # Shell!NUL
BY Zenon DEF Shell!Blank, Shell!NUL

\* From i on there is a first index that is no blank.
LEMMA NonBlankIs ==
  ASSUME Shell!CommandWellFormed, NEW c \in Seq(Letters \cup {Shell!Blank}),
         NEW b \in 1 .. Len(c) + 1
  PROVE  LET j == Shell!NonBlank(c, b)
         IN  /\ j \in b .. Len(c) + 1
             /\ j \in 1 .. Len(c) => c[j] # Shell!Blank
             /\ \A k \in b .. j - 1 : c[k] = Shell!Blank
<1> DEFINE Is(j) == Shell!CharAt(c, j) # Shell!Blank /\ \A k \in b .. j - 1 : c[k] = Shell!Blank
           T == {j \in b .. Len(c) + 1 : Shell!CharAt(c, j) # Shell!Blank}
<1>1. Len(c) \in Nat /\ DOMAIN c = 1 .. Len(c) /\ b \in Nat
  OBVIOUS
<1>2. Len(c) + 1 \in T
  <2>1. Len(c) + 1 \notin DOMAIN c
    BY <1>1
  <2>2. Shell!CharAt(c, Len(c) + 1) # Shell!Blank
    BY <2>1, BlankIsNoNUL DEF Shell!CharAt
  <2> QED
    BY <1>1, <2>2
<1>3. T \subseteq Nat
  BY <1>1
<1>4. PICK j \in T : \A k \in T : ~ (k < j)
  BY <1>2, <1>3, LeastNat
<1>5. \A k \in b .. j - 1 : c[k] = Shell!Blank
  <2> TAKE k \in b .. j - 1
  <2>1. k \in b .. Len(c) + 1 /\ k < j /\ k \in DOMAIN c
    BY <1>1, <1>4
  <2>2. k \notin T
    BY <1>4, <2>1
  <2> QED
    BY <2>1, <2>2 DEF Shell!CharAt
<1>6. \E i \in b .. Len(c) + 1 : Is(i)
  BY <1>4, <1>5
<1> DEFINE n == CHOOSE i \in b .. Len(c) + 1 : Is(i)
<1>7. n \in b .. Len(c) + 1 /\ Is(n)
  <2> HIDE DEF Is
  <2> QED
    BY <1>6
<1>8. n = Shell!NonBlank(c, b)
  BY DEF Shell!NonBlank
<1> HIDE DEF n
<1>9. n \in 1 .. Len(c) => c[n] # Shell!Blank
  BY <1>1, <1>7 DEF Shell!CharAt
<1> QED
  BY <1>7, <1>8, <1>9

\* From i on there is a first index that ends a word.
LEMMA WordEndIs ==
  ASSUME Shell!CommandWellFormed, NEW c \in Seq(Letters \cup {Shell!Blank}),
         NEW b \in 1 .. Len(c) + 1
  PROVE  LET j == Shell!WordEnd(c, b)
         IN  /\ j \in b .. Len(c) + 1
             /\ j \in 1 .. Len(c) => c[j] = Shell!Blank
             /\ \A k \in b .. j - 1 : c[k] # Shell!Blank
<1> DEFINE Is(j) == /\ Shell!CharAt(c, j) \in {Shell!Blank, Shell!NUL}
                    /\ \A k \in b .. j - 1 : c[k] # Shell!Blank
           T == {j \in b .. Len(c) + 1 : Shell!CharAt(c, j) \in {Shell!Blank, Shell!NUL}}
<1>1. /\ Len(c) \in Nat /\ DOMAIN c = 1 .. Len(c) /\ b \in Nat
      /\ \A k \in DOMAIN c : c[k] \in Letters \cup {Shell!Blank}
  OBVIOUS
<1>2. Shell!NUL \notin Letters
  BY DEF Shell!CommandWellFormed
<1>3. Len(c) + 1 \in T
  <2>1. Len(c) + 1 \notin DOMAIN c
    BY <1>1
  <2>2. Shell!CharAt(c, Len(c) + 1) = Shell!NUL
    BY <2>1 DEF Shell!CharAt
  <2> QED
    BY <1>1, <2>2
<1>4. T \subseteq Nat
  BY <1>1
<1>5. PICK j \in T : \A k \in T : ~ (k < j)
  BY <1>3, <1>4, LeastNat
<1>6. \A k \in b .. j - 1 : c[k] # Shell!Blank
  <2> TAKE k \in b .. j - 1
  <2>1. k \in b .. Len(c) + 1 /\ k < j /\ k \in DOMAIN c
    BY <1>1, <1>5
  <2>2. k \notin T
    BY <1>5, <2>1
  <2> QED
    BY <2>1, <2>2 DEF Shell!CharAt
<1>7. \E i \in b .. Len(c) + 1 : Is(i)
  BY <1>5, <1>6
<1> DEFINE n == CHOOSE i \in b .. Len(c) + 1 : Is(i)
<1>8. n \in b .. Len(c) + 1 /\ Is(n)
  <2> HIDE DEF Is
  <2> QED
    BY <1>7
<1>9. n = Shell!WordEnd(c, b)
  BY DEF Shell!WordEnd
<1> HIDE DEF n
<1>10. n \in 1 .. Len(c) => c[n] = Shell!Blank
  BY <1>1, <1>2, <1>8 DEF Shell!CharAt
<1> QED
  BY <1>8, <1>9, <1>10

\* Where the name of a command begins and ends, and where its argument begins.
LEMMA Parsed ==
  ASSUME Shell!CommandWellFormed, NEW c \in Seq(Letters \cup {Shell!Blank})
  PROVE  LET a == Shell!NameStart(c)
             e == Shell!NameEnd(c)
             n == Shell!NonBlank(c, e)
         IN  /\ a \in 1 .. Len(c) + 1 /\ e \in a .. Len(c) + 1 /\ n \in e .. Len(c) + 1
             /\ a \in 1 .. Len(c) => c[a] # Shell!Blank
             /\ e \in 1 .. Len(c) => c[e] = Shell!Blank
             /\ n \in 1 .. Len(c) => c[n] # Shell!Blank
             /\ \A k \in 1 .. a - 1 : c[k] = Shell!Blank
             /\ \A k \in a .. e - 1 : c[k] # Shell!Blank
             /\ \A k \in e .. n - 1 : c[k] = Shell!Blank
<1> DEFINE a == Shell!NameStart(c)
           e == Shell!NameEnd(c)
           n == Shell!NonBlank(c, e)
<1>1. Len(c) \in Nat /\ 1 \in 1 .. Len(c) + 1
  OBVIOUS
<1>2. a = Shell!NonBlank(c, 1) /\ e = Shell!WordEnd(c, a)
  BY DEF Shell!NameStart, Shell!NameEnd
<1> HIDE DEF a, e, n
<1>3. /\ a \in 1 .. Len(c) + 1
      /\ a \in 1 .. Len(c) => c[a] # Shell!Blank
      /\ \A k \in 1 .. a - 1 : c[k] = Shell!Blank
  BY <1>1, <1>2, NonBlankIs
<1>4. /\ e \in a .. Len(c) + 1
      /\ e \in 1 .. Len(c) => c[e] = Shell!Blank
      /\ \A k \in a .. e - 1 : c[k] # Shell!Blank
  BY <1>2, <1>3, WordEndIs
<1>5. e \in 1 .. Len(c) + 1
  BY <1>1, <1>3, <1>4
<1>6. /\ n \in e .. Len(c) + 1
      /\ n \in 1 .. Len(c) => c[n] # Shell!Blank
      /\ \A k \in e .. n - 1 : c[k] = Shell!Blank
  BY <1>5, NonBlankIs DEF n
<1> QED
  BY <1>3, <1>4, <1>6 DEF a, e, n

\* The argument text is what is left of the command, and shorter than it unless
\* there is none.
LEMMA ArgumentText ==
  ASSUME Shell!CommandWellFormed, NEW c \in Seq(Letters \cup {Shell!Blank})
  PROVE  LET text == Shell!ArgumentOf(c)
             n == Shell!NonBlank(c, Shell!NameEnd(c))
         IN  /\ text \in Seq(Letters \cup {Shell!Blank})
             /\ Len(text) = Len(c) - n + 1
             /\ Len(text) < Len(c) \/ Len(text) = 0
             /\ \A k \in 1 .. Len(text) : text[k] = c[n + k - 1]
<1> DEFINE text == Shell!ArgumentOf(c)
           a == Shell!NameStart(c)
           e == Shell!NameEnd(c)
           n == Shell!NonBlank(c, e)
           A == Letters \cup {Shell!Blank}
<1>1. /\ a \in 1 .. Len(c) + 1 /\ e \in a .. Len(c) + 1 /\ n \in e .. Len(c) + 1
      /\ a \in 1 .. Len(c) => c[a] # Shell!Blank
      /\ e \in 1 .. Len(c) => c[e] = Shell!Blank
  BY Parsed
<1>2. text = SubSeq(c, n, Len(c))
  BY DEF Shell!ArgumentOf
<1>3. c \in Seq(A) /\ Len(c) \in Nat
  OBVIOUS
<1> HIDE DEF a, e, n, text, A
<1>4. n \in Nat /\ \A k \in n .. Len(c) : c[k] \in A
  BY <1>1, <1>3
<1>5. /\ text \in Seq(A) /\ Len(text) = IF n <= Len(c) THEN Len(c) - n + 1 ELSE 0
      /\ \A k \in 1 .. Len(c) - n + 1 : text[k] = c[n + k - 1]
  BY <1>2, <1>3, <1>4, SubSeqProperties
<1>6. Len(text) = Len(c) - n + 1
  BY <1>1, <1>3, <1>4, <1>5
<1>7. Len(text) < Len(c) \/ Len(text) = 0
  <2>1. CASE n >= 2
    BY <1>3, <1>4, <1>6, <2>1
  <2>2. CASE n < 2
    <3>1. n = 1 /\ e = 1 /\ a = 1
      BY <1>1, <1>3, <2>2
    <3>2. ~ (1 \in 1 .. Len(c))
      BY <1>1, <3>1
    <3>3. Len(c) = 0
      BY <1>3, <3>2
    <3> QED
      BY <1>6, <3>1, <3>3
  <2> QED
    BY <1>4, <2>1, <2>2
<1> QED
  BY <1>5, <1>6, <1>7 DEF text, n, e, A

\* A program that has an argument has the same name in the command cut to the
\* buffer as in the whole one.
LEMMA SameName ==
  ASSUME Shell!CommandWellFormed, NEW b \in Seq(Letters \cup {Shell!Blank}),
         NEW m \in 0 .. Len(b),
         Shell!ArgumentOf(SubSeq(b, 1, m)) # << >>
  PROVE  Shell!NameOf(SubSeq(b, 1, m)) = Shell!NameOf(b)
<1> DEFINE A == Letters \cup {Shell!Blank}
           c == SubSeq(b, 1, m)
           a == Shell!NameStart(c)
           e == Shell!NameEnd(c)
           n == Shell!NonBlank(c, e)
           a2 == Shell!NameStart(b)
           e2 == Shell!NameEnd(b)
<1>1. b \in Seq(A) /\ Len(b) \in Nat /\ m \in Nat /\ m <= Len(b)
  OBVIOUS
<1> HIDE DEF A
<1>2. /\ c \in Seq(A) /\ Len(c) = m
      /\ \A k \in 1 .. m : c[k] = b[k]
  <2>1. \A k \in 1 .. m : b[k] \in A
    BY <1>1
  <2> QED
    BY <1>1, <2>1, SubSeqProperties
<1> HIDE DEF c
<1>3. /\ a \in 1 .. m + 1 /\ e \in a .. m + 1 /\ n \in e .. m + 1
      /\ a \in 1 .. m => c[a] # Shell!Blank
      /\ e \in 1 .. m => c[e] = Shell!Blank
      /\ \A k \in 1 .. a - 1 : c[k] = Shell!Blank
      /\ \A k \in a .. e - 1 : c[k] # Shell!Blank
  BY <1>2, Parsed DEF A
<1>4. n <= m
  <2>1. /\ Shell!ArgumentOf(c) \in Seq(A)
        /\ Len(Shell!ArgumentOf(c)) = m - n + 1
    BY <1>2, ArgumentText DEF A
  <2>2. Shell!ArgumentOf(c) # << >>
    BY DEF c
  <2> HIDE DEF n
  <2>3. Len(Shell!ArgumentOf(c)) # 0
    BY <2>1, <2>2
  <2> QED
    BY <1>1, <1>3, <2>1, <2>3
<1>5. /\ a2 \in 1 .. Len(b) + 1 /\ e2 \in a2 .. Len(b) + 1
      /\ a2 \in 1 .. Len(b) => b[a2] # Shell!Blank
      /\ e2 \in 1 .. Len(b) => b[e2] = Shell!Blank
      /\ \A k \in 1 .. a2 - 1 : b[k] = Shell!Blank
      /\ \A k \in a2 .. e2 - 1 : b[k] # Shell!Blank
  BY Parsed
<1>6. Shell!NameOf(c) = SubSeq(c, a, e - 1) /\ Shell!NameOf(b) = SubSeq(b, a2, e2 - 1)
  BY DEF Shell!NameOf
<1> HIDE DEF a, e, n, a2, e2
<1>7. a \in 1 .. m /\ e \in 1 .. m
  BY <1>1, <1>3, <1>4
<1>8. a2 = a
  <2>1. ~ (a2 < a)
    <3> SUFFICES ASSUME a2 < a PROVE FALSE
      OBVIOUS
    <3>1. a2 \in 1 .. a - 1 /\ a2 \in 1 .. m /\ a2 \in 1 .. Len(b)
      BY <1>1, <1>5, <1>7
    <3> QED
      BY <1>2, <1>3, <1>5, <3>1
  <2>2. ~ (a < a2)
    <3> SUFFICES ASSUME a < a2 PROVE FALSE
      OBVIOUS
    <3>1. a \in 1 .. a2 - 1
      BY <1>5, <1>7
    <3> QED
      BY <1>2, <1>3, <1>5, <1>7, <3>1
  <2> QED
    BY <1>5, <1>7, <2>1, <2>2
<1>9. e2 = e
  <2>1. ~ (e2 < e)
    <3> SUFFICES ASSUME e2 < e PROVE FALSE
      OBVIOUS
    <3>1. e2 \in a .. e - 1 /\ e2 \in 1 .. m /\ e2 \in 1 .. Len(b)
      BY <1>1, <1>5, <1>7, <1>8
    <3> QED
      BY <1>2, <1>3, <1>5, <3>1
  <2>2. ~ (e < e2)
    <3> SUFFICES ASSUME e < e2 PROVE FALSE
      OBVIOUS
    <3>1. e \in a2 .. e2 - 1
      BY <1>3, <1>5, <1>7, <1>8
    <3> QED
      BY <1>2, <1>3, <1>5, <1>7, <3>1
  <2> QED
    BY <1>5, <1>7, <1>8, <2>1, <2>2
<1>10. SubSeq(c, a, e - 1) = SubSeq(b, a, e - 1)
  <2> DEFINE s == SubSeq(c, a, e - 1)
             t == SubSeq(b, a, e - 1)
             l == e - 1
  <2>1. a \in Nat /\ l \in Nat /\ \A k \in a .. l : c[k] \in A /\ b[k] \in A /\ c[k] = b[k]
    BY <1>1, <1>2, <1>3, <1>7
  <2> HIDE DEF l
  <2>2. /\ SubSeq(c, a, l) \in Seq(A) /\ Len(SubSeq(c, a, l)) = IF a <= l THEN l - a + 1 ELSE 0
        /\ \A k \in 1 .. l - a + 1 : SubSeq(c, a, l)[k] = c[a + k - 1]
    BY <2>1, SubSeqProperties
  <2>3. /\ SubSeq(b, a, l) \in Seq(A) /\ Len(SubSeq(b, a, l)) = IF a <= l THEN l - a + 1 ELSE 0
        /\ \A k \in 1 .. l - a + 1 : SubSeq(b, a, l)[k] = b[a + k - 1]
    BY <2>1, SubSeqProperties
  <2>4. \A k \in 1 .. l - a + 1 : a + k - 1 \in a .. l
    BY <2>1
  <2>5. s = SubSeq(c, a, l) /\ t = SubSeq(b, a, l)
    BY DEF l
  <2> HIDE DEF s, t
  <2>6. s \in Seq(A) /\ t \in Seq(A) /\ Len(s) = Len(t) /\ \A k \in 1 .. Len(s) : s[k] = t[k]
    <3>1. s \in Seq(A) /\ t \in Seq(A) /\ Len(s) = Len(t)
      BY <2>2, <2>3, <2>5
    <3>2. \A k \in 1 .. Len(s) : k \in 1 .. l - a + 1
      BY <2>1, <2>2, <2>5
    <3>3. \A k \in 1 .. Len(s) : s[k] = c[a + k - 1] /\ t[k] = b[a + k - 1]
      BY <2>2, <2>3, <2>5, <3>2
    <3>4. \A k \in 1 .. Len(s) : s[k] = t[k]
      BY <2>1, <2>4, <3>2, <3>3
    <3> QED
      BY <3>1, <3>4
  <2>7. s = t
    BY <2>6, SeqEqual
  <2> QED
    BY <2>7 DEF s, t
<1> QED
  BY <1>6, <1>8, <1>9, <1>10 DEF c

-----------------------------------------------------------------------------
(* The steps of the shell and of its program *)

\* The argument that execute keeps of the command.
Argument == Shell!ArgumentOf(Shell!temp_cmd)

\* The inductive invariant: while a program runs, its control block has the
\* argument and its NUL, what getargs gave it is a copy, and getargs has refused
\* only what HasArguments does not allow.
CommandInv ==
    /\ Shell!TypeOK
    /\ shell = "program" =>
          /\ Shell!NameOf(buf) \in Executables
          /\ argument_buffer_size = Len(Argument) + 1
          /\ \A k \in 0 .. Len(Argument) : argument_buffer[k] = Shell!CharAt(Argument, k + 1)
          /\ args # << >> => \E n \in ArgSizes : Shell!HasArguments(n) /\ args = Shell!Copied(n)
          /\ asked # Shell!NoCall => (getargs_ret = 0 <=> Shell!HasArguments(asked))

\* The constants of the command as numbers and sets.
LEMMA CommandNumbers ==
  /\ Shell!CommandWellFormed
  /\ MAX_BUFFER_SIZE \in Nat /\ MAX_BUFFER_SIZE > 0
  /\ \A n \in ArgSizes : n \in Nat
BY InstancesAssumption DEF Shell!CommandWellFormed

\* A line without its newline is letters and blanks.
LEMMA StrippedTyped ==
  ASSUME NEW l \in Lines
  PROVE  /\ Shell!Stripped(l) \in Seq(Letters \cup {Shell!Blank})
         /\ Shell!Stripped(Append(l, Shell!Newline)) \in Seq(Letters \cup {Shell!Blank})
<1> DEFINE A == Letters \cup {Shell!Blank}
           N == Shell!Newline
           B == A \cup {N}
<1>1. l \in Seq(A)
  BY CommandNumbers DEF Shell!CommandWellFormed
<1>2. N \notin A
  <2>1. Shell!Newline # Shell!Blank
    BY Zenon DEF Shell!Newline, Shell!Blank
  <2>2. Shell!Newline \notin Letters
    BY CommandNumbers, Zenon DEF Shell!CommandWellFormed
  <2> QED
    BY <2>1, <2>2
<1> HIDE DEF A, N
<1>3. Shell!Stripped(l) = l
  <2>1. ~ (l # << >> /\ l[Len(l)] = N)
    <3> SUFFICES ASSUME l # << >>, l[Len(l)] = N PROVE FALSE
      OBVIOUS
    <3>1. l[Len(l)] \in A
      BY <1>1
    <3> QED
      BY <1>2, <3>1
  <2> QED
    BY <2>1, Zenon DEF Shell!Stripped, N
<1>4. Shell!Stripped(Append(l, N)) \in Seq(A)
  <2> DEFINE t == Append(l, N)
  <2>1. /\ l \in Seq(B) /\ N \in B /\ Len(l) \in Nat
        /\ \A k \in 1 .. Len(l) : l[k] \in A
    BY <1>1
  <2> HIDE DEF B
  <2>2. /\ t # << >> /\ Len(t) = Len(l) + 1 /\ t[Len(l) + 1] = N
        /\ \A k \in 1 .. Len(l) : t[k] = l[k]
    BY <2>1, AppendProperties
  <2> HIDE DEF t
  <2>3. t[Len(t)] = N
    BY <2>2
  <2>4. Shell!Stripped(t) = SubSeq(t, 1, Len(t) - 1)
    BY <2>2, <2>3, Zenon DEF Shell!Stripped, N
  <2>5. Len(t) - 1 = Len(l)
    BY <2>1, <2>2
  <2>6. SubSeq(t, 1, Len(l)) \in Seq(A)
    BY <2>1, <2>2, SubSeqProperties
  <2> QED
    BY <2>4, <2>5, <2>6 DEF t
<1> QED
  BY <1>1, <1>3, <1>4 DEF A, N

\* The command that execute keeps is letters and blanks, no longer than its buffer,
\* and its argument is shorter.
LEMMA KeptCommand ==
  ASSUME buf \in Seq(Letters \cup {Shell!Blank})
  PROVE  /\ Shell!temp_cmd \in Seq(Letters \cup {Shell!Blank})
         /\ \E m \in 0 .. Len(buf) : Shell!temp_cmd = SubSeq(buf, 1, m)
         /\ Len(Argument) \in 0 .. MAX_BUFFER_SIZE - 1
         /\ Argument \in Seq(Letters \cup {Shell!Blank})
<1> DEFINE A == Letters \cup {Shell!Blank}
           c == Shell!temp_cmd
           m == IF Len(buf) < MAX_BUFFER_SIZE THEN Len(buf) ELSE MAX_BUFFER_SIZE
<1>1. buf \in Seq(A) /\ Len(buf) \in Nat
  OBVIOUS
<1>2. m \in 0 .. Len(buf) /\ m <= MAX_BUFFER_SIZE /\ m \in Nat
  BY <1>1, CommandNumbers
<1>3. c = SubSeq(buf, 1, m)
  BY DEF Shell!temp_cmd
<1> HIDE DEF m, c, A
<1>4. c \in Seq(A) /\ Len(c) = m
  <2>1. \A k \in 1 .. m : buf[k] \in A
    BY <1>1, <1>2
  <2> QED
    BY <1>2, <1>3, <2>1, SubSeqProperties
<1>5. /\ Argument \in Seq(A)
      /\ Len(Argument) < Len(c) \/ Len(Argument) = 0
  BY <1>4, CommandNumbers, ArgumentText DEF A, c, Argument
<1>6. Len(Argument) \in 0 .. MAX_BUFFER_SIZE - 1
  <2>1. Len(Argument) \in Nat
    BY <1>5
  <2> QED
    BY <1>2, <1>4, <1>5, <2>1, CommandNumbers
<1> QED
  BY <1>2, <1>3, <1>4, <1>5, <1>6 DEF A, c

\* As long as the command stays, its name and argument do.
LEMMA SameArgument ==
  ASSUME buf' = buf
  PROVE  Argument' = Argument /\ Shell!temp_cmd' = Shell!temp_cmd
<1>1. Shell!temp_cmd' = Shell!temp_cmd
  BY Zenon DEF Shell!temp_cmd
<1> QED
  BY <1>1, Zenon DEF Argument

\* The shell takes a command.
LEMMA ShellReadStep ==
  ASSUME CommandInv, NEW l, Shell!shell_read(l),
         Shell!Stripped(l) \in Seq(Letters \cup {Shell!Blank})
  PROVE  CommandInv'
<1>1. /\ shell' \in {"prompt", "execute"} /\ shell' # "program"
      /\ buf' = Shell!Stripped(l) /\ message' = "none"
      /\ argument_buffer' = argument_buffer /\ argument_buffer_size' = argument_buffer_size
      /\ getargs_ret' = getargs_ret /\ asked' = asked
  BY Zenon DEF Shell!shell_read, Shell!program
<1>2. Shell!TypeOK'
  BY <1>1, Zenon DEF CommandInv, Shell!TypeOK
<1> QED
  BY <1>1, <1>2, Zenon DEF CommandInv

\* execute: the argument with its NUL goes to the argument buffer.
LEMMA ShellExecuteStep ==
  ASSUME CommandInv, Shell!execute
  PROVE  CommandInv'
<1> DEFINE text == Argument
           A == Letters \cup {Shell!Blank}
<1>1. /\ shell' = "program" /\ buf' = buf /\ args' = << >>
      /\ getargs_ret' = getargs_ret /\ message' = message /\ asked' = Shell!NoCall
      /\ argument_buffer' = [k \in DOMAIN argument_buffer |->
                                IF k <= Len(text) THEN Shell!CharAt(text, k + 1)
                                ELSE argument_buffer[k]]
      /\ argument_buffer_size' = Len(text) + 1
      /\ Shell!NameOf(buf) \in Executables
  BY DEF Shell!execute, Argument
<1>2. /\ buf \in Seq(A)
      /\ argument_buffer \in [0 .. MAX_BUFFER_SIZE - 1 -> Shell!Characters]
  BY DEF CommandInv, Shell!TypeOK
<1>3. /\ text \in Seq(A) /\ Len(text) \in 0 .. MAX_BUFFER_SIZE - 1
      /\ MAX_BUFFER_SIZE \in Nat
  BY <1>2, KeptCommand, CommandNumbers
<1>4. Argument' = Argument
  BY <1>1, SameArgument
<1> HIDE DEF text
<1>5. \A k \in 0 .. Len(text) : argument_buffer'[k] = Shell!CharAt(text, k + 1)
  BY <1>1, <1>2, <1>3
<1>6. argument_buffer' \in [0 .. MAX_BUFFER_SIZE - 1 -> Shell!Characters]
  <2>1. \A k : Shell!CharAt(text, k) \in Shell!Characters
    <3>1. DOMAIN text = 1 .. Len(text) /\ \A k \in 1 .. Len(text) : text[k] \in A
      BY <1>3
    <3> QED
      BY <3>1 DEF Shell!CharAt, Shell!Characters
  <2> QED
    BY <1>1, <1>2, <2>1
<1>7. argument_buffer_size' \in 0 .. MAX_BUFFER_SIZE
  BY <1>1, <1>3
<1>8. Shell!TypeOK'
  BY <1>1, <1>6, <1>7 DEF CommandInv, Shell!TypeOK
<1>9. (Shell!NameOf(buf) \in Executables)'
  BY <1>1 DEF Shell!NameOf, Shell!NonBlank, Shell!NameEnd, Shell!WordEnd, Shell!NameStart,
              Shell!CharAt
<1>10. /\ argument_buffer_size' = Len(Argument') + 1
       /\ \A k \in 0 .. Len(Argument') : argument_buffer'[k] = Shell!CharAt(Argument', k + 1)
  BY <1>1, <1>4, <1>5 DEF text
<1> QED
  BY <1>1, <1>8, <1>9, <1>10 DEF CommandInv, Shell!CharAt, Shell!NoCall

\* Steps outside a program that leave the buffers alone, and halt.
LEMMA ShellOutsideStep ==
  ASSUME CommandInv, shell' = "prompt",
         UNCHANGED <<buf, argument_buffer, argument_buffer_size>>,
         getargs_ret' \in {getargs_ret, 0}, asked' \in {asked, Shell!NoCall},
         message' \in {"none", "no such command", "program terminated by exception",
                       "program terminated abnormally"}
  PROVE  CommandInv'
<1>1. shell' \in {"prompt", "execute", "program"} /\ shell' # "program"
  BY Zenon
<1>2. getargs_ret' \in {-1, 0} /\ asked' \in ArgSizes \cup {Shell!NoCall}
  BY DEF CommandInv, Shell!TypeOK, Shell!NoCall
<1>3. Shell!TypeOK'
  BY <1>1, <1>2, Zenon DEF CommandInv, Shell!TypeOK, Shell!NoCall
<1> QED
  BY <1>1, <1>3, Zenon DEF CommandInv

\* Steps of the program: getargs that gives a copy, or one that fails.
LEMMA ShellInsideStep ==
  ASSUME CommandInv, shell = "program",
         UNCHANGED <<shell, buf, argument_buffer, argument_buffer_size, message>>,
         getargs_ret' \in {-1, 0}, asked' \in ArgSizes \cup {Shell!NoCall},
         asked' # Shell!NoCall => (getargs_ret' = 0 <=> Shell!HasArguments(asked')),
         args' = args \/ \E n \in ArgSizes : Shell!HasArguments(n) /\ args' = Shell!Copied(n)
  PROVE  CommandInv'
<1>1. Argument' = Argument
  BY SameArgument
<1>2. Shell!TypeOK'
  BY DEF CommandInv, Shell!TypeOK, Shell!NoCall
<1>3. (Shell!NameOf(buf) \in Executables)'
  BY DEF CommandInv
<1>4. args' # << >> => \E n \in ArgSizes : Shell!HasArguments(n) /\ args' = Shell!Copied(n)
  BY DEF CommandInv
<1>5. \A n \in ArgSizes : /\ Shell!HasArguments(n)' <=> Shell!HasArguments(n)
                         /\ Shell!Copied(n)' = Shell!Copied(n)
  BY DEF Shell!HasArguments, Shell!Copied
<1>6. (args # << >> => \E n \in ArgSizes : Shell!HasArguments(n) /\ args = Shell!Copied(n))'
  BY <1>4, <1>5
<1>7. /\ argument_buffer_size' = Len(Argument') + 1
      /\ \A k \in 0 .. Len(Argument') : argument_buffer'[k] = Shell!CharAt(Argument', k + 1)
  BY <1>1 DEF CommandInv
<1>8. (asked # Shell!NoCall => (getargs_ret = 0 <=> Shell!HasArguments(asked)))'
  BY DEF Shell!HasArguments, Shell!NoCall
<1> QED
  BY <1>2, <1>3, <1>6, <1>7, <1>8 DEF CommandInv, Shell!CharAt

\* The status execute returns is eight bits, so neither -1 nor 256.
LEMMA ReturnedIsByte ==
  ASSUME NEW status \in Int
  PROVE  Shell!Returned(status) \in 0 .. 255
BY DEF Shell!Returned

\* Hence no program's end is taken for that of a command that was not started.
LEMMA HaltIsNoStart ==
  ASSUME NEW status \in Int, Shell!halt(status)
  PROVE  /\ message' # "no such command" /\ outcome' # "not started"
         /\ message' \in {"none", "program terminated abnormally"}
<1> DEFINE r == Shell!Returned(status)
<1>1. r \in 0 .. 255
  BY ReturnedIsByte
<1> HIDE DEF r
<1>2. r # -1 /\ r # 256
  BY <1>1
<1>3. outcome' # "not started"
  BY DEF Shell!halt
<1>4. CASE r = 0
  BY <1>2, <1>3, <1>4 DEF Shell!halt, r
<1>5. CASE r # 0
  BY <1>2, <1>3, <1>5 DEF Shell!halt, r
<1> QED
  BY <1>4, <1>5

\* Every step of the command keeps the invariant.
LEMMA CommandStep ==
  ASSUME CommandInv, [Shell!Next]_command
  PROVE  CommandInv'
<1>1. ASSUME NEW l \in Lines, Shell!shell_read(l) \/ Shell!shell_read(Append(l, Shell!Newline))
      PROVE  CommandInv'
  BY <1>1, StrippedTyped, ShellReadStep
<1>2. CASE Shell!execute_error
  <2>1. /\ shell' = "prompt" /\ UNCHANGED <<buf, argument_buffer, argument_buffer_size>>
        /\ getargs_ret' = getargs_ret /\ asked' = asked /\ message' = "no such command"
    BY <1>2, Zenon DEF Shell!execute_error, Shell!program
  <2>2. message' \in {"none", "no such command", "program terminated by exception",
                      "program terminated abnormally"}
    BY <2>1, Zenon
  <2> QED
    BY <2>1, <2>2, ShellOutsideStep
<1>3. CASE Shell!execute
  BY <1>3, ShellExecuteStep
<1>4. ASSUME NEW n \in ArgSizes, Shell!getargs(n) \/ Shell!getargs_error(n)
      PROVE  CommandInv'
  <2>1. /\ shell = "program" /\ getargs_ret' \in {-1, 0}
        /\ UNCHANGED <<shell, buf, argument_buffer, argument_buffer_size, message>>
        /\ args' = args \/ (Shell!HasArguments(n) /\ args' = Shell!Copied(n))
        /\ asked' = n /\ (getargs_ret' = 0 <=> Shell!HasArguments(n))
    BY <1>4 DEF Shell!getargs, Shell!getargs_error
  <2> QED
    BY <2>1, ShellInsideStep
<1>5. CASE Shell!signals_error
  <2>1. /\ shell = "program" /\ getargs_ret' \in {-1, 0} /\ args' = args /\ asked' = Shell!NoCall
        /\ UNCHANGED <<shell, buf, argument_buffer, argument_buffer_size, message>>
    BY <1>5 DEF Shell!signals_error
  <2> QED
    BY <2>1, ShellInsideStep
<1>6. ASSUME NEW status \in Statuses, Shell!halt(status) PROVE CommandInv'
  <2>1. status \in Int
    BY CommandNumbers DEF Shell!CommandWellFormed
  <2>2. /\ shell' = "prompt" /\ UNCHANGED <<buf, argument_buffer, argument_buffer_size>>
        /\ getargs_ret' = 0 /\ asked' = Shell!NoCall
    BY <1>6, Zenon DEF Shell!halt
  <2>3. message' \in {"none", "program terminated abnormally"}
    BY <1>6, <2>1, HaltIsNoStart
  <2>4. message' \in {"none", "no such command", "program terminated by exception",
                      "program terminated abnormally"}
    BY <2>3, Zenon
  <2> QED
    BY <2>2, <2>4, ShellOutsideStep
<1>7. CASE UNCHANGED command
  <2>1. /\ UNCHANGED <<shell, buf, argument_buffer, argument_buffer_size, args>>
        /\ UNCHANGED <<getargs_ret, asked, message>>
    BY <1>7, Zenon DEF command
  <2>2. CASE shell = "program"
    <3>1. /\ getargs_ret' \in {-1, 0} /\ asked' \in ArgSizes \cup {Shell!NoCall}
          /\ asked' # Shell!NoCall => (getargs_ret' = 0 <=> Shell!HasArguments(asked'))
      BY <2>1, <2>2 DEF CommandInv, Shell!TypeOK
    <3> QED
      BY <2>1, <2>2, <3>1, ShellInsideStep
  <2>3. CASE shell # "program"
    <3>1. Shell!TypeOK'
      BY <2>1, Zenon DEF CommandInv, Shell!TypeOK, Shell!NoCall
    <3> QED
      BY <2>1, <2>3, <3>1, Zenon DEF CommandInv
  <2> QED
    BY <2>2, <2>3
<1> QED
  BY <1>1, <1>2, <1>3, <1>4, <1>5, <1>6, <1>7 DEF Shell!Next

\* Before the first command.
LEMMA CommandInit ==
  ASSUME Shell!Init
  PROVE  CommandInv
<1>1. /\ shell \in {"prompt", "execute", "program"} /\ shell # "program"
      /\ message \in {"none", "no such command", "program terminated by exception",
                      "program terminated abnormally"}
  BY Zenon DEF Shell!Init
<1>2. buf \in Seq(Letters \cup {Shell!Blank}) /\ getargs_ret \in {-1, 0}
  BY DEF Shell!Init
<1>3. /\ argument_buffer \in [0 .. MAX_BUFFER_SIZE - 1 -> Shell!Characters]
      /\ argument_buffer_size \in 0 .. MAX_BUFFER_SIZE
  BY CommandNumbers DEF Shell!Init, Shell!Characters
<1>4. Shell!TypeOK
  <2>1. asked \in ArgSizes \cup {Shell!NoCall}
    BY Zenon DEF Shell!Init
  <2> QED
    BY <1>1, <1>2, <1>3, <2>1, Zenon DEF Shell!TypeOK
<1> QED
  BY <1>1, <1>4, Zenon DEF CommandInv

\* Where the argument of a program begins.
ArgumentStart == Shell!NonBlank(Shell!temp_cmd, Shell!NameEnd(Shell!temp_cmd))

\* If there is one, it is in the command, behind the program's name and blanks: the
\* witnesses are the ends of the name.
LEMMA ArgumentIsThere ==
  ASSUME CommandInv, shell = "program", argument_buffer_size > 1
  PROVE  ArgumentStart \in DOMAIN Shell!temp_cmd /\ Shell!ArgumentAt(ArgumentStart)
<1> DEFINE c == Shell!temp_cmd
           text == Argument
           a == Shell!NameStart(c)
           e == Shell!NameEnd(c)
           n == ArgumentStart
           A == Letters \cup {Shell!Blank}
<1>1. buf \in Seq(A) /\ Shell!NameOf(buf) \in Executables /\ argument_buffer_size = Len(text) + 1
  BY DEF CommandInv, Shell!TypeOK
<1>2. c \in Seq(A) /\ Len(c) \in Nat /\ DOMAIN c = 1 .. Len(c)
  BY <1>1, KeptCommand
<1>3. text \in Seq(A) /\ Len(text) = Len(c) - n + 1
  <2> HIDE DEF c, n
  <2> QED
    BY <1>2, CommandNumbers, ArgumentText DEF Argument, ArgumentStart, c, n
<1>4. /\ a \in 1 .. Len(c) + 1 /\ e \in a .. Len(c) + 1 /\ n \in e .. Len(c) + 1
      /\ a \in 1 .. Len(c) => c[a] # Shell!Blank
      /\ e \in 1 .. Len(c) => c[e] = Shell!Blank
      /\ n \in 1 .. Len(c) => c[n] # Shell!Blank
      /\ \A k \in 1 .. a - 1 : c[k] = Shell!Blank
      /\ \A k \in a .. e - 1 : c[k] # Shell!Blank
      /\ \A k \in e .. n - 1 : c[k] = Shell!Blank
  <2> HIDE DEF c
  <2> QED
    BY <1>2, CommandNumbers, Parsed DEF ArgumentStart, c
<1>5. Len(text) > 0 /\ Len(text) \in Nat
  BY <1>1, <1>3
<1>6. Shell!NameOf(c) = Shell!NameOf(buf)
  <2>1. PICK l \in 0 .. Len(buf) : c = SubSeq(buf, 1, l)
    BY <1>1, KeptCommand
  <2>2. Shell!ArgumentOf(SubSeq(buf, 1, l)) # << >>
    BY <1>5, <2>1 DEF Argument
  <2> QED
    BY <1>1, <2>1, <2>2, CommandNumbers, SameName
<1>7. Shell!NameOf(c) = SubSeq(c, a, e - 1)
  BY DEF Shell!NameOf
<1> HIDE DEF c, a, e, n, text, A
<1>8. a \in 1 .. Len(c) /\ e \in 1 .. Len(c) /\ n \in 1 .. Len(c)
  BY <1>2, <1>3, <1>4, <1>5
<1>9. a < e /\ e < n
  BY <1>4, <1>8
<1>10. {k \in 1 .. n - 1 : c[k] # Shell!Blank} = a .. e - 1
  <2>1. \A k \in 1 .. n - 1 : k \in 1 .. a - 1 \/ k \in a .. e - 1 \/ k \in e .. n - 1
    BY <1>8
  <2>2. \A k \in a .. e - 1 : k \in 1 .. n - 1
    BY <1>8, <1>9
  <2> QED
    BY <1>4, <2>1, <2>2
<1>11. /\ a \in DOMAIN c /\ e - 1 \in DOMAIN c /\ n \in DOMAIN c
       /\ a <= e - 1 /\ e - 1 < n - 1
       /\ c[n] # Shell!Blank /\ SubSeq(c, a, e - 1) \in Executables
  BY <1>1, <1>2, <1>4, <1>6, <1>7, <1>8, <1>9
<1> QED
  BY <1>10, <1>11 DEF Shell!ArgumentAt, c, n

\* An argument can only begin where parse looks for it.
LEMMA ArgumentIsUnique ==
  ASSUME CommandInv, shell = "program",
         NEW n \in DOMAIN Shell!temp_cmd, Shell!ArgumentAt(n)
  PROVE  n = ArgumentStart
<1> DEFINE c == Shell!temp_cmd
           a == Shell!NameStart(c)
           e == Shell!NameEnd(c)
           m == ArgumentStart
           A == Letters \cup {Shell!Blank}
<1>1. buf \in Seq(A)
  BY DEF CommandInv, Shell!TypeOK
<1>2. c \in Seq(A) /\ Len(c) \in Nat /\ DOMAIN c = 1 .. Len(c)
  BY <1>1, KeptCommand
<1>3. /\ a \in 1 .. Len(c) + 1 /\ e \in a .. Len(c) + 1 /\ m \in e .. Len(c) + 1
      /\ a \in 1 .. Len(c) => c[a] # Shell!Blank
      /\ e \in 1 .. Len(c) => c[e] = Shell!Blank
      /\ m \in 1 .. Len(c) => c[m] # Shell!Blank
      /\ \A k \in 1 .. a - 1 : c[k] = Shell!Blank
      /\ \A k \in a .. e - 1 : c[k] # Shell!Blank
      /\ \A k \in e .. m - 1 : c[k] = Shell!Blank
  <2> HIDE DEF c
  <2> QED
    BY <1>2, CommandNumbers, Parsed DEF ArgumentStart, c
<1>4. PICK i, j \in DOMAIN c :
         i <= j /\ j < n - 1 /\ {k \in 1 .. n - 1 : c[k] # Shell!Blank} = i .. j
  BY DEF Shell!ArgumentAt
<1>5. n \in 1 .. Len(c) /\ c[n] # Shell!Blank
  BY <1>2 DEF Shell!ArgumentAt
<1> HIDE DEF c, a, e, m, A
<1>6. i \in 1 .. Len(c) /\ j \in 1 .. Len(c)
  BY <1>2, <1>4
<1>7. \A k \in i .. j : k \in 1 .. n - 1 /\ c[k] # Shell!Blank
  BY <1>4
<1>8. \A k \in 1 .. n - 1 : c[k] # Shell!Blank => k \in i .. j
  BY <1>4
<1>9. a = i
  <2>1. ~ (i < a)
    <3>1. SUFFICES ASSUME i < a PROVE FALSE
      OBVIOUS
    <3>2. i \in 1 .. a - 1 /\ i \in i .. j
      BY <1>3, <1>4, <1>6, <3>1
    <3> QED
      BY <1>3, <1>7, <3>2
  <2>2. a \in 1 .. n - 1 /\ a \in 1 .. Len(c)
    BY <1>3, <1>4, <1>5, <1>6, <2>1
  <2>3. a \in i .. j
    BY <1>3, <1>8, <2>2
  <2> QED
    BY <1>6, <2>1, <2>3
<1>10. e = j + 1
  <2>1. j + 1 \in 1 .. n - 1 /\ j + 1 \notin i .. j
    BY <1>4, <1>5, <1>6
  <2>2. c[j + 1] = Shell!Blank
    BY <1>8, <2>1
  <2>3. ~ (j + 1 < e)
    <3>1. SUFFICES ASSUME j + 1 < e PROVE FALSE
      OBVIOUS
    <3>2. j + 1 \in a .. e - 1
      BY <1>3, <1>4, <1>6, <1>9, <3>1
    <3> QED
      BY <1>3, <2>2, <3>2
  <2>4. ~ (e < j + 1)
    <3>1. SUFFICES ASSUME e < j + 1 PROVE FALSE
      OBVIOUS
    <3>2. e \in i .. j /\ e \in 1 .. Len(c)
      BY <1>3, <1>6, <1>9, <3>1
    <3> QED
      BY <1>3, <1>7, <3>2
  <2> QED
    BY <1>3, <1>6, <2>3, <2>4
<1>11. ~ (n < m)
  <2>1. SUFFICES ASSUME n < m PROVE FALSE
    OBVIOUS
  <2>2. n \in e .. m - 1
    BY <1>3, <1>4, <1>5, <1>6, <1>10, <2>1
  <2> QED
    BY <1>3, <1>5, <2>2
<1>12. ~ (m < n)
  <2>1. SUFFICES ASSUME m < n PROVE FALSE
    OBVIOUS
  <2>2. m \in 1 .. n - 1 /\ m \in 1 .. Len(c) /\ m \notin i .. j
    BY <1>3, <1>5, <1>6, <1>10, <2>1
  <2> QED
    BY <1>3, <1>8, <2>2
<1> QED
  BY <1>3, <1>5, <1>11, <1>12 DEF m

\* What the program got is its argument, and was refused it only if it has none or
\* gave no room for it.
LEMMA CommandInvImplies ==
  ASSUME CommandInv
  PROVE  Shell!ArgumentsArrive
<1> SUFFICES ASSUME shell = "program"
             PROVE  /\ args # << >> => \E n \in DOMAIN Shell!temp_cmd :
                           /\ Shell!ArgumentAt(n)
                           /\ \A k \in DOMAIN args : args[k] = Shell!CharAt(Shell!temp_cmd, n + k)
                    /\ asked # Shell!NoCall =>
                           (getargs_ret = 0 <=>
                              \E n \in DOMAIN Shell!temp_cmd :
                                 Shell!ArgumentAt(n) /\ asked > Len(Shell!temp_cmd) - n + 1)
  BY Zenon DEF Shell!ArgumentsArrive
<1> DEFINE c == Shell!temp_cmd
           text == Argument
           n == ArgumentStart
           A == Letters \cup {Shell!Blank}
<1>1. /\ buf \in Seq(A)
      /\ argument_buffer_size = Len(text) + 1
      /\ \A k \in 0 .. Len(text) : argument_buffer[k] = Shell!CharAt(text, k + 1)
  BY DEF CommandInv, Shell!TypeOK
<1>2. c \in Seq(A) /\ Len(c) \in Nat /\ DOMAIN c = 1 .. Len(c)
  BY <1>1, KeptCommand
<1>3. /\ text \in Seq(A) /\ Len(text) = Len(c) - n + 1
      /\ \A k \in 1 .. Len(text) : text[k] = c[n + k - 1]
  <2> HIDE DEF c, n
  <2> QED
    BY <1>2, CommandNumbers, ArgumentText DEF Argument, ArgumentStart, c, n
<1>4. n \in Nat
  <2> HIDE DEF c
  <2>1. n \in Shell!NameEnd(c) .. Len(c) + 1 /\ Shell!NameEnd(c) \in Shell!NameStart(c) .. Len(c) + 1
        /\ Shell!NameStart(c) \in 1 .. Len(c) + 1
    BY <1>2, CommandNumbers, Parsed DEF ArgumentStart, c
  <2> HIDE DEF n
  <2> QED
    BY <1>2, <2>1
<1>5. Len(text) \in Nat /\ DOMAIN text = 1 .. Len(text)
  BY <1>3
<1>6. argument_buffer_size > 1 => n \in DOMAIN c /\ Shell!ArgumentAt(n)
  BY ArgumentIsThere
<1>7. \A l \in DOMAIN c : Shell!ArgumentAt(l) => l = n
  BY ArgumentIsUnique
<1> HIDE DEF c, n, text, A
<1>8. ASSUME args # << >>
      PROVE  \E l \in DOMAIN c : /\ Shell!ArgumentAt(l)
                                 /\ \A k \in DOMAIN args : args[k] = Shell!CharAt(c, l + k)
  <2>1. PICK m \in ArgSizes : Shell!HasArguments(m) /\ args = Shell!Copied(m)
    BY <1>8 DEF CommandInv
  <2>2. n \in DOMAIN c /\ Shell!ArgumentAt(n) /\ Len(text) > 0
    BY <1>1, <1>5, <1>6, <2>1 DEF Shell!HasArguments
  <2>3. ASSUME NEW k \in DOMAIN args PROVE args[k] = Shell!CharAt(c, n + k)
    <3>1. /\ m \in Nat /\ k \in 0 .. m - 1
          /\ args[k] = IF k < argument_buffer_size THEN argument_buffer[k] ELSE Shell!NUL
      BY <2>1, <2>3, CommandNumbers DEF Shell!Copied
    <3>2. CASE k < Len(text)
      <4>1. /\ args[k] = Shell!CharAt(text, k + 1)
            /\ k + 1 \in 1 .. Len(text) /\ n + (k + 1) - 1 = n + k /\ n + k \in 1 .. Len(c)
        <5>1. args[k] = Shell!CharAt(text, k + 1)
          BY <1>1, <1>5, <3>1, <3>2
        <5>2. Len(text) = Len(c) - n + 1 /\ n \in Nat /\ n > 0 /\ k \in Nat
          BY <1>2, <1>3, <2>2, <3>1
        <5>3. k + 1 \in 1 .. Len(text)
          BY <1>5, <3>2, <5>2
        <5>4. n + (k + 1) - 1 = n + k /\ n + k \in 1 .. Len(c)
          BY <1>2, <3>2, <5>2
        <5> QED
          BY <5>1, <5>3, <5>4
      <4> QED
        BY <1>2, <1>3, <1>5, <4>1 DEF Shell!CharAt
    <3>3. CASE k >= Len(text)
      <4>1. args[k] = Shell!NUL
        <5>1. CASE k = Len(text)
          <6>1. args[k] = Shell!CharAt(text, k + 1) /\ k + 1 \notin 1 .. Len(text)
            BY <1>1, <1>5, <3>1, <5>1
          <6> QED
            BY <1>5, <6>1 DEF Shell!CharAt
        <5>2. CASE k # Len(text)
          BY <1>1, <1>5, <3>1, <3>3, <5>2
        <5> QED
          BY <5>1, <5>2
      <4>2. n + k \notin 1 .. Len(c)
        BY <1>2, <1>3, <2>2, <3>1, <3>3
      <4> QED
        BY <1>2, <4>1, <4>2 DEF Shell!CharAt
    <3> QED
      BY <1>5, <3>1, <3>2, <3>3
  <2> QED
    BY <2>2, <2>3
<1>9. ASSUME asked # Shell!NoCall
      PROVE  getargs_ret = 0 <=> \E l \in DOMAIN c :
                                    Shell!ArgumentAt(l) /\ asked > Len(c) - l + 1
  <2>1. asked \in Nat /\ (getargs_ret = 0 <=> Shell!HasArguments(asked))
    BY <1>9, CommandNumbers DEF CommandInv, Shell!TypeOK
  <2>2. Shell!HasArguments(asked) <=> asked > Len(text) /\ argument_buffer_size > 1
    BY <1>1, <1>5, <2>1 DEF Shell!HasArguments
  <2>3. ASSUME NEW l \in DOMAIN c, Shell!ArgumentAt(l), asked > Len(c) - l + 1
        PROVE  asked > Len(text) /\ argument_buffer_size > 1
    <3>1. l = n /\ n \in 1 .. Len(c)
      BY <1>2, <1>7, <2>3
    <3> QED
      BY <1>1, <1>2, <1>3, <1>5, <2>1, <2>3, <3>1
  <2>4. ASSUME asked > Len(text), argument_buffer_size > 1
        PROVE  \E l \in DOMAIN c : Shell!ArgumentAt(l) /\ asked > Len(c) - l + 1
    BY <1>3, <1>6, <2>4
  <2> QED
    BY <2>1, <2>2, <2>3, <2>4
<1> QED
  BY <1>8, <1>9 DEF c

\* A step that brings the shell back to its prompt is execute_error, which sets
\* both, or halt, which sets neither.
LEMMA StepReports ==
  ASSUME Shell!Next, shell' = "prompt", shell # "prompt"
  PROVE  message' = "no such command" <=> outcome' = "not started"
<1>1. CASE \E l \in Lines : Shell!shell_read(l) \/ Shell!shell_read(Append(l, Shell!Newline))
  BY <1>1 DEF Shell!shell_read
<1>2. CASE Shell!execute_error
  BY <1>2 DEF Shell!execute_error
<1>3. CASE Shell!execute
  BY <1>3 DEF Shell!execute
<1>4. CASE \E n \in ArgSizes : Shell!getargs(n) \/ Shell!getargs_error(n)
  BY <1>4 DEF Shell!getargs, Shell!getargs_error
<1>5. CASE Shell!signals_error
  BY <1>5 DEF Shell!signals_error
<1>6. CASE \E status \in Statuses : Shell!halt(status)
  <2>1. PICK status \in Statuses : Shell!halt(status)
    BY <1>6
  <2>2. status \in Int
    BY CommandNumbers DEF Shell!CommandWellFormed
  <2> QED
    BY <2>1, <2>2, HaltIsNoStart
<1> QED
  BY <1>1, <1>2, <1>3, <1>4, <1>5, <1>6 DEF Shell!Next

-----------------------------------------------------------------------------
(* The list of names *)

\* How many bytes it has.
Total == Len(Names) * FNAME_SIZE

\* The constants of the directory as numbers.
LEMMA ListingNumbers ==
  /\ FNAME_SIZE \in Nat /\ FNAME_SIZE > 0 /\ MAX_FILES \in Nat
  /\ Len(Names) \in Nat /\ Len(Names) > 0 /\ Len(Names) <= MAX_FILES
  /\ Names \in Seq([1 .. FNAME_SIZE -> Nat])
  /\ \A k \in 1 .. Len(Names) : Names[k] \in [1 .. FNAME_SIZE -> Nat]
  /\ \E k \in 1 .. FNAME_SIZE : Names[1][k] = 0
  /\ \A n \in ReadSizes : n \in Nat /\ n > 0
<1>1. Listing!NamesWellFormed /\ Listing!NamesFit
  BY InstancesAssumption
<1> DEFINE E == [1 .. FNAME_SIZE -> Nat]
<1>2. Names \in Seq(E) /\ Names # << >>
  BY <1>1 DEF Listing!NamesWellFormed
<1> HIDE DEF E
<1>3. Len(Names) \in Nat /\ Len(Names) > 0 /\ \A k \in 1 .. Len(Names) : Names[k] \in E
  BY <1>2
<1>4. /\ FNAME_SIZE \in Nat /\ FNAME_SIZE > 0 /\ MAX_FILES \in Nat
      /\ \A n \in ReadSizes : n \in Nat /\ n > 0
  <2>1. FNAME_SIZE \in Nat \ {0} /\ MAX_FILES \in Nat /\ ReadSizes \subseteq Nat \ {0}
    BY <1>1, Zenon DEF Listing!NamesWellFormed
  <2> QED
    BY <2>1
<1>5. \E k \in 1 .. FNAME_SIZE : Names[1][k] = 0
  BY <1>1, Zenon DEF Listing!NamesWellFormed
<1>6. Len(Names) <= MAX_FILES
  BY <1>1, Zenon DEF Listing!NamesFit, Listing!num_dentries
<1>7. /\ Names \in Seq([1 .. FNAME_SIZE -> Nat])
      /\ \A k \in 1 .. Len(Names) : Names[k] \in [1 .. FNAME_SIZE -> Nat]
  BY <1>2, <1>3, Zenon DEF E
<1> QED
  BY <1>3, <1>4, <1>5, <1>6, <1>7, Zenon

\* The list as it grows: FlattenSeq does what its recursion says.
LEMMA Flattened ==
  \E f \in [1 .. Len(Names) -> Seq(Nat)] :
     /\ Listing!AllBytes = f[Len(Names)]
     /\ f[1] = Names[1]
     /\ \A k \in 2 .. Len(Names) : f[k] = f[k - 1] \o Names[k]
<1> DEFINE N == Len(Names)
           Eq(f) == f = [k \in 1 .. N |-> IF k = 1 THEN Names[k] ELSE f[k - 1] \o Names[k]]
           c == CHOOSE f : Eq(f)
           step == [k \in Nat |-> [r \in Seq(Nat) |-> IF k + 1 \in 1 .. N THEN r \o Names[k + 1]
                                                      ELSE r]]
<1>1. N \in Nat /\ N > 0
  BY ListingNumbers
<1>2. \A k \in 1 .. N : Names[k] \in Seq(Nat)
  <2> TAKE k \in 1 .. N
  <2> DEFINE s == Names[k]
  <2>1. s \in [1 .. FNAME_SIZE -> Nat] /\ FNAME_SIZE \in Nat
    BY ListingNumbers
  <2> HIDE DEF s
  <2> QED
    BY <2>1 DEF s
<1>3. Names[1] \in Seq(Nat)
  BY <1>1, <1>2
<1>4. \A k \in Nat, r \in Seq(Nat) : step[k][r] \in Seq(Nat)
  <2> HIDE DEF N
  <2>1. ASSUME NEW k \in Nat, NEW r \in Seq(Nat) PROVE step[k][r] \in Seq(Nat)
    <3>1. CASE k + 1 \in 1 .. N
      <4>1. Names[k + 1] \in Seq(Nat)
        BY <1>2, <3>1
      <4>2. r \o Names[k + 1] \in Seq(Nat)
        BY <4>1, ConcatProperties
      <4> QED
        BY <3>1, <4>2
    <3>2. CASE k + 1 \notin 1 .. N
      BY <3>2
    <3> QED
      BY <3>1, <3>2
  <2> QED
    BY <2>1
<1>5. \A k \in Nat, r \in Seq(Nat) : k + 1 \in 1 .. N => step[k][r] = r \o Names[k + 1]
  OBVIOUS
<1> HIDE DEF step, N
<1>6. \E f : Eq(f)
  <2> DEFINE base == Names[1]
             S == Seq(Nat)
             m == N - 1
  <2>1. base \in S /\ m \in Nat /\ \A k \in Nat, r \in S : step[k][r] \in S
    BY <1>1, <1>3, <1>4
  <2>2. Computed(S, base, step, m)
    <3> HIDE DEF base, S, m
    <3> QED
      BY <2>1, Recursion
  <2>3. PICK f \in [0 .. N - 1 -> Seq(Nat)] :
           f[0] = Names[1] /\ \A k \in 1 .. N - 1 : f[k] = step[k][f[k - 1]]
    BY <2>2 DEF Computed
  <2> DEFINE g == [k \in 1 .. N |-> f[k - 1]]
  <2>4. g[1] = Names[1]
    BY <1>1, <2>3
  <2>5. \A k \in 1 .. N : k # 1 => g[k] = g[k - 1] \o Names[k]
    <3> TAKE k \in 1 .. N
    <3> HAVE k # 1
    <3>1. k - 1 \in 1 .. N - 1 /\ k - 1 \in 1 .. N /\ k - 2 \in 0 .. N - 1
          /\ (k - 1) + 1 = k /\ (k - 1) - 1 = k - 2 /\ k - 1 \in Nat
      BY <1>1
    <3>2. g[k] = f[k - 1] /\ g[k - 1] = f[k - 2]
      BY <3>1
    <3>3. f[k - 2] \in Seq(Nat)
      BY <2>3, <3>1
    <3>4. f[k - 1] = step[k - 1][f[k - 2]]
      BY <2>3, <3>1
    <3>5. step[k - 1][f[k - 2]] = f[k - 2] \o Names[k]
      BY <1>5, <3>1, <3>3
    <3> QED
      BY <3>2, <3>4, <3>5
  <2>6. g = [k \in 1 .. N |-> g[k]]
    OBVIOUS
  <2> HIDE DEF g
  <2>7. Eq(g)
    BY <2>4, <2>5, <2>6
  <2> QED
    BY <2>7
<1>7. Eq(c)
  <2> HIDE DEF Eq
  <2> QED
    BY <1>6
<1>8. Listing!AllBytes = c[N]
  <2>1. Listing!FlattenSeq(Names) = c[N]
    BY <1>1 DEF Listing!FlattenSeq, N
  <2> QED
    BY <2>1 DEF Listing!AllBytes
<1> HIDE DEF c
<1>9. c[1] = Names[1] /\ \A k \in 2 .. N : c[k] = c[k - 1] \o Names[k]
  <2>1. \A k \in 1 .. N : c[k] = IF k = 1 THEN Names[k] ELSE c[k - 1] \o Names[k]
    BY <1>7
  <2>2. 1 \in 1 .. N /\ \A k \in 2 .. N : k \in 1 .. N /\ k # 1
    BY <1>1
  <2> QED
    BY <2>1, <2>2
<1> DEFINE Good == {k \in Nat : k + 1 \in 1 .. N => c[k + 1] \in Seq(Nat)}
<1>10. Nat \subseteq Good
  <2>1. 0 \in Good
    BY <1>3, <1>9
  <2>2. ASSUME NEW k \in Nat, k \in Good PROVE k + 1 \in Good
    <3> SUFFICES ASSUME (k + 1) + 1 \in 1 .. N PROVE c[(k + 1) + 1] \in Seq(Nat)
      OBVIOUS
    <3>1. k + 1 \in 1 .. N /\ (k + 1) + 1 \in 2 .. N /\ ((k + 1) + 1) - 1 = k + 1
      BY <1>1
    <3>2. c[k + 1] \in Seq(Nat) /\ Names[(k + 1) + 1] \in Seq(Nat)
      BY <1>2, <2>2, <3>1
    <3>3. c[(k + 1) + 1] = c[k + 1] \o Names[(k + 1) + 1]
      BY <1>9, <3>1
    <3> QED
      BY <3>2, <3>3, ConcatProperties
  <2> HIDE DEF Good
  <2> QED
    BY <2>1, <2>2, AllNat
<1>11. \A k \in 1 .. N : c[k] \in Seq(Nat)
  <2> TAKE k \in 1 .. N
  <2>1. k - 1 \in Good /\ (k - 1) + 1 = k
    BY <1>10
  <2> QED
    BY <2>1
<1>12. c \in [1 .. N -> Seq(Nat)]
  BY <1>7, <1>11
<1> QED
  BY <1>8, <1>9, <1>12 DEF N

\* The list has all names, one after the other.
LEMMA ListOfNames ==
  /\ Listing!AllBytes \in Seq(Nat)
  /\ Len(Listing!AllBytes) = Total
  /\ \A k \in 0 .. Len(Names) - 1 : \A j \in 1 .. FNAME_SIZE :
        Listing!AllBytes[k * FNAME_SIZE + j] = Names[k + 1][j]
<1> DEFINE N == Len(Names)
           F == FNAME_SIZE
<1>1. /\ N \in Nat /\ N > 0 /\ F \in Nat
      /\ \A k \in 1 .. N : Names[k] \in [1 .. F -> Nat]
  BY ListingNumbers
<1>2. PICK f \in [1 .. N -> Seq(Nat)] :
         /\ Listing!AllBytes = f[N]
         /\ f[1] = Names[1]
         /\ \A k \in 2 .. N : f[k] = f[k - 1] \o Names[k]
  BY Flattened
<1>3. \A k \in 1 .. N : Names[k] \in Seq(Nat) /\ Len(Names[k]) = F
  <2> TAKE k \in 1 .. N
  <2> DEFINE s == Names[k]
  <2>1. s \in [1 .. F -> Nat]
    BY <1>1
  <2> HIDE DEF s
  <2> QED
    BY <1>1, <2>1 DEF s
<1> HIDE DEF N, F
<1> DEFINE Right(n, s) == /\ Len(s) = n * F
                          /\ \A k \in 0 .. n - 1 : \A j \in 1 .. F : s[k * F + j] = Names[k + 1][j]
           Good == {n \in Nat : n + 1 \in 1 .. N => Right(n + 1, f[n + 1])}
<1>4. 0 \in Good
  <2>1. 0 + 1 = 1 /\ 1 * F = F /\ 1 \in 1 .. N /\ 0 * F = 0
    BY <1>1
  <2>2. Len(f[1]) = F
    BY <1>2, <1>3, <2>1
  <2>3. \A k \in 0 .. 1 - 1 : k = 0
    OBVIOUS
  <2>4. \A j \in 1 .. F : f[1][0 * F + j] = Names[0 + 1][j]
    BY <1>1, <1>2, <2>1
  <2>5. Right(1, f[1])
    BY <2>1, <2>2, <2>3, <2>4
  <2> QED
    BY <2>1, <2>5
<1>5. ASSUME NEW n \in Nat, n \in Good PROVE n + 1 \in Good
  <2> SUFFICES ASSUME (n + 1) + 1 \in 1 .. N PROVE Right((n + 1) + 1, f[(n + 1) + 1])
    OBVIOUS
  <2> DEFINE m == n + 1
             a == f[m]
             b == Names[m + 1]
             s == f[m + 1]
  <2>1. m \in Nat /\ m \in 1 .. N /\ m + 1 \in 2 .. N /\ m + 1 \in 1 .. N /\ (m + 1) - 1 = m
    BY <1>1
  <2>2. Right(m, a)
    BY <1>5, <2>1
  <2>3. a \in Seq(Nat) /\ b \in Seq(Nat) /\ Len(b) = F /\ s = a \o b
    BY <1>2, <1>3, <2>1
  <2> HIDE DEF m, a, b, s
  <2>4. m * F \in Nat /\ (m + 1) * F = m * F + F
    BY <1>1, <2>1, Times
  <2>5. Len(a) = m * F
    BY <2>2
  <2> DEFINE L == m * F
  <2>6. L \in Nat /\ Len(a) = L /\ (m + 1) * F = L + F
    BY <2>4, <2>5
  <2> HIDE DEF L
  <2>7. /\ Len(s) = L + F
        /\ \A k \in 1 .. L + F : s[k] = IF k <= L THEN a[k] ELSE b[k - L]
    BY <2>3, <2>6, ConcatProperties
  <2>8. ASSUME NEW k \in 0 .. (m + 1) - 1, NEW j \in 1 .. F
        PROVE  s[k * F + j] = Names[k + 1][j]
    <3>1. CASE k < m
      <4>1. k \in Nat /\ k \in 0 .. m - 1
        BY <2>1, <3>1
      <4>2. k * F \in Nat /\ k * F + F <= m * F
        BY <1>1, <2>1, <3>1, <4>1, Times
      <4> DEFINE x == k * F
      <4>3. x \in Nat /\ x + F <= L
        BY <4>2 DEF L
      <4> HIDE DEF x
      <4>4. x + j \in 1 .. L + F /\ x + j <= L
        BY <1>1, <2>6, <4>3
      <4>5. s[x + j] = a[x + j]
        BY <2>7, <4>4
      <4>6. a[x + j] = Names[k + 1][j]
        BY <2>2, <4>1 DEF x
      <4> QED
        BY <4>5, <4>6 DEF x
    <3>2. CASE k = m
      <4>1. k * F = L
        BY <3>2 DEF L
      <4>2. L + j \in 1 .. L + F /\ ~ (L + j <= L) /\ (L + j) - L = j
        BY <1>1, <2>6
      <4>3. s[L + j] = b[j]
        BY <2>7, <4>2
      <4> QED
        BY <3>2, <4>1, <4>3 DEF b
    <3> QED
      BY <2>1, <3>1, <3>2
  <2>9. Right(m + 1, s)
    BY <2>6, <2>7, <2>8
  <2> QED
    BY <2>9 DEF m, s
<1>6. Nat \subseteq Good
  <2> HIDE DEF Good
  <2> QED
    BY <1>4, <1>5, AllNat
<1>7. N - 1 \in Nat /\ (N - 1) + 1 = N /\ N \in 1 .. N
  BY <1>1
<1>8. Right(N, f[N])
  <2>1. (N - 1) + 1 \in 1 .. N => Right((N - 1) + 1, f[(N - 1) + 1])
    <3> HIDE DEF Right
    <3> QED
      BY <1>6, <1>7
  <2> HIDE DEF Right
  <2> QED
    BY <1>7, <2>1
<1>9. f[N] \in Seq(Nat)
  BY <1>2, <1>7
<1> QED
  BY <1>2, <1>8, <1>9 DEF N, F, Total

-----------------------------------------------------------------------------
(* dir_open and dir_read *)

\* The first l bytes of a buffer are those of the list.
Holds(b, l) == \A k \in 0 .. l - 1 : b[k] = Listing!AllBytes[k + 1]

\* While a process is in dir_open, no other is in a call, and the buffer has the
\* names copied so far; while none is, an open directory's list is complete.
BufferInv ==
    /\ \A p \in Procs : dir_pc[p] \in {"name", "fill", "grow"} =>
          /\ dir_i[p] < Len(Names)
          /\ dir_length = dir_i[p] * FNAME_SIZE
          /\ Holds(dir_buf, dir_i[p] * FNAME_SIZE)
          /\ dir_pc[p] # "name" => Holds(dir_buf, (dir_i[p] + 1) * FNAME_SIZE)
          /\ \A q \in Procs : q # p => dir_pc[q] \in {"closed", "idle"}
    /\ (\A p \in Procs : dir_pc[p] \notin {"name", "fill", "grow"})
          /\ (\E p \in Procs : dir_pc[p] # "closed")
       => dir_length = Total /\ Holds(dir_buf, Total)

\* What a process has read, and where its descriptor and its dir_read are.
ReadInv(p) ==
    /\ Len(dir_got[p]) <= Total
    /\ \A k \in 1 .. Len(dir_got[p]) : dir_got[p][k] = Listing!AllBytes[k]
    /\ dir_ended[p] => \E n \in ReadSizes : Len(dir_got[p]) + n >= Total
    /\ dir_pc[p] # "closed" /\ dir_ended[p] => file_pos[p] = Total
    /\ dir_pc[p] # "closed" /\ ~ dir_ended[p] => file_pos[p] = Len(dir_got[p])
    /\ dir_pc[p] \in {"copy", "test"} =>
          /\ nbytes[p] \in ReadSizes /\ dir_i[p] <= nbytes[p]
          /\ file_pos[p] + dir_i[p] <= Total
          /\ \A k \in 1 .. Len(dir_to[p]) : dir_to[p][k] = Listing!AllBytes[file_pos[p] + k]
    /\ dir_pc[p] = "copy" =>
          /\ Len(dir_to[p]) = dir_i[p]
          /\ end_of_file[p] <=> file_pos[p] + dir_i[p] >= Total
    /\ dir_pc[p] = "test" =>
          /\ Len(dir_to[p]) = dir_i[p] + 1
          /\ dir_i[p] < nbytes[p] /\ file_pos[p] + dir_i[p] < Total

\* The inductive invariant of the directory.
ListingInv == Listing!TypeOK /\ BufferInv /\ \A p \in Procs : ReadInv(p)

\* The list fits in the buffer.
LEMMA BufferRoom ==
  /\ Total \in Nat /\ Listing!MAX_BUF_SIZE \in Nat
  /\ Total <= Listing!MAX_BUF_SIZE
  /\ FNAME_SIZE <= Total
  /\ \A k \in Nat : k < Len(Names) =>
        /\ k * FNAME_SIZE \in Nat
        /\ (k + 1) * FNAME_SIZE = k * FNAME_SIZE + FNAME_SIZE
        /\ k * FNAME_SIZE + FNAME_SIZE <= Total
<1> DEFINE N == Len(Names)
           F == FNAME_SIZE
           M == MAX_FILES
<1>1. N \in Nat /\ F \in Nat /\ M \in Nat /\ N <= M /\ N > 0 /\ F > 0
  BY ListingNumbers
<1> HIDE DEF N, F, M
<1>2. N * F \in Nat /\ M * F \in Nat /\ N * F <= M * F
  BY <1>1, Times
<1>4. \A k \in Nat : k < N => k * F \in Nat /\ (k + 1) * F = k * F + F /\ k * F + F <= N * F
  BY <1>1, Times
<1>5. F <= N * F
  <2>1. 0 * F + F <= N * F /\ 0 * F = 0
    BY <1>1, <1>4
  <2> QED
    BY <1>1, <2>1
<1> QED
  BY <1>2, <1>4, <1>5 DEF N, F, M, Total, Listing!MAX_BUF_SIZE

\* The types of the directory's variables.
ListingTypes ==
    /\ dir_buf \in [0 .. Listing!MAX_BUF_SIZE - 1 -> Nat]
    /\ dir_length \in 0 .. Listing!MAX_BUF_SIZE
    /\ dir_pc \in [Procs -> {"name", "fill", "grow", "test", "copy", "closed", "idle"}]
    /\ dir_i \in [Procs -> Nat]
    /\ nbytes \in [Procs -> ReadSizes \cup {0}]
    /\ end_of_file \in [Procs -> BOOLEAN]
    /\ file_pos \in [Procs -> 0 .. Listing!MAX_BUF_SIZE]
    /\ dir_to \in [Procs -> Seq(Nat)]
    /\ dir_got \in [Procs -> Seq(Nat)]
    /\ dir_ended \in [Procs -> BOOLEAN]

\* They are what Directory says.
LEMMA ListingTypesAre == Listing!TypeOK <=> ListingTypes
<1>1. Listing!Opening \cup Listing!Reading \cup {"closed", "idle"}
        = {"name", "fill", "grow", "test", "copy", "closed", "idle"}
  BY DEF Listing!Opening, Listing!Reading
<1> QED
  BY <1>1, Zenon DEF Listing!TypeOK, ListingTypes

\* The same after a step.
LEMMA TypesAfter ==
  ASSUME ListingTypes'
  PROVE  Listing!TypeOK'
<1>1. Listing!Opening \cup Listing!Reading \cup {"closed", "idle"}
        = {"name", "fill", "grow", "test", "copy", "closed", "idle"}
  BY DEF Listing!Opening, Listing!Reading
<1>2. (Listing!Opening \cup Listing!Reading \cup {"closed", "idle"})'
        = {"name", "fill", "grow", "test", "copy", "closed", "idle"}
  BY DEF Listing!Opening, Listing!Reading
<1> QED
  BY <1>1, <1>2, Zenon DEF Listing!TypeOK, ListingTypes, Listing!MAX_BUF_SIZE, Listing!Opening,
                            Listing!Reading

\* Nothing happens to the reads of a process whose variables stay.
LEMMA OthersKeep ==
  ASSUME NEW q, ReadInv(q),
         dir_got'[q] = dir_got[q], dir_ended'[q] = dir_ended[q], dir_pc'[q] = dir_pc[q],
         file_pos'[q] = file_pos[q], nbytes'[q] = nbytes[q], dir_i'[q] = dir_i[q],
         dir_to'[q] = dir_to[q], end_of_file'[q] = end_of_file[q]
  PROVE  ReadInv(q)'
BY ZenonT(60) DEF ReadInv, Listing!AllBytes, Listing!FlattenSeq, Total

\* When some process is in a call other than dir_open, or has the directory open
\* while none is in dir_open, the list is complete.
LEMMA Complete ==
  ASSUME ListingInv, NEW p \in Procs, dir_pc[p] \in {"idle", "copy", "test"},
         \A q \in Procs : dir_pc[q] \notin {"name", "fill", "grow"}
  PROVE  dir_length = Total /\ Holds(dir_buf, Total)
BY DEF ListingInv, BufferInv

\* While a process is in dir_read, none is in dir_open.
LEMMA ReadingIsUndisturbed ==
  ASSUME ListingInv, NEW p \in Procs, dir_pc[p] \in {"copy", "test"}
  PROVE  \A q \in Procs : dir_pc[q] \notin {"name", "fill", "grow"}
BY DEF ListingInv, BufferInv

\* A step of one process between its open and closed directory, none of which is
\* in dir_open, leaves the buffer as it is.
LEMMA BufferKeeps ==
  ASSUME ListingInv, NEW p \in Procs,
         UNCHANGED <<dir_buf, dir_length>>,
         dir_pc[p] \in {"idle", "copy", "test"},
         NEW l \in {"closed", "idle", "copy", "test"}, dir_pc' = [dir_pc EXCEPT ![p] = l],
         l \in {"copy", "test"} => \A q \in Procs : dir_pc[q] \notin {"name", "fill", "grow"},
         \A q \in Procs : q # p => dir_i'[q] = dir_i[q]
  PROVE  BufferInv'
<1>1. dir_pc \in [Procs -> {"name", "fill", "grow", "test", "copy", "closed", "idle"}]
  BY ListingTypesAre DEF ListingInv, ListingTypes
<1>2. dir_pc'[p] = l /\ \A q \in Procs : q # p => dir_pc'[q] = dir_pc[q]
  BY <1>1
<1>3. dir_buf' = dir_buf /\ Total' = Total
  BY DEF Total
<1>4. ASSUME NEW q \in Procs, dir_pc'[q] \in {"name", "fill", "grow"}
      PROVE  /\ dir_i'[q] < Len(Names) /\ dir_length' = dir_i'[q] * FNAME_SIZE
             /\ Holds(dir_buf', dir_i'[q] * FNAME_SIZE)
             /\ dir_pc'[q] # "name" => Holds(dir_buf', (dir_i'[q] + 1) * FNAME_SIZE)
             /\ \A r \in Procs : r # q => dir_pc'[r] \in {"closed", "idle"}
  <2>1. q # p /\ dir_pc'[q] = dir_pc[q] /\ dir_i'[q] = dir_i[q]
    BY <1>2, <1>4
  <2>2. /\ dir_i[q] < Len(Names) /\ dir_length = dir_i[q] * FNAME_SIZE
        /\ Holds(dir_buf, dir_i[q] * FNAME_SIZE)
        /\ dir_pc[q] # "name" => Holds(dir_buf, (dir_i[q] + 1) * FNAME_SIZE)
        /\ \A r \in Procs : r # q => dir_pc[r] \in {"closed", "idle"}
    BY <1>4, <2>1 DEF ListingInv, BufferInv
  <2>3. l \in {"closed", "idle"}
    BY <1>4, <2>1
  <2>4. \A r \in Procs : r # q => dir_pc'[r] \in {"closed", "idle"}
    BY <1>2, <2>2, <2>3
  <2> QED
    BY <1>3, <2>1, <2>2, <2>4
<1>5. ASSUME \A q \in Procs : dir_pc'[q] \notin {"name", "fill", "grow"}
      PROVE  dir_length' = Total /\ Holds(dir_buf', Total)
  <2>1. \A q \in Procs : dir_pc[q] \notin {"name", "fill", "grow"}
    BY <1>2, <1>5
  <2>2. dir_length = Total /\ Holds(dir_buf, Total)
    BY <2>1, Complete
  <2> QED
    BY <1>3, <2>2
<1> QED
  BY <1>4, <1>5 DEF BufferInv

\* dir_open begins with an empty list.
LEMMA DirOpenStep ==
  ASSUME ListingInv, NEW p \in Procs, Listing!dir_open(p),
         Listing!NobodyOpening, Listing!NobodyReading
  PROVE  ListingInv'
<1>1. ListingTypes
  BY ListingTypesAre DEF ListingInv
<1>2. /\ dir_pc' = [dir_pc EXCEPT ![p] = "name"] /\ dir_length' = 0 /\ dir_buf' = dir_buf
      /\ file_pos' = [file_pos EXCEPT ![p] = 0] /\ dir_i' = [dir_i EXCEPT ![p] = 0]
      /\ dir_got' = [dir_got EXCEPT ![p] = << >>] /\ dir_ended' = [dir_ended EXCEPT ![p] = FALSE]
      /\ nbytes' = nbytes /\ end_of_file' = end_of_file /\ dir_to' = dir_to
  BY DEF Listing!dir_open, Listing!Goto
<1>3. \A q \in Procs : dir_pc[q] \in {"closed", "idle"}
  BY <1>1 DEF ListingTypes, Listing!NobodyOpening, Listing!NobodyReading, Listing!Opening,
              Listing!Reading
<1>4. /\ dir_pc'[p] = "name" /\ file_pos'[p] = 0 /\ dir_i'[p] = 0 /\ dir_got'[p] = << >>
      /\ dir_ended'[p] = FALSE
      /\ \A q \in Procs : q # p =>
            /\ dir_pc'[q] = dir_pc[q] /\ file_pos'[q] = file_pos[q] /\ dir_i'[q] = dir_i[q]
            /\ dir_got'[q] = dir_got[q] /\ dir_ended'[q] = dir_ended[q]
  BY <1>1, <1>2 DEF ListingTypes
<1>5. 0 \in 0 .. Listing!MAX_BUF_SIZE /\ << >> \in Seq(Nat) /\ Total \in Nat /\ Len(Names) > 0
      /\ 0 * FNAME_SIZE = 0
  BY BufferRoom, ListingNumbers
<1>6. ListingTypes'
  BY <1>1, <1>2, <1>5 DEF ListingTypes, Listing!MAX_BUF_SIZE
<1>7. BufferInv'
  <2>1. \A q \in Procs : dir_pc'[q] \in {"name", "fill", "grow"} => q = p
    BY <1>3, <1>4
  <2>2. Holds(dir_buf', 0)
    BY DEF Holds
  <2> QED
    BY <1>2, <1>3, <1>4, <1>5, <2>1, <2>2 DEF BufferInv
<1>8. ReadInv(p)'
  BY <1>4, <1>5 DEF ReadInv
<1>9. \A q \in Procs : q # p => ReadInv(q)'
  BY <1>2, <1>4, OthersKeep DEF ListingInv
<1> QED
  BY <1>6, <1>7, <1>8, <1>9, TypesAfter DEF ListingInv

\* What a process in dir_open knows.
LEMMA OpenerKnows ==
  ASSUME ListingInv, NEW p \in Procs, dir_pc[p] \in {"name", "fill", "grow"}
  PROVE  /\ dir_i[p] \in Nat /\ dir_i[p] < Len(Names) /\ Len(Names) \in Nat
         /\ dir_length = dir_i[p] * FNAME_SIZE /\ dir_length \in Nat
         /\ FNAME_SIZE \in Nat /\ FNAME_SIZE > 0
         /\ (dir_i[p] + 1) * FNAME_SIZE = dir_length + FNAME_SIZE
         /\ dir_length + FNAME_SIZE <= Total /\ Total \in Nat
         /\ Listing!MAX_BUF_SIZE \in Nat /\ Total <= Listing!MAX_BUF_SIZE
         /\ Holds(dir_buf, dir_length)
         /\ dir_pc[p] # "name" => Holds(dir_buf, dir_length + FNAME_SIZE)
         /\ \A q \in Procs : q # p => dir_pc[q] \in {"closed", "idle"}
<1>1. dir_i[p] \in Nat
  BY ListingTypesAre DEF ListingInv, ListingTypes
<1>2. /\ dir_i[p] < Len(Names) /\ dir_length = dir_i[p] * FNAME_SIZE
      /\ Holds(dir_buf, dir_i[p] * FNAME_SIZE)
      /\ dir_pc[p] # "name" => Holds(dir_buf, (dir_i[p] + 1) * FNAME_SIZE)
      /\ \A q \in Procs : q # p => dir_pc[q] \in {"closed", "idle"}
  BY DEF ListingInv, BufferInv
<1> DEFINE k == dir_i[p]
<1>3. /\ k * FNAME_SIZE \in Nat
      /\ (k + 1) * FNAME_SIZE = k * FNAME_SIZE + FNAME_SIZE
      /\ k * FNAME_SIZE + FNAME_SIZE <= Total
  <2> HIDE DEF k
  <2> QED
    BY <1>1, <1>2, BufferRoom DEF k
<1> QED
  BY <1>1, <1>2, <1>3, ListingNumbers, BufferRoom

\* A step of the opener that goes on in its loop.
LEMMA OpenerStep ==
  ASSUME ListingInv, NEW p \in Procs, dir_pc[p] \in {"name", "fill", "grow"},
         NEW l \in {"fill", "grow"}, dir_pc' = [dir_pc EXCEPT ![p] = l],
         dir_buf' \in [0 .. Listing!MAX_BUF_SIZE - 1 -> Nat],
         Holds(dir_buf', dir_length + FNAME_SIZE),
         UNCHANGED <<dir_length, dir_i, nbytes, end_of_file, dir_to, file_pos, dir_got, dir_ended>>
  PROVE  ListingInv'
<1>1. ListingTypes
  BY ListingTypesAre DEF ListingInv
<1>2. /\ dir_i[p] \in Nat /\ dir_i[p] < Len(Names)
      /\ dir_length = dir_i[p] * FNAME_SIZE
      /\ FNAME_SIZE \in Nat /\ dir_length \in Nat
      /\ (dir_i[p] + 1) * FNAME_SIZE = dir_length + FNAME_SIZE
      /\ \A q \in Procs : q # p => dir_pc[q] \in {"closed", "idle"}
  BY OpenerKnows
<1>3. dir_pc'[p] = l /\ \A q \in Procs : q # p => dir_pc'[q] = dir_pc[q]
  BY <1>1 DEF ListingTypes
<1>4. ListingTypes'
  BY <1>1 DEF ListingTypes, Listing!MAX_BUF_SIZE
<1>5. Holds(dir_buf', dir_length)
  <2>1. dir_length \in Nat /\ FNAME_SIZE \in Nat
    BY <1>2
  <2>2. 0 .. dir_length - 1 \subseteq 0 .. (dir_length + FNAME_SIZE) - 1
    BY <2>1
  <2> QED
    BY <2>2 DEF Holds
<1>6. BufferInv'
  <2>1. \A q \in Procs : dir_pc'[q] \in {"name", "fill", "grow"} => q = p
    BY <1>2, <1>3
  <2> QED
    BY <1>2, <1>3, <1>5, <2>1 DEF BufferInv
<1>7. ReadInv(p)'
  <2>1. /\ dir_pc[p] # "closed" /\ dir_pc'[p] # "closed"
        /\ dir_pc'[p] \notin {"copy", "test"} /\ dir_pc'[p] # "copy" /\ dir_pc'[p] # "test"
    BY <1>3
  <2> QED
    BY <2>1 DEF ListingInv, ReadInv, Total, Listing!AllBytes, Listing!FlattenSeq
<1>8. \A q \in Procs : q # p => ReadInv(q)'
  BY <1>3, OthersKeep DEF ListingInv
<1> QED
  BY <1>4, <1>6, <1>7, <1>8, TypesAfter DEF ListingInv

\* The next name goes behind those that are there.
LEMMA CopyNameStep ==
  ASSUME ListingInv, NEW p \in Procs, Listing!copy_name(p)
  PROVE  ListingInv'
<1> DEFINE d == dir_length
           F == FNAME_SIZE
           name == Names[dir_i[p] + 1]
           M == Listing!MAX_BUF_SIZE
<1>1. ListingTypes
  BY ListingTypesAre DEF ListingInv
<1>2. dir_pc[p] = "name"
  BY DEF Listing!copy_name
<1>3. /\ dir_i[p] \in Nat /\ dir_i[p] < Len(Names) /\ Len(Names) \in Nat
      /\ d = dir_i[p] * F /\ d \in Nat /\ F \in Nat
      /\ d + F <= Total /\ Total \in Nat /\ M \in Nat /\ Total <= M
      /\ Holds(dir_buf, d)
  BY <1>2, OpenerKnows
<1>4. /\ dir_pc' = [dir_pc EXCEPT ![p] = "fill"]
      /\ dir_buf' = [k \in DOMAIN dir_buf |-> IF k \in d .. d + F - 1 THEN name[k - d + 1]
                                              ELSE dir_buf[k]]
      /\ UNCHANGED <<d, dir_i, nbytes, end_of_file, dir_to, file_pos, dir_got, dir_ended>>
  BY DEF Listing!copy_name, Listing!Goto, Listing!locals, Listing!history
<1>5. dir_buf \in [0 .. M - 1 -> Nat]
  BY <1>1 DEF ListingTypes
<1>6. name \in [1 .. F -> Nat] /\ \A j \in 1 .. F : Listing!AllBytes[d + j] = name[j]
  <2>1. dir_i[p] \in 0 .. Len(Names) - 1 /\ dir_i[p] + 1 \in 1 .. Len(Names)
    BY <1>3, SMTT(30)
  <2> QED
    BY <1>3, <2>1, ListingNumbers, ListOfNames
<1> HIDE DEF d, F, name, M
<1>7. \A k \in d .. d + F - 1 : k - d + 1 \in 1 .. F /\ d + (k - d + 1) = k + 1
  <2>1. d \in Nat /\ F \in Nat
    BY <1>3
  <2> QED
    BY <2>1
<1>8. dir_buf' \in [0 .. M - 1 -> Nat]
  BY <1>4, <1>5, <1>6, <1>7
<1>9. Holds(dir_buf', d + F)
  <2>1. ASSUME NEW k \in 0 .. d + F - 1
        PROVE  dir_buf'[k] = Listing!AllBytes[k + 1]
    <3>1. k \in 0 .. M - 1
      BY <1>3
    <3>2. CASE k \in d .. d + F - 1
      BY <1>4, <1>5, <1>6, <1>7, <3>1, <3>2
    <3>3. CASE k \notin d .. d + F - 1
      <4>1. k \in 0 .. d - 1
        BY <1>3, <3>3
      <4> QED
        BY <1>3, <1>4, <1>5, <3>1, <3>3, <4>1 DEF Holds
    <3> QED
      BY <3>2, <3>3
  <2> DEFINE l == d + F
  <2>2. \A k \in 0 .. l - 1 : dir_buf'[k] = Listing!AllBytes[k + 1]
    <3>1. d \in Nat /\ F \in Nat
      BY <1>3
    <3>2. 0 .. l - 1 = 0 .. d + F - 1
      BY <3>1
    <3> QED
      BY <2>1, <3>2
  <2> HIDE DEF l
  <2>3. Holds(dir_buf', l)
    BY <2>2 DEF Holds
  <2> QED
    BY <2>3 DEF l
<1> QED
  BY <1>2, <1>4, <1>8, <1>9, OpenerStep DEF d, F, M

\* dir_open's strlen finds the end of the first name, which is not past its places.
LEMMA FirstNameEnds ==
  ASSUME ListingInv, NEW l \in Nat, FNAME_SIZE <= l, Holds(dir_buf, l)
  PROVE  Listing!FirstNameLength \in Nat /\ Listing!FirstNameLength < FNAME_SIZE
<1> DEFINE M == Listing!MAX_BUF_SIZE
           T == {k \in 0 .. M - 1 : dir_buf[k] = 0}
           Is(n) == dir_buf[n] = 0 /\ \A k \in 0 .. n - 1 : dir_buf[k] # 0
<1>1. PICK j \in 1 .. FNAME_SIZE : Names[1][j] = 0
  BY ListingNumbers
<1>2. M \in Nat /\ FNAME_SIZE \in Nat /\ FNAME_SIZE <= M
  BY BufferRoom, ListingNumbers
<1>3. Listing!AllBytes[j] = 0
  <2>1. 0 \in 0 .. Len(Names) - 1 /\ 0 * FNAME_SIZE + j = j /\ 0 + 1 = 1
    BY ListingNumbers
  <2> QED
    BY <1>1, <2>1, ListOfNames
<1>4. j - 1 \in T
  <2>1. j - 1 \in 0 .. l - 1 /\ (j - 1) + 1 = j /\ j - 1 \in 0 .. M - 1
    BY <1>2
  <2> QED
    BY <1>3, <2>1 DEF Holds
<1>5. T \subseteq Nat
  BY <1>2
<1>6. PICK n \in T : \A k \in T : ~ (k < n)
  BY <1>4, <1>5, LeastNat
<1>7. n \in 0 .. M - 1 /\ Is(n)
  BY <1>2, <1>6
<1> DEFINE c == CHOOSE x \in 0 .. M - 1 : Is(x)
<1>8. c \in 0 .. M - 1 /\ Is(c)
  <2> HIDE DEF Is
  <2> QED
    BY <1>7
<1>9. ~ (j - 1 < c)
  <2> DEFINE b == j - 1
  <2>1. b \in Nat /\ dir_buf[b] = 0
    BY <1>2, <1>4
  <2> HIDE DEF b, c
  <2>2. SUFFICES ASSUME b < c PROVE FALSE
    BY DEF b
  <2>3. b \in 0 .. c - 1
    BY <1>2, <1>8, <2>1, <2>2
  <2> QED
    BY <1>8, <2>1, <2>3
<1>10. c \in Nat /\ c < FNAME_SIZE
  <2> HIDE DEF c
  <2> QED
    BY <1>2, <1>8, <1>9
<1> QED
  BY <1>10 DEF Listing!FirstNameLength

\* What dir_open clears is behind the names, and inside the buffer as long as they
\* are at most half of those there is room for.
LEMMA FillRangeIs ==
  ASSUME ListingInv, NEW p \in Procs, dir_pc[p] = "fill"
  PROVE  /\ \A k \in Listing!FillRange(p) : ~ (k < dir_length + FNAME_SIZE)
         /\ Listing!FillRange(p) \subseteq 0 .. Listing!MAX_BUF_SIZE - 1
              <=> 2 * (dir_i[p] + 1) <= MAX_FILES
<1> DEFINE d == dir_length
           F == FNAME_SIZE
           N == MAX_FILES
           n == dir_i[p] + 1
           M == Listing!MAX_BUF_SIZE
           first == Listing!FirstNameLength
<1>1. /\ d \in Nat /\ F \in Nat /\ F > 0 /\ M \in Nat /\ n \in Nat
      /\ Holds(dir_buf, d + F) /\ n * F = d + F
  BY OpenerKnows
<1>2. first \in Nat /\ first < F
  <2>1. d + F \in Nat /\ FNAME_SIZE <= d + F
    BY <1>1
  <2> HIDE DEF d
  <2> QED
    BY <1>1, <2>1, FirstNameEnds
<1>3. Listing!FillRange(p) = d + F + first .. d + F + (d + F) - 1
  BY <1>1 DEF Listing!FillRange
<1>4. N \in Nat /\ M = N * F
  BY ListingNumbers DEF Listing!MAX_BUF_SIZE
<1> HIDE DEF d, F, M, N, n, first
<1>5. \A k \in d + F + first .. d + F + (d + F) - 1 : ~ (k < d + F)
  BY <1>1, <1>2
<1>6. 2 * n <= N <=> d + F + (d + F) <= M
  <2> DEFINE m == 2 * n
  <2>1. m \in Nat /\ m * F = d + F + (d + F)
    <3>1. m \in Nat /\ m = n + n
      BY <1>1
    <3>2. (n + n) * F = n * F + n * F
      BY <1>1
    <3> QED
      BY <1>1, <3>1, <3>2
  <2> HIDE DEF m
  <2>2. m <= N => m * F <= N * F
    BY <1>1, <1>4, <2>1, Times
  <2>3. N + 1 <= m => (N + 1) * F <= m * F
    BY <1>1, <1>4, <2>1, Times
  <2>4. (N + 1) * F = N * F + F /\ N * F \in Nat /\ m * F \in Nat
    BY <1>1, <1>4, <2>1, Times
  <2>5. m <= N \/ N + 1 <= m
    BY <1>4, <2>1
  <2>6. N + 1 <= m => ~ (m * F <= N * F)
    BY <1>1, <2>3, <2>4
  <2>7. N + 1 <= m => ~ (m <= N)
    BY <1>4, <2>1
  <2> QED
    BY <1>4, <2>1, <2>2, <2>5, <2>6, <2>7 DEF m
<1> DEFINE e == d + F + (d + F)
<1>7. e \in Nat /\ d + F + first \in Nat /\ d + F + first <= e - 1
  BY <1>1, <1>2
<1>8. Listing!FillRange(p) = d + F + first .. e - 1
  <2>1. d + F + (d + F) - 1 = e - 1
    BY <1>1
  <2> HIDE DEF e
  <2> QED
    BY <1>3, <2>1
<1> HIDE DEF e
<1>9. d + F + first .. e - 1 \subseteq 0 .. M - 1 => e <= M
  <2>1. e - 1 \in d + F + first .. e - 1
    BY <1>7
  <2>2. e - 1 \in 0 .. M - 1 => e <= M
    BY <1>1, <1>7
  <2> QED
    BY <2>1, <2>2
<1>10. e <= M => d + F + first .. e - 1 \subseteq 0 .. M - 1
  BY <1>1, <1>7
<1>11. Listing!FillRange(p) \subseteq 0 .. M - 1 <=> e <= M
  BY <1>8, <1>9, <1>10
<1> QED
  BY <1>3, <1>5, <1>6, <1>11 DEF d, F, M, N, n, e

\* The padding goes behind the names.
LEMMA FillStep ==
  ASSUME ListingInv, NEW p \in Procs, Listing!fill(p)
  PROVE  ListingInv'
<1> DEFINE l == dir_length + FNAME_SIZE
           M == Listing!MAX_BUF_SIZE
<1>1. dir_buf \in [0 .. M - 1 -> Nat]
  BY ListingTypesAre DEF ListingInv, ListingTypes
<1>2. /\ dir_pc[p] = "fill" /\ dir_pc' = [dir_pc EXCEPT ![p] = "grow"]
      /\ dir_buf' = [k \in DOMAIN dir_buf |-> IF k \in Listing!FillRange(p) THEN 0 ELSE dir_buf[k]]
      /\ UNCHANGED <<dir_length, dir_i, nbytes, end_of_file, dir_to, file_pos, dir_got, dir_ended>>
  BY DEF Listing!fill, Listing!Goto, Listing!locals, Listing!history
<1>3. /\ Holds(dir_buf, l) /\ l \in Nat /\ l <= M /\ M \in Nat
  BY <1>2, OpenerKnows
<1>4. \A k \in Listing!FillRange(p) : ~ (k < l)
  BY <1>2, FillRangeIs
<1> HIDE DEF l, M
<1>5. dir_buf' \in [0 .. M - 1 -> Nat]
  BY <1>1, <1>2
<1>6. Holds(dir_buf', l)
  BY <1>1, <1>2, <1>3, <1>4 DEF Holds
<1> QED
  BY <1>2, <1>5, <1>6, OpenerStep DEF l, M

\* A round of dir_open is over: on to the next name, or the list is complete.
LEMMA GrowStep ==
  ASSUME ListingInv, NEW p \in Procs, Listing!grow(p)
  PROVE  ListingInv'
<1> DEFINE N == Len(Names)
           F == FNAME_SIZE
           to == IF dir_i[p] + 1 < N THEN "name" ELSE "idle"
           j == (dir_i[p] + 1) % N
<1>1. ListingTypes
  BY ListingTypesAre DEF ListingInv
<1>2. /\ dir_pc[p] = "grow" /\ dir_pc' = [dir_pc EXCEPT ![p] = to]
      /\ dir_length' = dir_length + F /\ dir_buf' = dir_buf
      /\ dir_i' = [dir_i EXCEPT ![p] = j]
      /\ UNCHANGED <<nbytes, end_of_file, dir_to, file_pos, dir_got, dir_ended>>
  <2>1. dir_i' = [dir_i EXCEPT ![p] = j]
    BY DEF Listing!grow, Listing!num_dentries
  <2> QED
    BY <2>1 DEF Listing!grow, Listing!Goto, Listing!history, Listing!num_dentries
<1>3. /\ dir_i[p] \in Nat /\ dir_i[p] < N /\ N \in Nat /\ F \in Nat /\ dir_length \in Nat
      /\ (dir_i[p] + 1) * F = dir_length + F /\ dir_length + F <= Total
      /\ Total \in Nat /\ Listing!MAX_BUF_SIZE \in Nat /\ Total <= Listing!MAX_BUF_SIZE
      /\ Holds(dir_buf, dir_length + F)
      /\ \A q \in Procs : q # p => dir_pc[q] \in {"closed", "idle"}
  BY <1>2, OpenerKnows
<1>4. /\ dir_i[p] + 1 < N => j = dir_i[p] + 1
      /\ j \in Nat
  <2>1. dir_i[p] + 1 < N => dir_i[p] + 1 \in 0 .. N - 1
    BY <1>3
  <2> DEFINE x == dir_i[p] + 1
  <2>2. x \in Nat /\ N > 0
    BY <1>3
  <2> HIDE DEF x, N
  <2>3. x % N \in Nat
    BY <1>3, <2>2
  <2>4. x \in 0 .. N - 1 => x % N = x
    BY <1>3, SmallMod
  <2> QED
    BY <2>1, <2>3, <2>4 DEF x
<1>5. to \in {"name", "idle"}
  OBVIOUS
<1> HIDE DEF j
<1>6. /\ dir_pc'[p] = to /\ dir_i'[p] = j
      /\ \A q \in Procs : q # p => dir_pc'[q] = dir_pc[q] /\ dir_i'[q] = dir_i[q]
  <2> HIDE DEF to
  <2> QED
    BY <1>1, <1>2 DEF ListingTypes
<1>7. ListingTypes'
  <2>1. dir_length' \in 0 .. Listing!MAX_BUF_SIZE
    <3> HIDE DEF F
    <3> QED
      BY <1>2, <1>3
  <2>2. dir_i' \in [Procs -> Nat]
    BY <1>1, <1>2, <1>4 DEF ListingTypes
  <2>3. dir_pc' \in [Procs -> {"name", "fill", "grow", "test", "copy", "closed", "idle"}]
    <3> HIDE DEF to
    <3> QED
      BY <1>1, <1>2, <1>5 DEF ListingTypes
  <2> QED
    BY <1>1, <1>2, <2>1, <2>2, <2>3 DEF ListingTypes, Listing!MAX_BUF_SIZE
<1>8. BufferInv'
  <2>1. \A q \in Procs : dir_pc'[q] \in {"name", "fill", "grow"} => q = p
    BY <1>3, <1>6
  <2>2. CASE dir_i[p] + 1 < N
    <3>1. to = "name" /\ j = dir_i[p] + 1
      BY <1>4, <2>2
    <3>2. dir_length' = dir_i'[p] * F /\ Holds(dir_buf', dir_i'[p] * F) /\ dir_i'[p] < N
      BY <1>2, <1>3, <1>6, <2>2, <3>1
    <3> QED
      BY <1>3, <1>6, <2>1, <3>1, <3>2 DEF BufferInv
  <2>3. CASE ~ (dir_i[p] + 1 < N)
    <3>1. to = "idle"
      BY <2>3
    <3>2. dir_i[p] + 1 = N
      BY <1>3, <2>3
    <3>3. dir_length' = Total /\ Holds(dir_buf', Total)
      BY <1>2, <1>3, <3>2, SMTT(30) DEF Total
    <3> QED
      BY <1>6, <2>1, <3>1, <3>3 DEF BufferInv, Total
  <2> QED
    BY <2>2, <2>3
<1>9. ReadInv(p)'
  <2>1. /\ dir_pc[p] # "closed"
        /\ dir_pc'[p] \notin {"copy", "test"} /\ dir_pc'[p] # "copy" /\ dir_pc'[p] # "test"
    BY <1>2, <1>5, <1>6
  <2> QED
    BY <1>2, <2>1 DEF ListingInv, ReadInv, Total, Listing!AllBytes, Listing!FlattenSeq
<1>10. \A q \in Procs : q # p => ReadInv(q)'
  BY <1>2, <1>6, OthersKeep DEF ListingInv
<1> QED
  BY <1>7, <1>8, <1>9, <1>10, TypesAfter DEF ListingInv

\* A step of a process that has the directory open, and is not in dir_open,
\* needs its own variables looked at only.
LEMMA ReaderStep ==
  ASSUME ListingInv, NEW p \in Procs, dir_pc[p] \in {"idle", "copy", "test"},
         NEW l \in {"closed", "idle", "copy", "test"}, dir_pc' = [dir_pc EXCEPT ![p] = l],
         l \in {"copy", "test"} => \A q \in Procs : dir_pc[q] \notin {"name", "fill", "grow"},
         UNCHANGED <<dir_buf, dir_length>>,
         \A q \in Procs : q # p =>
            /\ dir_i'[q] = dir_i[q] /\ nbytes'[q] = nbytes[q]
            /\ end_of_file'[q] = end_of_file[q] /\ dir_to'[q] = dir_to[q]
            /\ file_pos'[q] = file_pos[q] /\ dir_got'[q] = dir_got[q]
            /\ dir_ended'[q] = dir_ended[q],
         ListingTypes', ReadInv(p)'
  PROVE  ListingInv'
<1>1. dir_pc'[p] = l /\ \A q \in Procs : q # p => dir_pc'[q] = dir_pc[q]
  BY ListingTypesAre DEF ListingInv, ListingTypes
<1>2. BufferInv'
  BY BufferKeeps
<1>3. \A q \in Procs : q # p => ReadInv(q)'
  BY <1>1, OthersKeep DEF ListingInv
<1> QED
  BY <1>2, <1>3, TypesAfter DEF ListingInv

\* What is at each place of two sequences put together.
LEMMA Concatenated ==
  ASSUME NEW a \in Seq(Nat), NEW b \in Seq(Nat)
  PROVE  /\ a \o b \in Seq(Nat) /\ Len(a \o b) = Len(a) + Len(b)
         /\ \A k \in 1 .. Len(a \o b) :
               (a \o b)[k] = IF k <= Len(a) THEN a[k] ELSE b[k - Len(a)]
<1>1. a \o b \in Seq(Nat) /\ Len(a \o b) = Len(a) + Len(b)
  OBVIOUS
<1>2. \A k \in 1 .. Len(a) + Len(b) :
         (a \o b)[k] = IF k <= Len(a) THEN a[k] ELSE b[k - Len(a)]
  OBVIOUS
<1> QED
  BY <1>1, <1>2

\* What a process knows whose dir_read is under way.
LEMMA ReaderKnows ==
  ASSUME ListingInv, NEW p \in Procs, dir_pc[p] \in {"copy", "test"}
  PROVE  /\ dir_length = Total /\ Holds(dir_buf, Total) /\ Total \in Nat
         /\ Total <= Listing!MAX_BUF_SIZE /\ Listing!MAX_BUF_SIZE \in Nat
         /\ file_pos[p] \in Nat /\ dir_i[p] \in Nat /\ nbytes[p] \in Nat
         /\ nbytes[p] \in ReadSizes /\ dir_i[p] <= nbytes[p]
         /\ file_pos[p] + dir_i[p] <= Total
         /\ dir_to[p] \in Seq(Nat) /\ dir_got[p] \in Seq(Nat)
         /\ Len(dir_got[p]) \in Nat /\ Len(dir_to[p]) \in Nat
<1>1. dir_length = Total /\ Holds(dir_buf, Total)
  BY Complete, ReadingIsUndisturbed
<1>2. Total \in Nat /\ Total <= Listing!MAX_BUF_SIZE /\ Listing!MAX_BUF_SIZE \in Nat
  BY BufferRoom
<1>3. /\ file_pos[p] \in 0 .. Listing!MAX_BUF_SIZE /\ dir_i[p] \in Nat
      /\ dir_to[p] \in Seq(Nat) /\ dir_got[p] \in Seq(Nat)
  BY ListingTypesAre DEF ListingInv, ListingTypes
<1>4. ReadInv(p)
  BY DEF ListingInv
<1>5. nbytes[p] \in ReadSizes /\ dir_i[p] <= nbytes[p] /\ file_pos[p] + dir_i[p] <= Total
  BY <1>4 DEF ReadInv
<1>6. nbytes[p] \in Nat
  BY <1>5, ListingNumbers
<1>7. Len(dir_got[p]) \in Nat /\ Len(dir_to[p]) \in Nat
  BY <1>3
<1>8. file_pos[p] \in Nat
  BY <1>2, <1>3
<1> QED
  BY <1>1, <1>2, <1>3, <1>5, <1>6, <1>7, <1>8

\* dir_read begins behind what the listing has returned.
LEMMA DirReadStep ==
  ASSUME ListingInv, NEW p \in Procs, NEW n \in ReadSizes, Listing!dir_read(p, n),
         Listing!NobodyOpening
  PROVE  ListingInv'
<1>1. ListingTypes
  BY ListingTypesAre DEF ListingInv
<1>2. \A q \in Procs : dir_pc[q] \notin {"name", "fill", "grow"}
  BY DEF Listing!NobodyOpening, Listing!Opening
<1>3. /\ dir_pc[p] = "idle" /\ dir_pc' = [dir_pc EXCEPT ![p] = "copy"]
      /\ nbytes' = [nbytes EXCEPT ![p] = n]
      /\ dir_i' = [dir_i EXCEPT ![p] = 0] /\ dir_to' = [dir_to EXCEPT ![p] = << >>]
      /\ end_of_file' = [end_of_file EXCEPT ![p] = file_pos[p] >= dir_length]
      /\ UNCHANGED <<dir_buf, dir_length, file_pos, dir_got, dir_ended>>
  BY DEF Listing!dir_read, Listing!Goto, Listing!shared, Listing!history
<1>4. dir_length = Total /\ Total \in Nat
  BY <1>2, <1>3, Complete, BufferRoom
<1>5. n \in Nat
  BY ListingNumbers
<1>6. << >> \in Seq(Nat) /\ Len(<< >>) = 0
  OBVIOUS
<1>7. (file_pos[p] >= dir_length) \in BOOLEAN
  OBVIOUS
<1>8. ListingTypes'
  BY <1>1, <1>3, <1>6, <1>7 DEF ListingTypes, Listing!MAX_BUF_SIZE
<1>9. /\ dir_pc'[p] = "copy" /\ nbytes'[p] = n /\ dir_i'[p] = 0 /\ dir_to'[p] = << >>
      /\ end_of_file'[p] <=> file_pos[p] >= Total
      /\ \A q \in Procs : q # p =>
            /\ dir_i'[q] = dir_i[q] /\ nbytes'[q] = nbytes[q]
            /\ end_of_file'[q] = end_of_file[q] /\ dir_to'[q] = dir_to[q]
  BY <1>1, <1>3, <1>4 DEF ListingTypes
<1>10. ReadInv(p)'
  <2>1. ReadInv(p) /\ Len(dir_got[p]) \in Nat /\ Total' = Total
    BY <1>1 DEF ListingInv, ListingTypes, Total
  <2>2. file_pos[p] \in Nat /\ file_pos[p] <= Total /\ file_pos[p] + 0 = file_pos[p]
    BY <1>1, <1>3, <1>4, <2>1 DEF ReadInv, ListingTypes
  <2>3. Listing!AllBytes' = Listing!AllBytes
    BY DEF Listing!AllBytes, Listing!FlattenSeq
  <2>4. \A k \in 1 .. Len(dir_to'[p]) : dir_to'[p][k] = Listing!AllBytes[file_pos[p] + k]
    <3>1. 1 .. Len(dir_to'[p]) = {}
      BY <1>6, <1>9
    <3> QED
      BY <3>1
  <2>5. Len(dir_to'[p]) = 0 /\ 0 <= n
    BY <1>5, <1>6, <1>9
  <2> QED
    BY <1>3, <1>9, <2>1, <2>2, <2>3, <2>4, <2>5 DEF ReadInv
<1> QED
  BY <1>2, <1>3, <1>8, <1>9, <1>10, ReaderStep

\* A byte copied is the list's next.
LEMMA CopyByteStep ==
  ASSUME ListingInv, NEW p \in Procs, Listing!copy_byte(p)
  PROVE  ListingInv'
<1>1. ListingTypes /\ ReadInv(p)
  BY ListingTypesAre DEF ListingInv
<1>2. /\ dir_pc[p] = "copy" /\ dir_pc' = [dir_pc EXCEPT ![p] = "test"]
      /\ dir_i[p] < nbytes[p] /\ ~ end_of_file[p]
      /\ dir_to' = [dir_to EXCEPT ![p] = Append(@, dir_buf[file_pos[p] + dir_i[p]])]
      /\ UNCHANGED <<dir_buf, dir_length, dir_i, nbytes, end_of_file, file_pos, dir_got, dir_ended>>
  BY DEF Listing!copy_byte, Listing!Goto, Listing!shared, Listing!history
<1>3. /\ Holds(dir_buf, Total) /\ Total \in Nat /\ Total <= Listing!MAX_BUF_SIZE
      /\ Listing!MAX_BUF_SIZE \in Nat /\ file_pos[p] \in Nat /\ dir_i[p] \in Nat
      /\ dir_to[p] \in Seq(Nat)
  BY <1>2, ReaderKnows
<1>4. Len(dir_to[p]) = dir_i[p] /\ file_pos[p] + dir_i[p] < Total
  BY <1>1, <1>2, <1>3 DEF ReadInv
<1> DEFINE b == dir_buf[file_pos[p] + dir_i[p]]
           e == file_pos[p] + dir_i[p]
           M == Listing!MAX_BUF_SIZE
<1>5. b \in Nat /\ b = Listing!AllBytes[file_pos[p] + (dir_i[p] + 1)]
  <2>1. e \in 0 .. Total - 1 /\ e + 1 = file_pos[p] + (dir_i[p] + 1) /\ e \in 0 .. M - 1
    BY <1>3, <1>4
  <2>2. dir_buf \in [0 .. M - 1 -> Nat]
    BY <1>1 DEF ListingTypes
  <2> HIDE DEF e, M
  <2>3. dir_buf[e] = Listing!AllBytes[e + 1]
    BY <1>3, <2>1 DEF Holds
  <2>4. dir_buf[e] \in Nat
    BY <2>1, <2>2
  <2> QED
    BY <2>1, <2>3, <2>4 DEF e
<1> HIDE DEF b, e, M
<1>6. /\ Append(dir_to[p], b) \in Seq(Nat) /\ Len(Append(dir_to[p], b)) = dir_i[p] + 1
      /\ Append(dir_to[p], b)[dir_i[p] + 1] = b
      /\ \A k \in 1 .. dir_i[p] : Append(dir_to[p], b)[k] = dir_to[p][k]
  BY <1>3, <1>4, <1>5
<1>7. /\ dir_pc'[p] = "test" /\ dir_to'[p] = Append(dir_to[p], b)
      /\ \A q \in Procs : q # p => dir_to'[q] = dir_to[q]
  BY <1>1, <1>2 DEF ListingTypes, b
<1>8. ListingTypes'
  <2>1. dir_to' \in [Procs -> Seq(Nat)]
    BY <1>1, <1>2, <1>6 DEF ListingTypes, b
  <2> QED
    BY <1>1, <1>2, <2>1 DEF ListingTypes, Listing!MAX_BUF_SIZE
<1>9. \A k \in 1 .. dir_i[p] + 1 :
         Append(dir_to[p], b)[k] = Listing!AllBytes[file_pos[p] + k]
  <2>1. \A k \in 1 .. dir_i[p] : dir_to[p][k] = Listing!AllBytes[file_pos[p] + k]
    BY <1>1, <1>2, <1>4 DEF ReadInv
  <2>2. \A k \in 1 .. dir_i[p] + 1 : k \in 1 .. dir_i[p] \/ k = dir_i[p] + 1
    BY <1>3
  <2> QED
    BY <1>5, <1>6, <2>1, <2>2
<1>10. ReadInv(p)'
  <2>1. Total' = Total /\ Listing!AllBytes' = Listing!AllBytes
    BY DEF Total, Listing!AllBytes, Listing!FlattenSeq
  <2> QED
    BY <1>1, <1>2, <1>4, <1>6, <1>7, <1>9, <2>1 DEF ReadInv
<1> QED
  BY <1>2, <1>7, <1>8, <1>10, ReadingIsUndisturbed, ReaderStep

\* The test for the end looks at the byte behind the one copied.
LEMMA TestEndStep ==
  ASSUME ListingInv, NEW p \in Procs, Listing!test_end(p)
  PROVE  ListingInv'
<1>1. ListingTypes /\ ReadInv(p)
  BY ListingTypesAre DEF ListingInv
<1> DEFINE j == dir_i[p] + 1
<1>2. /\ dir_pc[p] = "test" /\ dir_pc' = [dir_pc EXCEPT ![p] = "copy"]
      /\ dir_i' = [dir_i EXCEPT ![p] = j]
      /\ end_of_file' = [end_of_file EXCEPT ![p] = file_pos[p] + dir_i[p] + 1 >= dir_length]
      /\ UNCHANGED <<dir_buf, dir_length, nbytes, dir_to, file_pos, dir_got, dir_ended>>
  BY DEF Listing!test_end, Listing!Goto, Listing!shared, Listing!history
<1>3. /\ dir_length = Total /\ Total \in Nat /\ file_pos[p] \in Nat /\ dir_i[p] \in Nat
      /\ nbytes[p] \in Nat /\ nbytes[p] \in ReadSizes
  BY <1>2, ReaderKnows
<1>4. Len(dir_to[p]) = j /\ dir_i[p] < nbytes[p] /\ file_pos[p] + dir_i[p] < Total
  BY <1>1, <1>2 DEF ReadInv
<1>5. j \in Nat /\ j <= nbytes[p] /\ file_pos[p] + j <= Total
  BY <1>3, <1>4
<1>6. (file_pos[p] + dir_i[p] + 1 >= dir_length) <=> file_pos[p] + j >= Total
  BY <1>3
<1> HIDE DEF j
<1>7. /\ dir_pc'[p] = "copy" /\ dir_i'[p] = j
      /\ end_of_file'[p] <=> file_pos[p] + j >= Total
      /\ \A q \in Procs : q # p => dir_i'[q] = dir_i[q] /\ end_of_file'[q] = end_of_file[q]
  BY <1>1, <1>2, <1>6 DEF ListingTypes
<1>8. ListingTypes'
  <2>1. (file_pos[p] + dir_i[p] + 1 >= dir_length) \in BOOLEAN
    OBVIOUS
  <2> QED
    BY <1>1, <1>2, <1>5, <2>1 DEF ListingTypes, Listing!MAX_BUF_SIZE
<1>9. ReadInv(p)'
  <2>1. Total' = Total /\ Listing!AllBytes' = Listing!AllBytes
    BY DEF Total, Listing!AllBytes, Listing!FlattenSeq
  <2> QED
    BY <1>1, <1>2, <1>3, <1>4, <1>5, <1>7, <2>1 DEF ReadInv
<1> QED
  BY <1>2, <1>7, <1>8, <1>9, ReadingIsUndisturbed, ReaderStep

\* A read that meets the end of the list returns 0, and leaves the position there.
LEMMA ReturnEndStep ==
  ASSUME ListingInv, NEW p \in Procs, Listing!return_end(p)
  PROVE  ListingInv'
<1>1. ListingTypes /\ ReadInv(p)
  BY ListingTypesAre DEF ListingInv
<1>2. /\ dir_pc[p] = "copy" /\ end_of_file[p] /\ dir_pc' = [dir_pc EXCEPT ![p] = "idle"]
      /\ file_pos' = [file_pos EXCEPT ![p] = dir_length]
      /\ dir_ended' = [dir_ended EXCEPT ![p] = TRUE]
      /\ dir_to' = [dir_to EXCEPT ![p] = << >>] /\ dir_i' = [dir_i EXCEPT ![p] = 0]
      /\ nbytes' = [nbytes EXCEPT ![p] = 0]
      /\ end_of_file' = [end_of_file EXCEPT ![p] = FALSE]
      /\ UNCHANGED <<dir_buf, dir_length, dir_got>>
  BY DEF Listing!return_end, Listing!Goto, Listing!shared
<1>3. /\ dir_length = Total /\ Total \in Nat /\ file_pos[p] \in Nat /\ dir_i[p] \in Nat
      /\ nbytes[p] \in Nat /\ nbytes[p] \in ReadSizes /\ dir_i[p] <= nbytes[p]
      /\ Len(dir_got[p]) \in Nat
  BY <1>2, ReaderKnows
<1>4. /\ dir_pc'[p] = "idle" /\ file_pos'[p] = Total /\ dir_ended'[p]
      /\ \A q \in Procs : q # p =>
            /\ dir_i'[q] = dir_i[q] /\ nbytes'[q] = nbytes[q]
            /\ end_of_file'[q] = end_of_file[q] /\ dir_to'[q] = dir_to[q]
            /\ file_pos'[q] = file_pos[q] /\ dir_ended'[q] = dir_ended[q]
  BY <1>1, <1>2, <1>3 DEF ListingTypes
<1>5. ListingTypes'
  <2>1. << >> \in Seq(Nat)
    OBVIOUS
  <2> QED
    BY <1>1, <1>2, <2>1 DEF ListingTypes, Listing!MAX_BUF_SIZE
<1>6. \E n \in ReadSizes : Len(dir_got[p]) + n >= Total
  <2>1. CASE dir_ended[p]
    BY <1>1, <2>1 DEF ReadInv
  <2>2. CASE ~ dir_ended[p]
    <3>1. file_pos[p] = Len(dir_got[p]) /\ file_pos[p] + dir_i[p] >= Total
      BY <1>1, <1>2, <2>2 DEF ReadInv
    <3>2. Len(dir_got[p]) + nbytes[p] >= Total
      BY <1>3, <3>1
    <3> QED
      BY <1>3, <3>2
  <2> QED
    BY <2>1, <2>2
<1>7. ReadInv(p)'
  <2>1. Total' = Total /\ Listing!AllBytes' = Listing!AllBytes
    BY DEF Total, Listing!AllBytes, Listing!FlattenSeq
  <2> QED
    BY <1>1, <1>2, <1>4, <1>6, <2>1 DEF ReadInv
<1> QED
  BY <1>2, <1>4, <1>5, <1>7, ReaderStep

\* A read that fills its buffer returns the bytes behind those returned before.
LEMMA ReturnBytesStep ==
  ASSUME ListingInv, NEW p \in Procs, Listing!return_bytes(p)
  PROVE  ListingInv'
<1>1. ListingTypes /\ ReadInv(p)
  BY ListingTypesAre DEF ListingInv
<1>2. /\ dir_pc[p] = "copy" /\ ~ end_of_file[p] /\ dir_i[p] = nbytes[p]
      /\ dir_pc' = [dir_pc EXCEPT ![p] = "idle"]
      /\ file_pos' = [file_pos EXCEPT ![p] = @ + nbytes[p]]
      /\ dir_got' = [dir_got EXCEPT ![p] = @ \o dir_to[p]]
      /\ dir_to' = [dir_to EXCEPT ![p] = << >>] /\ dir_i' = [dir_i EXCEPT ![p] = 0]
      /\ nbytes' = [nbytes EXCEPT ![p] = 0]
      /\ UNCHANGED <<dir_buf, dir_length, end_of_file, dir_ended>>
  BY DEF Listing!return_bytes, Listing!Goto, Listing!shared
<1>3. /\ Total \in Nat /\ file_pos[p] \in Nat /\ nbytes[p] \in Nat
      /\ Total <= Listing!MAX_BUF_SIZE /\ Listing!MAX_BUF_SIZE \in Nat
      /\ dir_got[p] \in Seq(Nat) /\ dir_to[p] \in Seq(Nat) /\ Len(dir_got[p]) \in Nat
  BY <1>2, ReaderKnows
<1>4. file_pos[p] + nbytes[p] < Total /\ Len(dir_to[p]) = nbytes[p]
  BY <1>1, <1>2, <1>3 DEF ReadInv
<1>5. ~ dir_ended[p] /\ file_pos[p] = Len(dir_got[p])
  BY <1>1, <1>2, <1>3, <1>4 DEF ReadInv
<1> DEFINE g == dir_got[p] \o dir_to[p]
<1>6. /\ g \in Seq(Nat) /\ Len(g) = Len(dir_got[p]) + Len(dir_to[p])
      /\ \A k \in 1 .. Len(g) : g[k] = IF k <= Len(dir_got[p]) THEN dir_got[p][k]
                                       ELSE dir_to[p][k - Len(dir_got[p])]
  BY <1>3, Concatenated
<1>7. \A k \in 1 .. Len(g) : g[k] = Listing!AllBytes[k]
  <2> HIDE DEF g
  <2> TAKE k \in 1 .. Len(g)
  <2>1. CASE k <= Len(dir_got[p])
    <3>1. k \in 1 .. Len(dir_got[p])
      BY <2>1
    <3> QED
      BY <1>1, <1>6, <2>1, <3>1 DEF ReadInv
  <2>2. CASE ~ (k <= Len(dir_got[p]))
    <3> DEFINE h == k - Len(dir_got[p])
    <3>1. h \in 1 .. Len(dir_to[p]) /\ file_pos[p] + h = k
      BY <1>3, <1>4, <1>5, <1>6, <2>2, SMTT(30)
    <3> HIDE DEF h
    <3>2. dir_to[p][h] = Listing!AllBytes[file_pos[p] + h]
      BY <1>1, <1>2, <3>1 DEF ReadInv
    <3> QED
      BY <1>6, <2>2, <3>1, <3>2 DEF h
  <2> QED
    BY <2>1, <2>2
<1> HIDE DEF g
<1>8. /\ dir_pc'[p] = "idle" /\ file_pos'[p] = file_pos[p] + nbytes[p] /\ dir_got'[p] = g
      /\ \A q \in Procs : q # p =>
            /\ dir_i'[q] = dir_i[q] /\ nbytes'[q] = nbytes[q] /\ dir_to'[q] = dir_to[q]
            /\ file_pos'[q] = file_pos[q] /\ dir_got'[q] = dir_got[q]
  BY <1>1, <1>2 DEF ListingTypes, g
<1>9. ListingTypes'
  <2>1. << >> \in Seq(Nat)
    OBVIOUS
  <2>2. file_pos[p] + nbytes[p] \in 0 .. Listing!MAX_BUF_SIZE
    BY <1>3, <1>4
  <2>3. dir_got' \in [Procs -> Seq(Nat)] /\ dir_to' \in [Procs -> Seq(Nat)]
    BY <1>1, <1>2, <1>6, <2>1 DEF ListingTypes, g
  <2>4. file_pos' \in [Procs -> 0 .. Listing!MAX_BUF_SIZE]
    BY <1>1, <1>2, <2>2 DEF ListingTypes
  <2> QED
    BY <1>1, <1>2, <2>3, <2>4 DEF ListingTypes, Listing!MAX_BUF_SIZE
<1>10. ReadInv(p)'
  <2>1. Total' = Total /\ Listing!AllBytes' = Listing!AllBytes
    BY DEF Total, Listing!AllBytes, Listing!FlattenSeq
  <2>2. Len(g) <= Total /\ file_pos[p] + nbytes[p] = Len(g)
    BY <1>3, <1>4, <1>5, <1>6
  <2> QED
    BY <1>2, <1>5, <1>7, <1>8, <2>1, <2>2 DEF ReadInv
<1> QED
  BY <1>2, <1>8, <1>9, <1>10, ReaderStep

\* dir_close forgets the position.
LEMMA DirCloseStep ==
  ASSUME ListingInv, NEW p \in Procs, Listing!dir_close(p)
  PROVE  ListingInv'
<1>1. ListingTypes /\ ReadInv(p)
  BY ListingTypesAre DEF ListingInv
<1>2. /\ dir_pc[p] = "idle" /\ dir_pc' = [dir_pc EXCEPT ![p] = "closed"]
      /\ file_pos' = [file_pos EXCEPT ![p] = 0]
      /\ UNCHANGED <<dir_buf, dir_length, dir_i, nbytes, end_of_file, dir_to, dir_got, dir_ended>>
  BY DEF Listing!dir_close, Listing!Goto, Listing!shared, Listing!locals, Listing!history
<1>3. /\ dir_pc'[p] = "closed"
      /\ \A q \in Procs : q # p => file_pos'[q] = file_pos[q]
  BY <1>1, <1>2 DEF ListingTypes
<1>4. ListingTypes'
  <2>1. 0 \in 0 .. Listing!MAX_BUF_SIZE
    BY BufferRoom
  <2> QED
    BY <1>1, <1>2, <2>1 DEF ListingTypes, Listing!MAX_BUF_SIZE
<1>5. ReadInv(p)'
  <2>1. Total' = Total /\ Listing!AllBytes' = Listing!AllBytes
    BY DEF Total, Listing!AllBytes, Listing!FlattenSeq
  <2> QED
    BY <1>1, <1>2, <1>3, <2>1 DEF ReadInv
<1> QED
  BY <1>2, <1>3, <1>4, <1>5, ReaderStep

\* Nothing happens to the directory while another module steps.
LEMMA ListingStutter ==
  ASSUME ListingInv, UNCHANGED listing
  PROVE  ListingInv'
<1>1. /\ dir_buf' = dir_buf /\ dir_length' = dir_length /\ dir_pc' = dir_pc /\ dir_i' = dir_i
      /\ nbytes' = nbytes /\ end_of_file' = end_of_file /\ file_pos' = file_pos
      /\ dir_to' = dir_to /\ dir_got' = dir_got /\ dir_ended' = dir_ended
  BY DEF listing
<1>2. ListingTypes'
  BY <1>1, ListingTypesAre DEF ListingInv, ListingTypes, Listing!MAX_BUF_SIZE
<1>3. Total' = Total
  BY DEF Total
<1>4. BufferInv'
  BY <1>1, <1>3 DEF ListingInv, BufferInv
<1>5. \A p \in Procs : ReadInv(p)'
  BY <1>1, OthersKeep DEF ListingInv
<1> QED
  BY <1>2, <1>4, <1>5, TypesAfter DEF ListingInv

\* Every step of the processes keeps the directory's invariant.
LEMMA ListingStep ==
  ASSUME ListingInv, [Listing!SerialNext]_listing
  PROVE  ListingInv'
<1>1. CASE UNCHANGED listing
  BY <1>1, ListingStutter
<1>2. CASE Listing!SerialNext
  <2>1. PICK p \in Procs :
           \/ Listing!dir_open(p) /\ Listing!NobodyOpening /\ Listing!NobodyReading
           \/ \E n \in ReadSizes : Listing!dir_read(p, n) /\ Listing!NobodyOpening
           \/ Listing!dir_close(p)
           \/ Listing!Continues(p)
    BY <1>2 DEF Listing!SerialNext
  <2>2. CASE Listing!dir_open(p) /\ Listing!NobodyOpening /\ Listing!NobodyReading
    BY <2>2, DirOpenStep
  <2>3. CASE \E n \in ReadSizes : Listing!dir_read(p, n) /\ Listing!NobodyOpening
    BY <2>3, DirReadStep
  <2>4. CASE Listing!dir_close(p)
    BY <2>4, DirCloseStep
  <2>5. CASE Listing!copy_name(p)
    BY <2>5, CopyNameStep
  <2>6. CASE Listing!fill(p)
    BY <2>6, FillStep
  <2>7. CASE Listing!grow(p)
    BY <2>7, GrowStep
  <2>8. CASE Listing!copy_byte(p)
    BY <2>8, CopyByteStep
  <2>9. CASE Listing!test_end(p)
    BY <2>9, TestEndStep
  <2>10. CASE Listing!return_end(p)
    BY <2>10, ReturnEndStep
  <2>11. CASE Listing!return_bytes(p)
    BY <2>11, ReturnBytesStep
  <2> QED
    BY <2>1, <2>2, <2>3, <2>4, <2>5, <2>6, <2>7, <2>8, <2>9, <2>10, <2>11
       DEF Listing!Continues
<1> QED
  BY <1>1, <1>2

\* At first no process has the directory open.
LEMMA ListingInit ==
  ASSUME Listing!Init
  PROVE  ListingInv
<1>1. /\ dir_buf = [k \in 0 .. Listing!MAX_BUF_SIZE - 1 |-> 0]
      /\ dir_length = 0
      /\ dir_pc = [p \in Procs |-> "closed"]
      /\ dir_i = [p \in Procs |-> 0] /\ nbytes = [p \in Procs |-> 0]
      /\ end_of_file = [p \in Procs |-> FALSE] /\ file_pos = [p \in Procs |-> 0]
      /\ dir_to = [p \in Procs |-> << >>] /\ dir_got = [p \in Procs |-> << >>]
      /\ dir_ended = [p \in Procs |-> FALSE]
  BY DEF Listing!Init
<1>2. << >> \in Seq(Nat) /\ Len(<< >>) = 0 /\ 0 \in 0 .. Listing!MAX_BUF_SIZE /\ 0 <= Total
  BY BufferRoom
<1>3. ListingTypes
  BY <1>1, <1>2 DEF ListingTypes
<1>4. BufferInv
  BY <1>1 DEF BufferInv
<1>5. ASSUME NEW p \in Procs PROVE ReadInv(p)
  <2>1. /\ dir_pc[p] = "closed" /\ dir_got[p] = << >> /\ ~ dir_ended[p]
    BY <1>1
  <2> QED
    BY <1>2, <2>1 DEF ReadInv
<1> QED
  BY <1>3, <1>4, <1>5, ListingTypesAre DEF ListingInv

\* What the invariant says of the reads and of the buffer.
LEMMA ListingInvImplies ==
  ASSUME ListingInv
  PROVE  Listing!ListedInOrder /\ Listing!FitsUpToHalf
<1>1. ListingTypes
  BY ListingTypesAre DEF ListingInv
<1> DEFINE all_bytes == Listing!AllBytes
<1>2. all_bytes \in Seq(Nat) /\ Len(all_bytes) = Total /\ Total \in Nat
  BY ListOfNames, BufferRoom
<1>3. ASSUME NEW p \in Procs
      PROVE  /\ Listing!IsPrefix(dir_got[p], Listing!AllBytes)
             /\ dir_pc[p] = "idle" /\ ~ dir_ended[p] => file_pos[p] = Len(dir_got[p])
             /\ dir_ended[p] => \E n \in ReadSizes :
                                   Len(dir_got[p]) + n >= Len(Listing!AllBytes)
  <2>1. ReadInv(p)
    BY DEF ListingInv
  <2>2. dir_got[p] \in Seq(Nat)
    BY <1>1 DEF ListingTypes
  <2> DEFINE g == dir_got[p]
  <2>3. Len(g) \in Nat /\ Len(g) <= Total /\ DOMAIN g = 1 .. Len(g)
        /\ \A k \in 1 .. Len(g) : g[k] = all_bytes[k]
    BY <2>1, <2>2 DEF ReadInv
  <2>4. g = SubSeq(all_bytes, 1, Len(g))
    <3> HIDE DEF g, all_bytes
    <3>1. SubSeq(all_bytes, 1, Len(g)) = [k \in 1 .. Len(g) |-> all_bytes[k]]
      BY <1>2, <2>3
    <3>2. g = [k \in 1 .. Len(g) |-> g[k]]
      BY <2>2, <2>3 DEF g
    <3> QED
      BY <2>3, <3>1, <3>2
  <2>5. Listing!IsPrefix(dir_got[p], Listing!AllBytes)
    BY <1>2, <2>3, <2>4 DEF Listing!IsPrefix
  <2> QED
    BY <1>2, <2>1, <2>5 DEF ReadInv
<1>4. ASSUME NEW p \in Procs, dir_pc[p] = "fill"
      PROVE  Listing!FillRange(p) \subseteq DOMAIN dir_buf <=> 2 * (dir_i[p] + 1) <= MAX_FILES
  <2>1. DOMAIN dir_buf = 0 .. Listing!MAX_BUF_SIZE - 1
    BY <1>1 DEF ListingTypes
  <2> QED
    BY <1>4, <2>1, FillRangeIs
<1> QED
  BY <1>3, <1>4 DEF Listing!ListedInOrder, Listing!FitsUpToHalf

-----------------------------------------------------------------------------
(* Routines that write memory *)

\* The memory after n bytes have been moved from s to d, all at once.
Moved(m, d, s, n) ==
  [k \in DOMAIN m |-> IF k \in d .. d + n - 1 THEN m[s + k - d] ELSE m[k]]

\* A memory of so many bytes.
IsMemory(m, size) == size \in Nat /\ m \in [0 .. size - 1 -> 0 .. 255]

\* Ranges of n bytes of a memory, apart or to be moved to the front.
Movable(size, d, s, n) ==
  /\ d \in Nat /\ s \in Nat /\ n \in Nat
  /\ d + n <= size /\ s + n <= size
  /\ d <= s \/ s + n <= d

\* Byte by byte from the first one on, no byte is overwritten before it is read
\* if the ranges lie apart or the bytes are moved to the front.
LEMMA ForwardMoves ==
  ASSUME NEW size, NEW m, IsMemory(m, size),
         NEW d, NEW s, NEW n, Movable(size, d, s, n)
  PROVE  Library!Forward(m, d, s, n) = Moved(m, d, s, n)
<1> USE DEF Movable, IsMemory
<1> DEFINE Step(i, a) == [a EXCEPT ![d + i - 1] = a[s + i - 1]]
           Eq(f) == f = [i \in 0 .. n |-> IF i = 0 THEN m ELSE Step(i, f[i - 1])]
           h == [i \in 0 .. n |-> Moved(m, d, s, i)]
           c == CHOOSE f : Eq(f)
<1>1. Moved(m, d, s, 0) = m
  <2>1. \A k \in DOMAIN m : k \notin d .. d + 0 - 1
    OBVIOUS
  <2> QED
    BY <2>1 DEF Moved
<1>2. ASSUME NEW i \in 1 .. n
      PROVE  Step(i, Moved(m, d, s, i - 1)) = Moved(m, d, s, i)
  <2> DEFINE a == Moved(m, d, s, i - 1)
             g == [a EXCEPT ![d + i - 1] = a[s + i - 1]]
  <2>1. /\ DOMAIN a = 0 .. size - 1 /\ s + i - 1 \in 0 .. size - 1
        /\ d + i - 1 \in 0 .. size - 1
    BY DEF Moved
  <2>2. a[s + i - 1] = m[s + i - 1]
    <3>1. s + i - 1 \notin d .. d + (i - 1) - 1
      OBVIOUS
    <3> QED
      BY <2>1, <3>1 DEF Moved
  <2>3. \A k \in 0 .. size - 1 :
           a[k] = IF k \in d .. d + (i - 1) - 1 THEN m[s + k - d] ELSE m[k]
    BY DEF Moved
  <2> HIDE DEF a
  <2>4. g = [k \in 0 .. size - 1 |-> IF k = d + i - 1 THEN m[s + i - 1] ELSE a[k]]
    <3>1. a = [k \in 0 .. size - 1 |-> a[k]]
      BY DEF a, Moved
    <3> QED
      BY <2>1, <2>2, <3>1
  <2>5. \A k \in 0 .. size - 1 :
           (IF k = d + i - 1 THEN m[s + i - 1] ELSE a[k])
             = IF k \in d .. d + i - 1 THEN m[s + k - d] ELSE m[k]
    <3> TAKE k \in 0 .. size - 1
    <3>1. CASE k = d + i - 1
      <4>1. s + k - d = s + i - 1 /\ k \in d .. d + i - 1
        BY <3>1
      <4> QED
        BY <3>1, <4>1
    <3>2. CASE k # d + i - 1
      <4>1. k \in d .. d + (i - 1) - 1 <=> k \in d .. d + i - 1
        BY <3>2
      <4> QED
        BY <2>3, <3>2, <4>1
    <3> QED
      BY <3>1, <3>2
  <2>6. Moved(m, d, s, i) = [k \in 0 .. size - 1 |-> IF k \in d .. d + i - 1 THEN m[s + k - d]
                                                     ELSE m[k]]
    BY DEF Moved
  <2>7. g = Moved(m, d, s, i)
    <3> HIDE DEF g
    <3> DEFINE left(k) == IF k = d + i - 1 THEN m[s + i - 1] ELSE a[k]
               right(k) == IF k \in d .. d + i - 1 THEN m[s + k - d] ELSE m[k]
    <3>1. \A k \in 0 .. size - 1 : left(k) = right(k)
      BY <2>5, Zenon
    <3>2. g = [k \in 0 .. size - 1 |-> left(k)]
      BY <2>4, Zenon
    <3>3. Moved(m, d, s, i) = [k \in 0 .. size - 1 |-> right(k)]
      BY <2>6, Zenon
    <3> HIDE DEF left, right
    <3> QED
      BY <3>1, <3>2, <3>3
  <2> QED
    BY <2>7 DEF a
<1>3. Eq(h)
  <2>1. \A i \in 0 .. n : i # 0 => i \in 1 .. n /\ h[i - 1] = Moved(m, d, s, i - 1)
    OBVIOUS
  <2> QED
    BY <1>1, <1>2, <2>1
<1>4. Eq(c)
  <2> HIDE DEF Eq, h
  <2> QED
    BY <1>3
<1> HIDE DEF c
<1>5. c[0] = m /\ \A i \in 1 .. n : c[i] = Step(i, c[i - 1])
  <2> HIDE DEF Step
  <2> QED
    BY <1>4
<1> DEFINE Good == {i \in Nat : i \in 0 .. n => c[i] = Moved(m, d, s, i)}
<1>6. 0 \in Good
  BY <1>1, <1>5
<1>7. ASSUME NEW i \in Nat, i \in Good PROVE i + 1 \in Good
  <2> SUFFICES ASSUME i + 1 \in 0 .. n PROVE c[i + 1] = Moved(m, d, s, i + 1)
    OBVIOUS
  <2>1. i \in 0 .. n /\ i + 1 \in 1 .. n /\ (i + 1) - 1 = i
    OBVIOUS
  <2>2. c[i] = Moved(m, d, s, i)
    BY <1>7, <2>1
  <2> HIDE DEF Step
  <2>3. c[i + 1] = Step(i + 1, c[i])
    BY <1>5, <2>1, Zenon
  <2> QED
    BY <1>2, <2>1, <2>2, <2>3, Zenon
<1>8. Nat \subseteq Good
  <2> HIDE DEF Good
  <2> QED
    BY <1>6, <1>7, AllNat
<1>9. c[n] = Moved(m, d, s, n)
  BY <1>8
<1> QED
  BY <1>9 DEF Library!Forward, c

\* Nor is one if they are moved to the back, from the last one on.
LEMMA BackwardMoves ==
  ASSUME NEW size, NEW m, IsMemory(m, size),
         NEW d \in Nat, NEW s \in Nat, NEW n \in Nat, d + n <= size, s + n <= size, s < d
  PROVE  Library!Backward(m, d, s, n) = Moved(m, d, s, n)
<1> USE DEF IsMemory
<1> DEFINE Part(i) == Moved(m, d + n - i, s + n - i, i)
           Step(i, a) == [a EXCEPT ![d + n - i] = a[s + n - i]]
           Eq(f) == f = [i \in 0 .. n |-> IF i = 0 THEN m ELSE Step(i, f[i - 1])]
           h == [i \in 0 .. n |-> Part(i)]
           c == CHOOSE f : Eq(f)
<1>1. Part(0) = m
  <2>1. \A k \in DOMAIN m : k \notin d + n - 0 .. d + n - 0 + 0 - 1
    OBVIOUS
  <2> QED
    BY <2>1 DEF Moved
<1>2. ASSUME NEW i \in 1 .. n
      PROVE  Step(i, Part(i - 1)) = Part(i)
  <2> DEFINE a == Part(i - 1)
             to == d + n - i
             from == s + n - i
             g == [a EXCEPT ![to] = a[from]]
  <2>1. /\ DOMAIN a = 0 .. size - 1 /\ from \in 0 .. size - 1 /\ to \in 0 .. size - 1
        /\ from < to
    BY DEF Moved
  <2>2. \A k \in 0 .. size - 1 :
           a[k] = IF k \in to + 1 .. d + n - 1 THEN m[s + k - d] ELSE m[k]
    <3>1. /\ d + n - (i - 1) = to + 1 /\ to + 1 + (i - 1) - 1 = d + n - 1
          /\ \A k \in Int : (s + n - (i - 1)) + k - (d + n - (i - 1)) = s + k - d
      OBVIOUS
    <3> QED
      BY <3>1 DEF Moved
  <2>3. a[from] = m[from] /\ from \notin to + 1 .. d + n - 1
    BY <2>1, <2>2
  <2>4. a = [k \in 0 .. size - 1 |-> a[k]]
    BY DEF Moved
  <2> HIDE DEF a
  <2>5. g = [k \in 0 .. size - 1 |-> IF k = to THEN m[from] ELSE a[k]]
    BY <2>1, <2>3, <2>4
  <2>6. \A k \in 0 .. size - 1 :
           (IF k = to THEN m[from] ELSE a[k])
             = IF k \in to .. d + n - 1 THEN m[s + k - d] ELSE m[k]
    <3> TAKE k \in 0 .. size - 1
    <3>1. CASE k = to
      <4>1. s + k - d = from /\ k \in to .. d + n - 1
        BY <3>1
      <4> QED
        BY <3>1, <4>1
    <3>2. CASE k # to
      <4>1. k \in to + 1 .. d + n - 1 <=> k \in to .. d + n - 1
        BY <3>2
      <4> QED
        BY <2>2, <3>2, <4>1
    <3> QED
      BY <3>1, <3>2
  <2>7. Part(i) = [k \in 0 .. size - 1 |-> IF k \in to .. d + n - 1 THEN m[s + k - d]
                                           ELSE m[k]]
    <3>1. to + i - 1 = d + n - 1 /\ \A k \in Int : from + k - to = s + k - d
      OBVIOUS
    <3> QED
      BY <3>1 DEF Moved
  <2> QED
    BY <2>5, <2>6, <2>7, ZenonT(60) DEF a
<1>3. Eq(h)
  <2> HIDE DEF Step, Part
  <2>1. \A i \in 0 .. n : i # 0 => i \in 1 .. n /\ h[i - 1] = Part(i - 1)
    OBVIOUS
  <2> QED
    BY <1>1, <1>2, <2>1
<1>4. Eq(c)
  <2> HIDE DEF Eq, h
  <2> QED
    BY <1>3
<1> HIDE DEF c
<1>5. c[0] = m /\ \A i \in 1 .. n : c[i] = Step(i, c[i - 1])
  <2> HIDE DEF Step
  <2> QED
    BY <1>4
<1> DEFINE Good == {i \in Nat : i \in 0 .. n => c[i] = Part(i)}
<1>6. 0 \in Good
  BY <1>1, <1>5
<1>7. ASSUME NEW i \in Nat, i \in Good PROVE i + 1 \in Good
  <2> SUFFICES ASSUME i + 1 \in 0 .. n PROVE c[i + 1] = Part(i + 1)
    OBVIOUS
  <2> HIDE DEF Step, Part
  <2>1. i \in 0 .. n /\ i + 1 \in 1 .. n /\ (i + 1) - 1 = i
    OBVIOUS
  <2>2. c[i] = Part(i)
    BY <1>7, <2>1
  <2>3. c[i + 1] = Step(i + 1, c[i])
    BY <1>5, <2>1, Zenon
  <2> QED
    BY <1>2, <2>1, <2>2, <2>3, Zenon
<1>8. Nat \subseteq Good
  <2> HIDE DEF Good
  <2> QED
    BY <1>6, <1>7, AllNat
<1>9. c[n] = Part(n)
  BY <1>8
<1>10. d + n - n = d /\ s + n - n = s
  OBVIOUS
<1> QED
  BY <1>9, <1>10 DEF Library!Backward, c

\* Word by word, each read whole before it is written.
LEMMA WordsMove ==
  ASSUME NEW size, NEW m, IsMemory(m, size),
         NEW d, NEW s, NEW n \in Nat, Movable(size, d, s, 4 * n)
  PROVE  Library!Words(m, d, s, n) = Moved(m, d, s, 4 * n)
<1> USE DEF Movable, IsMemory
<1> DEFINE At(i) == d + 4 * (i - 1)
           Step(i, a) == [k \in DOMAIN m |-> IF k \in At(i) .. At(i) + 3 THEN a[s + k - d]
                                             ELSE a[k]]
           Eq(f) == f = [i \in 0 .. n |-> IF i = 0 THEN m ELSE Step(i, f[i - 1])]
           Part(i) == Moved(m, d, s, 4 * i)
           h == [i \in 0 .. n |-> Part(i)]
           c == CHOOSE f : Eq(f)
<1>1. Part(0) = m
  <2>1. \A k \in DOMAIN m : k \notin d .. d + 4 * 0 - 1
    OBVIOUS
  <2> QED
    BY <2>1 DEF Moved
<1>2. ASSUME NEW i \in 1 .. n
      PROVE  Step(i, Part(i - 1)) = Part(i)
  <2> DEFINE a == Part(i - 1)
             to == At(i)
  <2>1. to \in Nat /\ to >= d /\ to + 4 <= size /\ to + 4 <= d + 4 * n
    OBVIOUS
  <2>2. \A k \in 0 .. size - 1 :
           a[k] = IF k \in d .. to - 1 THEN m[s + k - d] ELSE m[k]
    BY DEF Moved
  <2>3. ASSUME NEW k \in 0 .. size - 1
        PROVE  (IF k \in to .. to + 3 THEN a[s + k - d] ELSE a[k])
                 = IF k \in d .. to + 3 THEN m[s + k - d] ELSE m[k]
    <3> HIDE DEF a
    <3>1. CASE k \in to .. to + 3
      <4>1. s + k - d \in 0 .. size - 1 /\ s + k - d \notin d .. to - 1 /\ k \in d .. to + 3
        <5> HIDE DEF to
        <5> QED
          BY <2>1, <3>1
      <4> QED
        BY <2>2, <3>1, <4>1
    <3>2. CASE k \notin to .. to + 3
      <4>1. k \in d .. to - 1 <=> k \in d .. to + 3
        <5> HIDE DEF to
        <5> QED
          BY <2>1, <3>2
      <4> QED
        BY <2>2, <3>2, <4>1
    <3> QED
      BY <3>1, <3>2
  <2>4. Part(i) = [k \in 0 .. size - 1 |-> IF k \in d .. to + 3 THEN m[s + k - d] ELSE m[k]]
    <3>1. d + 4 * i - 1 = to + 3
      OBVIOUS
    <3> QED
      BY <3>1 DEF Moved
  <2>5. Step(i, a) = [k \in 0 .. size - 1 |-> IF k \in to .. to + 3 THEN a[s + k - d] ELSE a[k]]
    OBVIOUS
  <2> HIDE DEF a, to
  <2> QED
    BY <2>3, <2>4, <2>5, ZenonT(60) DEF a
<1>3. Eq(h)
  <2> HIDE DEF Step, Part
  <2>1. \A i \in 0 .. n : i # 0 => i \in 1 .. n /\ h[i - 1] = Part(i - 1)
    OBVIOUS
  <2> QED
    BY <1>1, <1>2, <2>1
<1>4. Eq(c)
  <2> HIDE DEF Eq, h
  <2> QED
    BY <1>3
<1> HIDE DEF c
<1>5. c[0] = m /\ \A i \in 1 .. n : c[i] = Step(i, c[i - 1])
  <2> HIDE DEF Step
  <2> QED
    BY <1>4
<1> DEFINE Good == {i \in Nat : i \in 0 .. n => c[i] = Part(i)}
<1>6. 0 \in Good
  BY <1>1, <1>5
<1>7. ASSUME NEW i \in Nat, i \in Good PROVE i + 1 \in Good
  <2> SUFFICES ASSUME i + 1 \in 0 .. n PROVE c[i + 1] = Part(i + 1)
    OBVIOUS
  <2> HIDE DEF Step, Part
  <2>1. i \in 0 .. n /\ i + 1 \in 1 .. n /\ (i + 1) - 1 = i
    OBVIOUS
  <2>2. c[i] = Part(i)
    BY <1>7, <2>1
  <2>3. c[i + 1] = Step(i + 1, c[i])
    BY <1>5, <2>1, Zenon
  <2> QED
    BY <1>2, <2>1, <2>2, <2>3, Zenon
<1>8. Nat \subseteq Good
  <2> HIDE DEF Good
  <2> QED
    BY <1>6, <1>7, AllNat
<1>9. c[n] = Part(n)
  BY <1>8
<1> QED
  BY <1>9 DEF Library!Words, c

\* A memory of bytes moved is one of bytes.
LEMMA MovedTyped ==
  ASSUME NEW size, NEW m, IsMemory(m, size),
         NEW d, NEW s, NEW n, Movable(size, d, s, n)
  PROVE  IsMemory(Moved(m, d, s, n), size)
<1> USE DEF Movable, IsMemory
<1>1. \A k \in d .. d + n - 1 : s + k - d \in 0 .. size - 1
  OBVIOUS
<1> QED
  BY <1>1 DEF Moved

\* What is moved in two parts is moved in one.
LEMMA MovedTwice ==
  ASSUME NEW size, NEW m, IsMemory(m, size),
         NEW d, NEW s, NEW a \in Nat, NEW b \in Nat, NEW c,
         Movable(size, d, s, c), a + b = c
  PROVE  Moved(Moved(m, d, s, a), d + a, s + a, b) = Moved(m, d, s, c)
<1> USE DEF Movable, IsMemory
<1> DEFINE x == Moved(m, d, s, a)
<1>1. \A k \in 0 .. size - 1 : x[k] = IF k \in d .. d + a - 1 THEN m[s + k - d] ELSE m[k]
  BY DEF Moved
<1>2. DOMAIN x = 0 .. size - 1 /\ DOMAIN m = 0 .. size - 1
  BY DEF Moved
<1> HIDE DEF x
<1>3. ASSUME NEW k \in 0 .. size - 1
      PROVE  (IF k \in d + a .. d + a + b - 1 THEN x[s + a + k - (d + a)] ELSE x[k])
               = IF k \in d .. d + (a + b) - 1 THEN m[s + k - d] ELSE m[k]
  <2>1. CASE k \in d + a .. d + a + b - 1
    <3>1. /\ s + a + k - (d + a) = s + k - d /\ s + k - d \in 0 .. size - 1
          /\ s + k - d \notin d .. d + a - 1 /\ k \in d .. d + (a + b) - 1
      BY <2>1
    <3> QED
      BY <1>1, <2>1, <3>1
  <2>2. CASE k \notin d + a .. d + a + b - 1
    <3>1. k \in d .. d + a - 1 <=> k \in d .. d + (a + b) - 1
      BY <2>2
    <3> QED
      BY <1>1, <2>2, <3>1
  <2> QED
    BY <2>1, <2>2
<1> QED
  BY <1>2, <1>3 DEF Moved, x

\* The three loops of memcpy and memset together have the length asked for.
LEMMA ThreeLoops ==
  ASSUME NEW d \in Nat, NEW n \in Nat
  PROVE  LET h == Library!Lead(d, n)
             w == Library!WordCount(d, n)
             rest == Library!Rest(d, n)
         IN  h \in Nat /\ w \in Nat /\ rest \in Nat /\ h + 4 * w + rest = n
<1> DEFINE h == Library!Lead(d, n)
<1>1. h \in 0 .. n
  <2>1. (-d) % 4 \in 0 .. 3
    OBVIOUS
  <2> QED
    BY <2>1 DEF Library!Lead
<1> HIDE DEF h
<1> DEFINE left == n - h
<1>2. left \in Nat
  BY <1>1
<1>3. Library!WordCount(d, n) = left \div 4 /\ Library!Rest(d, n) = left % 4
  BY DEF Library!WordCount, Library!Rest, h
<1> HIDE DEF left
<1>4. left \div 4 \in Nat /\ left % 4 \in Nat /\ 4 * (left \div 4) + (left % 4) = left
  BY <1>2
<1>5. h + left = n
  BY <1>1 DEF left
<1> QED
  BY <1>1, <1>2, <1>3, <1>4, <1>5 DEF h

\* memcpy, in bytes and words, of ranges that lie apart or to the front.
LEMMA MemcpyMoves ==
  ASSUME NEW size, NEW m, IsMemory(m, size),
         NEW d, NEW s, NEW n, Movable(size, d, s, n)
  PROVE  Library!memcpy(m, d, s, n) = Moved(m, d, s, n)
<1> DEFINE h == Library!Lead(d, n)
           w == Library!WordCount(d, n)
           rest == Library!Rest(d, n)
           first == Library!Forward(m, d, s, h)
           whole == Library!Words(first, d + h, s + h, w)
           g == h + 4 * w
<1>1. h \in Nat /\ w \in Nat /\ rest \in Nat /\ h + 4 * w + rest = n
  BY ThreeLoops DEF Movable
<1>2. Library!memcpy(m, d, s, n) = Library!Forward(whole, d + h + 4 * w, s + h + 4 * w, rest)
  BY Zenon DEF Library!memcpy
<1> HIDE DEF h, w, rest
<1>3. /\ 4 * w \in Nat /\ g \in Nat /\ g + rest = n
      /\ h + 4 * w <= n /\ g + rest <= n /\ h + 4 * w = g
  BY <1>1
<1> HIDE DEF g
<1>4. /\ Movable(size, d, s, h) /\ Movable(size, d + h, s + h, 4 * w)
      /\ Movable(size, d, s, g) /\ Movable(size, d + g, s + g, rest)
  <2>1. size \in Nat /\ d \in Nat /\ s \in Nat /\ n \in Nat
    BY DEF Movable, IsMemory
  <2> QED
    BY <1>1, <1>3, <2>1 DEF Movable
<1>5. first = Moved(m, d, s, h) /\ IsMemory(first, size)
  BY <1>4, ForwardMoves, MovedTyped
<1> HIDE DEF first
<1>6. whole = Moved(first, d + h, s + h, 4 * w)
  BY <1>1, <1>4, <1>5, WordsMove
<1> HIDE DEF whole
<1>7. whole = Moved(m, d, s, g)
  <2> DEFINE q == 4 * w
  <2>1. q \in Nat /\ h \in Nat /\ h + q = g /\ Movable(size, d, s, g)
    BY <1>1, <1>3, <1>4
  <2>2. whole = Moved(Moved(m, d, s, h), d + h, s + h, q)
    BY <1>5, <1>6
  <2> HIDE DEF q
  <2> QED
    BY <2>1, <2>2, MovedTwice
<1>8. IsMemory(whole, size)
  BY <1>4, <1>7, MovedTyped
<1>9. Library!Forward(whole, d + g, s + g, rest) = Moved(whole, d + g, s + g, rest)
  BY <1>4, <1>8, ForwardMoves
<1>10. Moved(whole, d + g, s + g, rest) = Moved(m, d, s, n)
  BY <1>1, <1>3, <1>4, <1>7, MovedTwice
<1>11. d + h + 4 * w = d + g /\ s + h + 4 * w = s + g
  BY <1>1, <1>3 DEF g, Movable
<1> QED
  BY <1>2, <1>9, <1>10, <1>11

\* A memory with a NUL at the top.
Ends(m, top) == top \in Nat /\ m \in [0 .. top -> 0 .. 255] /\ m[top] = 0

\* A string in a memory with a NUL at the top has an end.
LEMMA StringEnds ==
  ASSUME NEW top, NEW m, Ends(m, top), NEW s, s \in 0 .. top
  PROVE  LET l == Library!strlen(m, s)
         IN  /\ l \in Nat /\ s + l <= top /\ m[s + l] = 0
             /\ \A k \in 0 .. l - 1 : m[s + k] # 0
<1> USE DEF Ends
<1> DEFINE T == {n \in Nat : s + n <= top /\ m[s + n] = 0}
           Is(n) == n >= 0 /\ m[s + n] = 0 /\ \A k \in 0 .. n - 1 : m[s + k] # 0
           L == {k - s : k \in DOMAIN m}
<1>1. top - s \in T /\ T \subseteq Nat
  OBVIOUS
<1>2. PICK n \in T : \A k \in T : ~ (k < n)
  BY <1>1, LeastNat
<1>3. Is(n) /\ n \in L
  <2>1. \A k \in 0 .. n - 1 : k \in Nat /\ k < n /\ s + k <= top
    BY <1>2
  <2>2. s + n \in 0 .. top /\ (s + n) - s = n
    BY <1>2
  <2>3. DOMAIN m = 0 .. top
    OBVIOUS
  <2> QED
    BY <1>2, <2>1, <2>2, <2>3
<1> DEFINE l == CHOOSE x \in L : Is(x)
<1>4. l \in L /\ Is(l)
  <2> HIDE DEF Is, L
  <2> QED
    BY <1>3
<1>5. l = Library!strlen(m, s)
  BY DEF Library!strlen
<1>6. l \in Nat /\ s + l <= top
  <2>1. PICK k \in 0 .. top : l = k - s
    BY <1>4
  <2> HIDE DEF l
  <2> QED
    BY <1>4, <2>1
<1> HIDE DEF l
<1> QED
  BY <1>4, <1>5, <1>6

\* Both copies of strcpy move the string with its NUL.
LEMMA StrcpyMoves ==
  ASSUME NEW top, NEW m, Ends(m, top),
         NEW s, NEW d, NEW l, s \in 0 .. top, l = Library!strlen(m, s) + 1,
         Movable(top + 1, d, s, l)
  PROVE  /\ Library!strcpy(m, d, s) = Moved(m, d, s, l)
         /\ Library!ece391_strcpy(m, d, s) = Moved(m, d, s, l)
<1> DEFINE n == Library!strlen(m, s)
           size == top + 1
<1>1. n \in Nat /\ s + n <= top /\ m[s + n] = 0
  BY StringEnds
<1> HIDE DEF n
<1>2. /\ size \in Nat /\ top = size - 1 /\ l = n + 1 /\ d \in Nat /\ s \in Nat
      /\ Movable(size, d, s, l) /\ IsMemory(m, size)
  BY DEF Movable, n, IsMemory, Ends
<1>3. Movable(size, d, s, n)
  BY <1>1, <1>2 DEF Movable
<1> HIDE DEF size
<1>5. /\ Library!Forward(m, d, s, n) = Moved(m, d, s, n)
      /\ Library!Forward(m, d, s, l) = Moved(m, d, s, l)
  BY <1>2, <1>3, ForwardMoves
<1>6. ASSUME NEW x, x = Moved(m, d, s, n)
      PROVE  [x EXCEPT ![d + n] = 0] = Moved(m, d, s, l)
  <2>1. x = [k \in 0 .. top |-> x[k]]
    BY <1>2, <1>6 DEF Moved, IsMemory
  <2>2. Moved(m, d, s, l) = [k \in 0 .. top |-> IF k \in d .. d + l - 1 THEN m[s + k - d] ELSE m[k]]
    BY <1>2 DEF Moved, IsMemory
  <2>3. \A k \in 0 .. top :
           (IF k \in d .. d + l - 1 THEN m[s + k - d] ELSE m[k])
             = IF k = d + n THEN 0 ELSE x[k]
    <3> TAKE k \in 0 .. top
    <3>1. x[k] = IF k \in d .. d + n - 1 THEN m[s + k - d] ELSE m[k]
      BY <1>2, <1>6 DEF Moved, IsMemory
    <3>2. CASE k = d + n
      <4>1. s + k - d = s + n /\ k \in d .. d + l - 1
        BY <1>1, <1>2, <3>2
      <4> QED
        BY <1>1, <3>2, <4>1
    <3>3. CASE k # d + n
      <4>1. k \in d .. d + n - 1 <=> k \in d .. d + l - 1
        BY <1>1, <1>2, <3>3
      <4> QED
        BY <3>1, <3>3, <4>1
    <3> QED
      BY <3>2, <3>3
  <2>4. d + n \in 0 .. top
    BY <1>1, <1>2 DEF Movable
  <2> DEFINE y == [x EXCEPT ![d + n] = 0]
  <2>5. y = [k \in 0 .. top |-> IF k = d + n THEN 0 ELSE x[k]]
    BY <2>1, <2>4
  <2> HIDE DEF y
  <2>6. y = [k \in 0 .. top |-> IF k \in d .. d + l - 1 THEN m[s + k - d] ELSE m[k]]
    BY <2>3, <2>5
  <2> QED
    BY <2>2, <2>6 DEF y
<1> QED
  BY <1>2, <1>5, <1>6, Zenon DEF Library!strcpy, Library!ece391_strcpy, n

\* memmove, from whichever end.
LEMMA MemmoveMoves ==
  ASSUME NEW size, NEW m, IsMemory(m, size),
         NEW d \in Nat, NEW s \in Nat, NEW n \in Nat, d + n <= size, s + n <= size
  PROVE  Library!memmove(m, d, s, n) = Moved(m, d, s, n)
<1>1. CASE s >= d
  <2>1. Movable(size, d, s, n)
    BY <1>1 DEF Movable
  <2> QED
    BY <1>1, <2>1, ForwardMoves DEF Library!memmove
<1>2. CASE ~ (s >= d)
  <2>1. s < d
    BY <1>2
  <2> QED
    BY <1>2, <2>1, BackwardMoves DEF Library!memmove
<1> QED
  BY <1>1, <1>2

\* strncpy moves the string, cut to n bytes, and fills up with NULs.
LEMMA StrncpyMoves ==
  ASSUME NEW top, NEW m, Ends(m, top), NEW s, s \in 0 .. top, NEW d, NEW n,
         Movable(top + 1, d, s, n)
  PROVE  Library!strncpy(m, d, s, n) =
           [k \in DOMAIN m |->
               CASE k \notin d .. d + n - 1 -> m[k]
                 [] OTHER -> IF \E j \in s .. s + k - d : m[j] = 0 THEN 0 ELSE m[s + k - d]]
<1> DEFINE l == Library!strlen(m, s)
           c == IF l < n THEN l ELSE n
           size == top + 1
           x == Library!Forward(m, d, s, c)
           Cut(k) == CASE k \notin d .. d + n - 1 -> m[k]
                       [] OTHER -> IF \E j \in s .. s + k - d : m[j] = 0 THEN 0
                                   ELSE m[s + k - d]
<1>1. /\ l \in Nat /\ s + l <= top /\ m[s + l] = 0
      /\ \A k \in 0 .. l - 1 : m[s + k] # 0
  BY StringEnds
<1>2. Library!strncpy(m, d, s, n) = Library!Filled(x, d + c, n - c, 0)
  BY DEF Library!strncpy
<1> HIDE DEF l
<1>3. /\ top \in Nat /\ d \in Nat /\ s \in Nat /\ n \in Nat /\ DOMAIN m = 0 .. top
      /\ IsMemory(m, size) /\ size \in Nat /\ d + n <= top + 1 /\ s + n <= top + 1
  BY DEF Movable, Ends, IsMemory
<1>4. c \in 0 .. n /\ c <= l
  BY <1>1, <1>3
<1>5. Movable(size, d, s, c)
  BY <1>3, <1>4 DEF Movable
<1> HIDE DEF c, size
<1>6. x = Moved(m, d, s, c)
  BY <1>3, <1>5, ForwardMoves
<1> HIDE DEF x
<1>7. /\ DOMAIN x = 0 .. top
      /\ \A k \in 0 .. top : x[k] = IF k \in d .. d + c - 1 THEN m[s + k - d] ELSE m[k]
  BY <1>3, <1>6 DEF Moved
<1>8. ASSUME NEW k \in 0 .. top
      PROVE  (IF k \in d + c .. d + c + (n - c) - 1 THEN 0 ELSE x[k]) = Cut(k)
  <2>1. CASE k \notin d .. d + n - 1
    <3>1. k \notin d + c .. d + c + (n - c) - 1 /\ k \notin d .. d + c - 1
      BY <1>3, <1>4, <2>1
    <3> QED
      BY <1>7, <2>1, <3>1
  <2>2. CASE k \in d .. d + c - 1
    <3>1. k \notin d + c .. d + c + (n - c) - 1 /\ k \in d .. d + n - 1
      BY <1>3, <1>4, <2>2
    <3>2. ASSUME NEW j \in s .. s + k - d PROVE m[j] # 0
      <4>1. j - s \in 0 .. l - 1 /\ s + (j - s) = j
        BY <1>1, <1>3, <1>4, <2>2
      <4> QED
        BY <1>1, <4>1
    <3> QED
      BY <1>7, <2>2, <3>1, <3>2
  <2>3. CASE k \in d + c .. d + n - 1
    <3>1. /\ k \in d + c .. d + c + (n - c) - 1 /\ k \in d .. d + n - 1
          /\ c < n
      BY <1>3, <1>4, <2>3
    <3>2. s + l \in s .. s + k - d
      <4>1. c = l
        BY <1>1, <1>3, <3>1 DEF c
      <4> QED
        BY <1>1, <1>3, <2>3, <4>1
    <3> QED
      BY <1>1, <3>1, <3>2
  <2> QED
    BY <1>3, <1>4, <2>1, <2>2, <2>3
<1>9. Library!Filled(x, d + c, n - c, 0)
        = [k \in 0 .. top |-> IF k \in d + c .. d + c + (n - c) - 1 THEN 0 ELSE x[k]]
  BY <1>7 DEF Library!Filled
<1> HIDE DEF Cut
<1>10. Library!Filled(x, d + c, n - c, 0) = [k \in 0 .. top |-> Cut(k)]
  BY <1>8, <1>9
<1> QED
  BY <1>2, <1>3, <1>10, Zenon DEF Cut

\* memset, in bytes and words, fills the range with the low byte.
LEMMA MemsetFills ==
  ASSUME NEW size, NEW m, IsMemory(m, size), NEW d \in Nat, NEW v \in Int, NEW n \in Nat
  PROVE  Library!memset(m, d, v, n) = Library!Filled(m, d, n, v % 256)
<1> DEFINE h == Library!Lead(d, n)
           w == Library!WordCount(d, n)
           rest == Library!Rest(d, n)
           byte == v % 256
           x == Library!Filled(m, d, h, byte)
           y == Library!Filled(x, d + h, 4 * w, byte)
           z == Library!Filled(y, d + h + 4 * w, rest, byte)
<1>1. h \in Nat /\ w \in Nat /\ rest \in Nat /\ h + 4 * w + rest = n
  BY ThreeLoops
<1>2. Library!memset(m, d, v, n) = z
  BY Zenon DEF Library!memset
<1> HIDE DEF h, w, rest, byte
<1>3. x = [k \in DOMAIN m |-> IF k \in d .. d + h - 1 THEN byte ELSE m[k]]
  BY DEF Library!Filled
<1> HIDE DEF x
<1>4. y = [k \in DOMAIN m |-> IF k \in d + h .. d + h + 4 * w - 1 THEN byte ELSE x[k]]
  BY <1>3 DEF Library!Filled
<1> HIDE DEF y
<1>5. z = [k \in DOMAIN m |-> IF k \in d + h + 4 * w .. d + h + 4 * w + rest - 1 THEN byte
                              ELSE y[k]]
  BY <1>4 DEF Library!Filled
<1> HIDE DEF z
<1>6. ASSUME NEW k \in DOMAIN m
      PROVE  (IF k \in d + h + 4 * w .. d + h + 4 * w + rest - 1 THEN byte ELSE y[k])
               = IF k \in d .. d + n - 1 THEN byte ELSE m[k]
  <2>1. k \in Int
    BY DEF IsMemory
  <2>2. k \in d .. d + n - 1 <=> \/ k \in d .. d + h - 1
                                \/ k \in d + h .. d + h + 4 * w - 1
                                \/ k \in d + h + 4 * w .. d + h + 4 * w + rest - 1
    BY <1>1, <2>1
  <2> QED
    BY <1>3, <1>4, <2>2
<1>7. Library!Filled(m, d, n, byte) = [k \in DOMAIN m |-> IF k \in d .. d + n - 1 THEN byte
                                                       ELSE m[k]]
  BY DEF Library!Filled
<1> QED
  BY <1>2, <1>5, <1>6, <1>7 DEF byte

-----------------------------------------------------------------------------
(* Routines that compare strings *)

\* The bytes of a string up to the n-th.
StringAt(m, x, n) == LET l == Library!strlen(m, x)
                 IN  [k \in 1 .. (IF l < n THEN l ELSE n) |-> m[x + k - 1]]

\* Where a comparison stops, or after n bytes.
StopOf(m, a, b, n) == LET S == Library!Stops(m, a, b, n)
                      IN  IF S = {} THEN n ELSE Library!Least(S)

\* No string has ended before it, and all bytes before it are equal.
StopsFirst(m, a, b, n) ==
  LET i == StopOf(m, a, b, n)
  IN  /\ Library!Stops(m, a, b, n) # {} => i \in Library!Stops(m, a, b, n)
      /\ i \in 0 .. n /\ i <= Library!strlen(m, a) /\ i <= Library!strlen(m, b)
      /\ \A j \in 0 .. i - 1 : m[a + j] = m[b + j]

\* So it is for every two strings.
LEMMA FirstStop ==
  ASSUME NEW top, NEW m, Ends(m, top), NEW a, NEW b, a \in 0 .. top, b \in 0 .. top,
         NEW n \in Nat
  PROVE  StopsFirst(m, a, b, n)
<1> DEFINE S == Library!Stops(m, a, b, n)
           i == IF S = {} THEN n ELSE Library!Least(S)
           la == Library!strlen(m, a)
           lb == Library!strlen(m, b)
<1>1. /\ la \in Nat /\ a + la <= top /\ m[a + la] = 0
      /\ \A k \in 0 .. la - 1 : m[a + k] # 0
  BY StringEnds
<1>2. /\ lb \in Nat /\ b + lb <= top /\ m[b + lb] = 0
      /\ \A k \in 0 .. lb - 1 : m[b + k] # 0
  BY StringEnds
<1>3. top \in Nat /\ a \in Nat /\ b \in Nat /\ DOMAIN m = 0 .. top
  BY DEF Ends
<1> HIDE DEF la, lb
<1>4. \A k \in Nat : k \in S <=> /\ k < n /\ a + k <= top /\ b + k <= top
                                /\ \/ m[a + k] # m[b + k]
                                   \/ m[a + k] = 0
  <2>1. \A k \in Nat : {a + k, b + k} \subseteq DOMAIN m <=> a + k <= top /\ b + k <= top
    BY <1>3
  <2> QED
    BY <2>1 DEF Library!Stops
<1>5. S \subseteq Nat
  BY DEF Library!Stops
<1> HIDE DEF S
<1>6. (S # {} => i \in S) /\ i \in 0 .. n /\ \A k \in S : i <= k
  <2>1. CASE S = {}
    BY <2>1
  <2>2. CASE S # {}
    <3> DEFINE Is(x) == \A j \in S : x <= j
    <3>1. PICK x \in S : \A y \in S : ~ (y < x)
      BY <1>5, <2>2, LeastNat
    <3>2. Is(x)
      BY <1>5, <3>1
    <3>3. Library!Least(S) = CHOOSE y \in S : Is(y)
      BY DEF Library!Least
    <3> HIDE DEF Is
    <3>4. Library!Least(S) \in S /\ Is(Library!Least(S))
      BY <3>1, <3>2, <3>3
    <3>5. i = Library!Least(S)
      BY <2>2
    <3>6. i \in S /\ i \in Nat /\ i < n
      BY <1>4, <1>5, <3>4, <3>5
    <3> QED
      BY <3>4, <3>5, <3>6 DEF Is
  <2> QED
    BY <2>1, <2>2
<1> HIDE DEF i
<1>7. \A k \in 0 .. i - 1 : k \in Nat /\ k < n /\ k \notin S
  BY <1>6
<1>8. i <= la /\ i <= lb
  <2>1. \/ la < i /\ la <= lb
        \/ lb < i /\ lb < la
        \/ i <= la /\ i <= lb
    BY <1>1, <1>2, <1>6
  <2>2. CASE la < i /\ la <= lb
    <3>1. b + la <= top
      BY <1>1, <1>2, <1>3, <2>2
    <3>2. la \in S
      BY <1>1, <1>4, <1>6, <2>2, <3>1
    <3> QED
      BY <1>1, <1>6, <1>7, <2>2, <3>2
  <2>3. CASE lb < i /\ lb < la
    <3>1. a + lb <= top
      BY <1>1, <1>2, <1>3, <2>3
    <3>2. lb \in S
      <4>1. m[a + lb] # 0
        BY <1>1, <1>2, <2>3
      <4> QED
        BY <1>2, <1>4, <1>6, <2>3, <3>1, <4>1
    <3> QED
      BY <1>2, <1>6, <1>7, <2>3, <3>2
  <2> QED
    BY <2>1, <2>2, <2>3
<1>9. ASSUME NEW j \in 0 .. i - 1 PROVE m[a + j] = m[b + j]
  <2>1. a + j <= top /\ b + j <= top
    BY <1>1, <1>2, <1>3, <1>6, <1>8
  <2> QED
    BY <1>4, <1>7, <2>1
<1> QED
  BY <1>6, <1>8, <1>9 DEF i, S, la, lb, StopsFirst, StopOf

\* They are equal up to n bytes if they end alike and agree that far.
EqualIf(m, a, b, n) ==
  LET la == Library!strlen(m, a)
      lb == Library!strlen(m, b)
  IN  StringAt(m, a, n) = StringAt(m, b, n) <=>
        /\ la = lb \/ (n <= la /\ n <= lb)
        /\ \A j \in 0 .. n - 1 : j < la => m[a + j] = m[b + j]

\* So it is for every two strings.
LEMMA HeadsEqual ==
  ASSUME NEW top, NEW m, Ends(m, top), NEW a, NEW b, a \in 0 .. top, b \in 0 .. top,
         NEW n \in Nat
  PROVE  EqualIf(m, a, b, n)
<1> DEFINE la == Library!strlen(m, a)
           lb == Library!strlen(m, b)
           p == IF la < n THEN la ELSE n
           q == IF lb < n THEN lb ELSE n
           H == StringAt(m, a, n)
           K == StringAt(m, b, n)
<1>1. la \in Nat /\ lb \in Nat /\ a \in Nat /\ b \in Nat
  <2>1. la \in Nat /\ a + la <= top
    BY StringEnds
  <2>2. lb \in Nat /\ b + lb <= top
    BY StringEnds
  <2> QED
    BY <2>1, <2>2 DEF Ends
<1>2. H = [k \in 1 .. p |-> m[a + k - 1]] /\ K = [k \in 1 .. q |-> m[b + k - 1]]
  BY DEF StringAt
<1> HIDE DEF la, lb, H, K
<1>3. p \in Nat /\ q \in Nat
  BY <1>1
<1>4. (p = q <=> (la = lb \/ (n <= la /\ n <= lb))) /\ (\A j \in Nat : j < p <=> j < n /\ j < la)
  BY <1>1
<1> HIDE DEF p, q
<1>5. ASSUME H = K PROVE p = q /\ \A j \in 0 .. n - 1 : j < la => m[a + j] = m[b + j]
  <2>1. 1 .. p = 1 .. q
    BY <1>2, <1>5
  <2>2. p = q
    <3>1. p = 0 \/ p \in 1 .. q
      BY <1>3, <2>1
    <3>2. q = 0 \/ q \in 1 .. p
      BY <1>3, <2>1
    <3> QED
      BY <1>3, <3>1, <3>2
  <2>3. ASSUME NEW j \in 0 .. n - 1, j < la PROVE m[a + j] = m[b + j]
    <3>1. j + 1 \in 1 .. p /\ a + (j + 1) - 1 = a + j /\ b + (j + 1) - 1 = b + j
      BY <1>1, <1>3, <1>4, <2>3
    <3>2. H[j + 1] = m[a + j] /\ K[j + 1] = m[b + j]
      BY <1>2, <2>2, <3>1
    <3> QED
      BY <1>5, <3>2
  <2> QED
    BY <2>2, <2>3
<1>6. ASSUME p = q, \A j \in 0 .. n - 1 : j < la => m[a + j] = m[b + j] PROVE H = K
  <2>1. ASSUME NEW k \in 1 .. p PROVE m[a + k - 1] = m[b + k - 1]
    <3>1. /\ k - 1 \in 0 .. n - 1 /\ k - 1 < la
          /\ a + (k - 1) = a + k - 1 /\ b + (k - 1) = b + k - 1
      BY <1>1, <1>3, <1>4
    <3>2. m[a + (k - 1)] = m[b + (k - 1)]
      BY <1>6, <3>1
    <3> QED
      BY <3>1, <3>2
  <2> QED
    BY <1>2, <1>6, <2>1
<1> QED
  BY <1>4, <1>5, <1>6 DEF H, K, la, lb, EqualIf

\* A comparison tells equal strings, up to n bytes, from others; if the first
\* string ends within them, it stops.
Tells(m, a, b, n) ==
  LET S == Library!Stops(m, a, b, n)
      i == Library!Least(S)
      same == StringAt(m, a, n) = StringAt(m, b, n)
  IN  /\ S = {} => same /\ ~ (Library!strlen(m, a) < n)
      /\ S # {} => m[a + i] \in 0 .. 255 /\ m[b + i] \in 0 .. 255 /\ (m[a + i] = m[b + i] <=> same)

\* So it is for every two strings.
LEMMA ComparisonTells ==
  ASSUME NEW top, NEW m, Ends(m, top), NEW a, NEW b, a \in 0 .. top, b \in 0 .. top,
         NEW n \in Nat
  PROVE  Tells(m, a, b, n)
<1> DEFINE S == Library!Stops(m, a, b, n)
           i == IF S = {} THEN n ELSE Library!Least(S)
           la == Library!strlen(m, a)
           lb == Library!strlen(m, b)
           Same == StringAt(m, a, n) = StringAt(m, b, n)
<1>1. la \in Nat /\ a + la <= top /\ m[a + la] = 0 /\ \A k \in 0 .. la - 1 : m[a + k] # 0
  BY StringEnds
<1>2. lb \in Nat /\ b + lb <= top /\ m[b + lb] = 0 /\ \A k \in 0 .. lb - 1 : m[b + k] # 0
  BY StringEnds
<1>3. top \in Nat /\ a \in Nat /\ b \in Nat /\ m \in [0 .. top -> 0 .. 255]
  BY DEF Ends
<1>4. Same <=> /\ la = lb \/ (n <= la /\ n <= lb)
               /\ \A j \in 0 .. n - 1 : j < la => m[a + j] = m[b + j]
  <2>1. EqualIf(m, a, b, n)
    BY HeadsEqual
  <2> QED
    BY <2>1 DEF EqualIf
<1>5. /\ S # {} => i \in S
      /\ i \in 0 .. n /\ i <= la /\ i <= lb
      /\ \A j \in 0 .. i - 1 : m[a + j] = m[b + j]
  <2>1. StopsFirst(m, a, b, n)
    BY FirstStop
  <2> QED
    BY <2>1, Zenon DEF StopsFirst, StopOf
<1>6. \A k \in S : k \in 0 .. n - 1 /\ (m[a + k] # m[b + k] \/ m[a + k] = 0)
  BY DEF Library!Stops
<1> HIDE DEF la, lb, S, Same
<1>7. CASE S = {}
  <2>1. i = n
    BY <1>7
  <2>2. Same /\ ~ (la < n)
    BY <1>1, <1>2, <1>4, <1>5, <2>1
  <2> QED
    BY <1>7, <2>2, Zenon DEF S, Same, la, Tells
<1>8. CASE S # {}
  <2>1. i = Library!Least(S)
    BY <1>8
  <2> HIDE DEF i
  <2>2. i \in 0 .. n - 1 /\ (m[a + i] # m[b + i] \/ m[a + i] = 0)
    BY <1>5, <1>6, <1>8
  <2>3. m[a + i] \in 0 .. 255 /\ m[b + i] \in 0 .. 255
    <3>1. a + i \in 0 .. top /\ b + i \in 0 .. top
      BY <1>1, <1>2, <1>3, <1>5, <2>2
    <3> QED
      BY <1>3, <3>1, SMTT(30)
  <2>4. ASSUME m[a + i] = m[b + i] PROVE Same
    <3>1. m[a + i] = 0 /\ m[b + i] = 0
      BY <2>2, <2>4
    <3>2. la = i /\ lb = i
      BY <1>1, <1>2, <1>5, <2>2, <3>1
    <3> QED
      BY <1>4, <1>5, <2>2, <3>2
  <2>5. ASSUME Same PROVE m[a + i] = m[b + i]
    <3>1. CASE i < la
      BY <1>4, <2>2, <2>5, <3>1
    <3>2. CASE ~ (i < la)
      <4>1. i = la
        BY <1>1, <1>5, <2>2, <3>2
      <4>2. i = lb
        BY <1>1, <1>2, <1>4, <2>2, <2>5, <4>1
      <4> QED
        BY <1>1, <1>2, <4>1, <4>2
    <3> QED
      BY <3>1, <3>2
  <2>6. m[a + i] = m[b + i] <=> Same
    BY <2>4, <2>5
  <2> QED
    BY <1>8, <2>1, <2>3, <2>6, Zenon DEF S, Same, Tells
<1> QED
  BY <1>7, <1>8

-----------------------------------------------------------------------------
\* Powers, from the first on.
PowersTo(f, b, n) ==
  f = [k \in 0 .. n |-> IF k = 0 THEN 1 ELSE b * f[k - 1]]

LEMMA PowerIs ==
  ASSUME NEW b \in Nat, NEW n \in Nat
  PROVE  \E f \in [0 .. n -> Nat] : PowersTo(f, b, n) /\ Library!Power(b, n) = f[n]
<1> DEFINE step == [k \in Nat |-> [x \in Nat |-> b * x]]
           c == CHOOSE f : PowersTo(f, b, n)
<1>1. Computed(Nat, 1, step, n)
  <2>1. \A k \in Nat, x \in Nat : step[k][x] \in Nat
    OBVIOUS
  <2> HIDE DEF step
  <2> QED
    BY <2>1, Recursion
<1>2. PICK f \in [0 .. n -> Nat] : f[0] = 1 /\ \A k \in 1 .. n : f[k] = step[k][f[k - 1]]
  BY <1>1 DEF Computed
<1>3. ASSUME NEW k \in 1 .. n PROVE f[k] = b * f[k - 1]
  <2>1. k \in Nat /\ k - 1 \in 0 .. n
    OBVIOUS
  <2>2. f[k - 1] \in Nat
    BY <2>1
  <2> QED
    BY <1>2, <2>1, <2>2
<1>4. \A k \in 0 .. n : f[k] = IF k = 0 THEN 1 ELSE b * f[k - 1]
  BY <1>2, <1>3
<1>5. PowersTo(f, b, n)
  BY <1>4 DEF PowersTo
<1>6. PowersTo(c, b, n)
  BY <1>5
<1>7. Library!Power(b, n) = c[n]
  BY DEF Library!Power, PowersTo
<1> HIDE DEF c
<1>8. c \in [0 .. n -> Nat]
  <2> DEFINE T == {k \in Nat : k \in 0 .. n => c[k] \in Nat}
  <2>1. \A k \in 0 .. n : c[k] = IF k = 0 THEN 1 ELSE b * c[k - 1]
    BY <1>6 DEF PowersTo
  <2>2. 0 \in T
    BY <2>1
  <2>3. ASSUME NEW k \in Nat, k \in T PROVE k + 1 \in T
    <3> SUFFICES ASSUME k + 1 \in 0 .. n PROVE c[k + 1] \in Nat
      OBVIOUS
    <3>1. k \in 0 .. n /\ k + 1 # 0 /\ k + 1 - 1 = k
      OBVIOUS
    <3>2. c[k + 1] = b * c[k] /\ c[k] \in Nat
      BY <2>1, <2>3, <3>1
    <3> QED
      BY <3>2
  <2>4. Nat \subseteq T
    <3> HIDE DEF T
    <3> QED
      BY <2>2, <2>3, AllNat
  <2>5. \A k \in 0 .. n : c[k] \in Nat
    BY <2>4
  <2>6. c = [k \in 0 .. n |-> c[k]]
    BY <1>6 DEF PowersTo
  <2> QED
    BY <2>5, <2>6
<1> QED
  BY <1>6, <1>7, <1>8

\* A power is the one before, times the base.
LEMMA Powers ==
  ASSUME NEW b \in Nat
  PROVE  /\ Library!Power(b, 0) = 1
         /\ \A n \in Nat : /\ Library!Power(b, n) \in Nat
                           /\ Library!Power(b, n + 1) = b * Library!Power(b, n)
<1>1. Library!Power(b, 0) = 1
  <2>1. PICK f \in [0 .. 0 -> Nat] : PowersTo(f, b, 0) /\ Library!Power(b, 0) = f[0]
    BY PowerIs
  <2> QED
    BY <2>1 DEF PowersTo
<1>2. ASSUME NEW n \in Nat
      PROVE  Library!Power(b, n) \in Nat /\ Library!Power(b, n + 1) = b * Library!Power(b, n)
  <2>1. PICK f \in [0 .. n -> Nat] : PowersTo(f, b, n) /\ Library!Power(b, n) = f[n]
    BY PowerIs
  <2>2. PICK g \in [0 .. n + 1 -> Nat] : PowersTo(g, b, n + 1) /\ Library!Power(b, n + 1) = g[n + 1]
    <3>1. n + 1 \in Nat
      OBVIOUS
    <3> QED
      BY <3>1, PowerIs
  <2> DEFINE T == {k \in Nat : k \in 0 .. n => f[k] = g[k]}
  <2>3. /\ \A k \in 0 .. n : f[k] = IF k = 0 THEN 1 ELSE b * f[k - 1]
        /\ \A k \in 0 .. n + 1 : g[k] = IF k = 0 THEN 1 ELSE b * g[k - 1]
    BY <2>1, <2>2 DEF PowersTo
  <2>4. 0 \in T
    <3>1. 0 \in 0 .. n /\ 0 \in 0 .. n + 1
      OBVIOUS
    <3> QED
      BY <2>3, <3>1
  <2>5. ASSUME NEW k \in Nat, k \in T PROVE k + 1 \in T
    <3> SUFFICES ASSUME k + 1 \in 0 .. n PROVE f[k + 1] = g[k + 1]
      OBVIOUS
    <3>1. k \in 0 .. n /\ k + 1 # 0 /\ k + 1 - 1 = k /\ k + 1 \in 0 .. n + 1
      OBVIOUS
    <3>2. f[k + 1] = b * f[(k + 1) - 1] /\ g[k + 1] = b * g[(k + 1) - 1]
      BY <2>3, <3>1, Zenon
    <3>3. f[k + 1] = b * f[k] /\ g[k + 1] = b * g[k]
      BY <3>1, <3>2
    <3> QED
      BY <2>5, <3>1, <3>3
  <2>6. Nat \subseteq T
    <3> HIDE DEF T
    <3> QED
      BY <2>4, <2>5, AllNat
  <2>7. f[n] = g[n] /\ f[n] \in Nat
    BY <2>6
  <2>8. n + 1 \in 0 .. n + 1 /\ n + 1 # 0 /\ n + 1 - 1 = n
    OBVIOUS
  <2>9. g[n + 1] = b * g[n]
    BY <2>3, <2>8
  <2> QED
    BY <2>1, <2>2, <2>7, <2>9
<1> QED
  BY <1>1, <1>2

\* Powers do not become smaller.
LEMMA PowersGrow ==
  ASSUME NEW b \in Nat \ {0}, NEW n \in Nat, NEW m \in Nat, n <= m
  PROVE  Library!Power(b, n) # 0 /\ Library!Power(b, n) <= Library!Power(b, m)
<1> DEFINE T == {k \in Nat : Library!Power(b, n) <= Library!Power(b, n + k)}
           U == {k \in Nat : Library!Power(b, k) # 0}
<1>1. b \in Nat
  OBVIOUS
<1>2. ASSUME NEW k \in Nat, Library!Power(b, k) # 0
      PROVE  Library!Power(b, k + 1) # 0 /\ Library!Power(b, k) <= Library!Power(b, k + 1)
  <2> DEFINE x == Library!Power(b, k)
  <2>1. x \in Nat /\ Library!Power(b, k + 1) = b * x
    BY <1>1, Powers
  <2> HIDE DEF x
  <2>2. 1 * x <= b * x /\ 1 * x = x /\ x # 0
    <3>1. 1 * x <= b * x
      BY <2>1, Times
    <3> QED
      BY <1>2, <2>1, <3>1 DEF x
  <2>3. b * x \in Nat
    BY <1>1, <2>1
  <2>4. b * x # 0 /\ x <= b * x
    BY <2>1, <2>2, <2>3
  <2> QED
    BY <2>1, <2>4 DEF x
<1>3. Nat \subseteq U
  <2>1. 0 \in U
    BY <1>1, Powers
  <2>2. \A k \in Nat : k \in U => k + 1 \in U
    BY <1>2
  <2> HIDE DEF U
  <2> QED
    BY <2>1, <2>2, AllNat
<1>4. Nat \subseteq T
  <2>1. 0 \in T
    <3>1. n + 0 = n /\ Library!Power(b, n) \in Nat
      BY <1>1, Powers
    <3> QED
      BY <3>1
  <2>2. ASSUME NEW k \in Nat, k \in T PROVE k + 1 \in T
    <3>1. n + k \in Nat /\ (n + k) + 1 = n + (k + 1)
      OBVIOUS
    <3>2. Library!Power(b, n + k) <= Library!Power(b, (n + k) + 1)
      BY <1>2, <1>3, <3>1
    <3>3. Library!Power(b, n) \in Nat /\ Library!Power(b, n + k) \in Nat
            /\ Library!Power(b, n + (k + 1)) \in Nat
      <4>1. n + (k + 1) \in Nat
        OBVIOUS
      <4> QED
        BY <1>1, <3>1, <4>1, Powers
    <3>4. Library!Power(b, n) <= Library!Power(b, n + k)
      BY <2>2
    <3>5. Library!Power(b, n) <= Library!Power(b, n + (k + 1))
      BY <3>1, <3>2, <3>3, <3>4
    <3> QED
      BY <3>5
  <2> HIDE DEF T
  <2> QED
    BY <2>1, <2>2, AllNat
<1>5. m - n \in Nat /\ n + (m - n) = m
  OBVIOUS
<1> QED
  BY <1>3, <1>4, <1>5

-----------------------------------------------------------------------------
(* The digits of a number *)

\* Induction that may go back further than one.
LEMMA AllBefore ==
  ASSUME NEW T, \A n \in Nat : (\A k \in 0 .. n - 1 : k \in T) => n \in T
  PROVE  Nat \subseteq T
<1> DEFINE U == {n \in Nat : \A k \in 0 .. n - 1 : k \in T}
<1>1. 0 \in U
  OBVIOUS
<1>2. ASSUME NEW n \in Nat, n \in U PROVE n + 1 \in U
  <2>1. n \in T
    BY <1>2
  <2>2. \A k \in 0 .. (n + 1) - 1 : k \in 0 .. n - 1 \/ k = n
    OBVIOUS
  <2> QED
    BY <1>2, <2>1, <2>2
<1>3. Nat \subseteq U
  <2> HIDE DEF U
  <2> QED
    BY <1>1, <1>2, AllNat
<1> QED
  BY <1>3

\* What the division of a number leaves is smaller.
LEMMA Shorter ==
  ASSUME NEW v \in Nat, v # 0, NEW r \in Nat, r >= 2
  PROVE  v \div r \in 0 .. v - 1
<1> DEFINE q == v \div r
<1>1. q \in Nat /\ v = q * r + (v % r) /\ v % r \in Nat
  OBVIOUS
<1> HIDE DEF q
<1>2. 2 * q <= r * q /\ r * q \in Nat /\ r * q = q * r
  <2>1. 2 * q <= r * q /\ r * q \in Nat
    BY <1>1, Times
  <2> QED
    BY <1>1, <2>1
<1>3. q < v
  BY <1>1, <1>2
<1> QED
  BY <1>1, <1>3 DEF q

DigitsTo(f, n, r) ==
  f = [v \in 0 .. n |-> IF v = 0 THEN << >> ELSE <<Library!Digit(v % r)>> \o f[v \div r]]

\* The digits of all numbers up to one exist.
LEMMA DigitsExist ==
  ASSUME NEW r \in Nat, r >= 2, NEW m \in Nat
  PROVE  \E f : DigitsTo(f, m, r) /\ Library!LowFirst(m, r) = f[m]
<1> DEFINE T == {n \in Nat : \E f : DigitsTo(f, n, r)}
<1>1. 0 \in T
  <2> DEFINE f == [v \in 0 .. 0 |-> << >>]
  <2>1. f = [v \in 0 .. 0 |-> IF v = 0 THEN << >> ELSE <<Library!Digit(v % r)>> \o f[v \div r]]
    <3>1. \A v \in 0 .. 0 : v = 0
      OBVIOUS
    <3> QED
      BY <3>1, Zenon
  <2>2. DigitsTo(f, 0, r)
    BY <2>1, Zenon DEF DigitsTo
  <2> QED
    BY <2>2
<1>2. ASSUME NEW n \in Nat, n \in T PROVE n + 1 \in T
  <2>1. PICK f : DigitsTo(f, n, r)
    BY <1>2
  <2> DEFINE val(g, v) == IF v = 0 THEN << >> ELSE <<Library!Digit(v % r)>> \o g[v \div r]
             g == [v \in 0 .. n + 1 |-> IF v = n + 1 THEN val(f, n + 1) ELSE f[v]]
  <2>2. \A v \in 0 .. n : f[v] = val(f, v)
    BY <2>1 DEF DigitsTo
  <2>3. g[n + 1] = val(f, n + 1) /\ \A v \in 0 .. n : g[v] = f[v]
    OBVIOUS
  <2>4. DOMAIN g = 0 .. n + 1 /\ g = [v \in 0 .. n + 1 |-> g[v]]
    OBVIOUS
  <2> HIDE DEF g
  <2>5. ASSUME NEW v \in 0 .. n + 1, v # 0 PROVE g[v \div r] = f[v \div r]
    <3>1. v \in Nat
      BY <2>5
    <3>2. v \div r \in 0 .. v - 1
      BY <2>5, <3>1, Shorter
    <3> DEFINE q == v \div r
    <3> HIDE DEF q
    <3>3. q \in 0 .. n
      <4>1. q \in 0 .. v - 1
        BY <3>2 DEF q
      <4> QED
        BY <4>1
    <3> QED
      BY <2>3, <3>3 DEF q
  <2>6. ASSUME NEW v \in 0 .. n + 1 PROVE g[v] = val(g, v)
    <3>1. val(g, v) = val(f, v)
      BY <2>5, Zenon
    <3>2. v = n + 1 \/ v \in 0 .. n
      OBVIOUS
    <3> QED
      BY <2>2, <2>3, <3>1, <3>2, Zenon
  <2>7. g = [v \in 0 .. n + 1 |-> val(g, v)]
    <3> HIDE DEF val
    <3> QED
      BY <2>4, <2>6
  <2>8. DigitsTo(g, n + 1, r)
    BY <2>7, Zenon DEF DigitsTo
  <2> QED
    BY <2>8
<1>3. \E f : DigitsTo(f, m, r)
  <2>1. Nat \subseteq T
    <3> HIDE DEF T
    <3> QED
      BY <1>1, <1>2, AllNat
  <2> QED
    BY <2>1
<1> DEFINE c == CHOOSE f : DigitsTo(f, m, r)
<1>4. DigitsTo(c, m, r)
  BY <1>3
<1>5. Library!LowFirst(m, r) = c[m]
  BY Zenon DEF Library!LowFirst, DigitsTo
<1> QED
  BY <1>4, <1>5

\* The last digit comes first.
LEMMA LowFirstIs ==
  ASSUME NEW r \in Nat, r >= 2, NEW m \in Nat
  PROVE  /\ m = 0 => Library!LowFirst(m, r) = << >>
         /\ m # 0 => Library!LowFirst(m, r)
              = <<Library!Digit(m % r)>> \o Library!LowFirst(m \div r, r)
<1>1. PICK f : DigitsTo(f, m, r) /\ Library!LowFirst(m, r) = f[m]
  BY DigitsExist
<1>2. \A v \in 0 .. m : f[v] = IF v = 0 THEN << >> ELSE <<Library!Digit(v % r)>> \o f[v \div r]
  BY <1>1, Zenon DEF DigitsTo
<1>3. m \in 0 .. m
  OBVIOUS
<1>4. CASE m = 0
  BY <1>1, <1>2, <1>3, <1>4, Zenon
<1>5. CASE m # 0
  <2> DEFINE q == m \div r
  <2>1. q \in 0 .. m - 1
    BY <1>5, Shorter
  <2> HIDE DEF q
  <2>2. q \in Nat /\ q <= m
    BY <2>1
  <2>3. PICK g : DigitsTo(g, q, r) /\ Library!LowFirst(q, r) = g[q]
    BY <2>2, DigitsExist
  <2>4. \A v \in 0 .. q : g[v] = IF v = 0 THEN << >> ELSE <<Library!Digit(v % r)>> \o g[v \div r]
    BY <2>3, Zenon DEF DigitsTo
  <2> DEFINE T == {v \in Nat : v \in 0 .. q => f[v] = g[v]}
  <2>5. ASSUME NEW v \in Nat, \A k \in 0 .. v - 1 : k \in T PROVE v \in T
    <3> SUFFICES ASSUME v \in 0 .. q PROVE f[v] = g[v]
      OBVIOUS
    <3>1. v \in 0 .. m
      BY <2>2
    <3>2. CASE v = 0
      BY <1>2, <2>4, <3>1, <3>2, Zenon
    <3>3. CASE v # 0
      <4> DEFINE w == v \div r
      <4>1. w \in 0 .. v - 1
        BY <3>3, Shorter
      <4>2. f[v] = <<Library!Digit(v % r)>> \o f[w] /\ g[v] = <<Library!Digit(v % r)>> \o g[w]
        BY <1>2, <2>4, <3>1, <3>3, Zenon
      <4> HIDE DEF w
      <4>3. w \in 0 .. q
        BY <2>2, <4>1
      <4>4. f[w] = g[w]
        BY <2>5, <4>1, <4>3
      <4> QED
        BY <4>2, <4>4
    <3> QED
      BY <3>2, <3>3
  <2>6. Nat \subseteq T
    <3> HIDE DEF T
    <3> QED
      BY <2>5, AllBefore
  <2>7. f[q] = g[q]
    BY <2>2, <2>6
  <2>8. f[m] = <<Library!Digit(m % r)>> \o f[q]
    BY <1>2, <1>3, <1>5, Zenon DEF q
  <2>9. Library!LowFirst(m, r) = <<Library!Digit(m % r)>> \o Library!LowFirst(q, r)
    BY <1>1, <2>3, <2>7, <2>8
  <2> QED
    BY <1>5, <2>9 DEF q
<1> QED
  BY <1>4, <1>5

-----------------------------------------------------------------------------
\* What the digits are, and how many.
AreDigits(s, v, r) ==
  /\ s \in Seq(Nat) /\ Len(s) \in 0 .. v
  /\ v < Library!Power(r, Len(s)) /\ (Len(s) # 0 => v >= Library!Power(r, Len(s) - 1))
  /\ \A k \in 1 .. Len(s) : s[k] = Library!Digit((v \div Library!Power(r, k - 1)) % r)

\* One digit more.
LEMMA OneMore ==
  ASSUME NEW r \in Nat, r >= 2, NEW v \in Nat, v # 0, NEW s, AreDigits(s, v \div r, r)
  PROVE  AreDigits(<<Library!Digit(v % r)>> \o s, v, r)
<1> DEFINE q == v \div r
           d == Library!Digit(v % r)
           t == <<d>> \o s
           n == Len(s)
<1>1. q \in 0 .. v - 1 /\ q \in Nat /\ r # 0 /\ r \in Nat \ {0}
  <2>1. q \in 0 .. v - 1
    BY Shorter
  <2> HIDE DEF q
  <2> QED
    BY <2>1
<1>2. /\ s \in Seq(Nat) /\ n \in 0 .. q /\ n \in Nat
      /\ q < Library!Power(r, n) /\ (n # 0 => q >= Library!Power(r, n - 1))
      /\ \A k \in 1 .. n : s[k] = Library!Digit((q \div Library!Power(r, k - 1)) % r)
  <2>1. n \in Nat
    BY DEF AreDigits
  <2> QED
    BY <2>1 DEF AreDigits
<1>3. d \in Nat
  <2>1. v % r \in Nat
    OBVIOUS
  <2> QED
    BY <2>1 DEF Library!Digit
<1> HIDE DEF d
<1>4. /\ t \in Seq(Nat) /\ Len(t) = n + 1 /\ t[1] = d
      /\ \A k \in 2 .. n + 1 : t[k] = s[k - 1]
  BY <1>2, <1>3
<1>5. ASSUME NEW k \in Nat
      PROVE  /\ Library!Power(r, k) \in Nat \ {0}
             /\ Library!Power(r, k + 1) = r * Library!Power(r, k)
             /\ q < Library!Power(r, k) <=> v < Library!Power(r, k + 1)
             /\ q \div Library!Power(r, k) = v \div Library!Power(r, k + 1)
  <2> DEFINE Q == Library!Power(r, k)
  <2>1. Library!Power(r, k + 1) = r * Q /\ Q \in Nat \ {0}
    <3>1. Q \in Nat /\ Library!Power(r, k + 1) = r * Q
      BY Powers
    <3>2. Q # 0
      BY <1>1, PowersGrow
    <3> QED
      BY <3>1, <3>2
  <2> HIDE DEF Q
  <2>2. (q < Q <=> v < r * Q) /\ q \div Q = v \div (r * Q)
    BY <1>1, <2>1, Quotients
  <2> QED
    BY <2>1, <2>2 DEF Q
<1>6. n + 1 \in 0 .. v
  <2> HIDE DEF n, q
  <2> QED
    BY <1>1, <1>2
<1>7. v < Library!Power(r, n + 1)
  BY <1>2, <1>5
<1>8. v >= Library!Power(r, (n + 1) - 1)
  <2>1. CASE n = 0
    <3>1. Library!Power(r, (n + 1) - 1) = 1
      BY <2>1, Powers
    <3> QED
      BY <3>1
  <2>2. CASE n # 0
    <3>1. n - 1 \in Nat /\ (n + 1) - 1 = (n - 1) + 1
      BY <1>2, <2>2
    <3>2. q >= Library!Power(r, n - 1) /\ Library!Power(r, n - 1) \in Nat
            /\ Library!Power(r, (n - 1) + 1) \in Nat
      <4>1. (n - 1) + 1 \in Nat
        BY <3>1
      <4> QED
        BY <1>2, <2>2, <3>1, <4>1, Powers
    <3>3. ~ (q < Library!Power(r, n - 1))
      BY <1>1, <3>2
    <3>4. ~ (v < Library!Power(r, (n - 1) + 1))
      BY <1>5, <3>1, <3>3
    <3> QED
      BY <3>1, <3>2, <3>4
  <2> QED
    BY <2>1, <2>2
<1>9. ASSUME NEW k \in 1 .. n + 1 PROVE t[k] = Library!Digit((v \div Library!Power(r, k - 1)) % r)
  <2>1. CASE k = 1
    <3>1. Library!Power(r, k - 1) = 1
      BY <2>1, Powers
    <3>2. v \div 1 = v
      OBVIOUS
    <3> QED
      BY <1>4, <2>1, <3>1, <3>2 DEF d
  <2>2. CASE k # 1
    <3>1. k - 1 \in 1 .. n /\ k \in 2 .. n + 1 /\ (k - 1) - 1 \in Nat
          /\ ((k - 1) - 1) + 1 = k - 1
      BY <1>2, <2>2
    <3>2. s[k - 1] = Library!Digit((q \div Library!Power(r, (k - 1) - 1)) % r)
      BY <1>2, <3>1
    <3>3. q \div Library!Power(r, (k - 1) - 1) = v \div Library!Power(r, k - 1)
      BY <1>5, <3>1
    <3> QED
      BY <1>4, <3>1, <3>2, <3>3
  <2> QED
    BY <2>1, <2>2
<1> HIDE DEF n, t
<1>10. AreDigits(t, v, r)
  <2>1. n + 1 # 0
    BY <1>2
  <2> QED
    BY <1>4, <1>6, <1>7, <1>8, <1>9, <2>1 DEF AreDigits
<1> QED
  BY <1>10 DEF t, d

\* The digits of every number.
LEMMA LowFirstDigits ==
  ASSUME NEW r \in Nat, r >= 2, NEW v \in Nat
  PROVE  AreDigits(Library!LowFirst(v, r), v, r)
<1> DEFINE T == {n \in Nat : AreDigits(Library!LowFirst(n, r), n, r)}
<1>1. ASSUME NEW n \in Nat, \A k \in 0 .. n - 1 : k \in T PROVE n \in T
  <2>1. CASE n = 0
    <3>1. Library!LowFirst(n, r) = << >>
      BY <2>1, LowFirstIs
    <3>2. Library!Power(r, 0) = 1
      BY Powers
    <3>3. /\ << >> \in Seq(Nat) /\ Len(<< >>) = 0 /\ 0 < 1 /\ 0 \in 0 .. 0
          /\ 1 .. 0 = {}
      OBVIOUS
    <3> QED
      BY <2>1, <3>1, <3>2, <3>3 DEF AreDigits
  <2>2. CASE n # 0
    <3>1. n \div r \in 0 .. n - 1
      BY <2>2, Shorter
    <3>2. AreDigits(Library!LowFirst(n \div r, r), n \div r, r)
      BY <1>1, <3>1
    <3>3. AreDigits(<<Library!Digit(n % r)>> \o Library!LowFirst(n \div r, r), n, r)
      BY <2>2, <3>2, OneMore
    <3> QED
      BY <2>2, <3>3, LowFirstIs
  <2> QED
    BY <2>1, <2>2
<1>2. Nat \subseteq T
  <2> HIDE DEF T
  <2> QED
    BY <1>1, AllBefore
<1> QED
  BY <1>2

\* strrev turns a string round, one with a middle too.
LEMMA Reversed ==
  ASSUME NEW s \in Seq(Nat)
  PROVE  /\ Library!strrev(s) = [k \in 1 .. Len(s) |-> s[Len(s) + 1 - k]]
         /\ Library!ece391_strrev(s) = Library!strrev(s)
<1> DEFINE n == Len(s)
           h == n \div 2
<1>1. n \in Nat /\ DOMAIN s = 1 .. n /\ s = [k \in 1 .. n |-> s[k]]
  OBVIOUS
<1>2. h \in Nat /\ (n = 2 * h \/ n = 2 * h + 1)
  <2>1. n \in Nat
    BY <1>1
  <2> HIDE DEF n
  <2> QED
    BY <2>1
<1> HIDE DEF h
<1>3. \A k \in 1 .. n : ~ (k <= h \/ k > n - h) => n + 1 - k = k
  BY <1>1, <1>2, SMTT(30)
<1> DEFINE old(k) == IF k <= h \/ k > n - h THEN s[n + 1 - k] ELSE s[k]
           new(k) == s[n + 1 - k]
<1>4. ASSUME NEW k \in 1 .. n PROVE old(k) = new(k)
  <2>1. k <= h \/ k > n - h \/ n + 1 - k = k
    BY <1>3
  <2> QED
    BY <2>1
<1>5. Library!strrev(s) = [k \in 1 .. n |-> old(k)]
  BY <1>1 DEF Library!strrev, h
<1> HIDE DEF old, new
<1>6. Library!strrev(s) = [k \in 1 .. n |-> new(k)]
  BY <1>4, <1>5
<1>7. ASSUME n <= 1 PROVE Library!strrev(s) = s
  <2>1. ASSUME NEW k \in 1 .. n PROVE new(k) = s[k]
    <3>1. n + 1 - k = k
      BY <1>1, <1>7
    <3> QED
      BY <3>1 DEF new
  <2> QED
    BY <1>1, <1>6, <2>1
<1> QED
  BY <1>6, <1>7 DEF new, Library!ece391_strrev

\* A number has as many digits as it needs, the highest first.
IsNumeral(s, v, r) ==
  /\ s \in Seq(Nat) /\ Len(s) \in 1 .. v + 1
  /\ v < Library!Power(r, Len(s)) /\ (Len(s) = 1 \/ v >= Library!Power(r, Len(s) - 1))
  /\ s = [k \in 1 .. Len(s) |-> Library!Digit((v \div Library!Power(r, Len(s) - k)) % r)]

\* There are no two such strings.
LEMMA OneNumeral ==
  ASSUME NEW r \in Nat, r >= 2, NEW v \in Nat, NEW s, IsNumeral(s, v, r)
  PROVE  s = Library!Numeral(v, r)
<1> DEFINE Is(n) == v < Library!Power(r, n) /\ (n = 1 \/ v >= Library!Power(r, n - 1))
           c == CHOOSE n \in 1 .. v + 1 : Is(n)
<1>1. ASSUME NEW m \in 1 .. v + 1, NEW n \in 1 .. v + 1, Is(m), Is(n)
      PROVE  ~ (m < n)
  <2> SUFFICES ASSUME m < n PROVE FALSE
    OBVIOUS
  <2>1. m \in Nat /\ n - 1 \in Nat /\ m <= n - 1 /\ n # 1 /\ r \in Nat \ {0}
    OBVIOUS
  <2>2. Library!Power(r, m) <= Library!Power(r, n - 1)
    BY <2>1, PowersGrow
  <2>3. Library!Power(r, m) \in Nat /\ Library!Power(r, n - 1) \in Nat
    BY <2>1, Powers
  <2>4. v < Library!Power(r, m) /\ v >= Library!Power(r, n - 1)
    BY <1>1, <2>1
  <2> QED
    BY <2>2, <2>3, <2>4
<1>2. Len(s) \in 1 .. v + 1 /\ Is(Len(s))
  BY DEF IsNumeral
<1> HIDE DEF Is
<1>3. c \in 1 .. v + 1 /\ Is(c)
  BY <1>2
<1>4. Len(s) = c
  <2> DEFINE n == Len(s)
  <2>1. n \in 1 .. v + 1 /\ Is(n)
    BY <1>2
  <2> HIDE DEF n, c
  <2>2. ~ (n < c) /\ ~ (c < n)
    BY <1>1, <1>3, <2>1
  <2>3. n = c
    BY <1>3, <2>1, <2>2
  <2> QED
    BY <2>3 DEF n
<1>5. Library!Numeral(v, r) = [k \in 1 .. c |-> Library!Digit((v \div Library!Power(r, c - k)) % r)]
  BY Zenon DEF Library!Numeral, Is
<1> HIDE DEF c
<1> QED
  BY <1>4, <1>5 DEF IsNumeral

\* itoa gives the numeral, in the kernel and in the programs.
LEMMA ItoaIs ==
  ASSUME NEW r \in Nat, r >= 2, NEW v \in Nat
  PROVE  /\ Library!itoa(v, r) = Library!Numeral(v, r)
         /\ Library!ece391_itoa(v, r) = Library!Numeral(v, r)
         /\ IsNumeral(Library!Numeral(v, r), v, r)
<1>1. PICK s : /\ IsNumeral(s, v, r) /\ Library!itoa(v, r) = s /\ Library!ece391_itoa(v, r) = s
  <2>1. CASE v = 0
    <3> DEFINE s == <<Library!Digit(0)>>
    <3>1. Library!itoa(v, r) = s /\ Library!ece391_itoa(v, r) = s
      BY <2>1 DEF Library!itoa, Library!ece391_itoa
    <3>2. Library!Power(r, 0) = 1 /\ Library!Power(r, 1) = r
      <4>1. Library!Power(r, 0 + 1) = r * Library!Power(r, 0) /\ Library!Power(r, 0) = 1
              /\ 0 + 1 = 1 /\ r * 1 = r
        BY Powers
      <4> QED
        BY <4>1
    <3>3. Library!Digit(0) \in Nat /\ (0 \div 1) % r = 0
      BY DEF Library!Digit
    <3>4. /\ s \in Seq(Nat) /\ Len(s) = 1 /\ s = [k \in 1 .. 1 |-> Library!Digit(0)]
      <4>1. Library!Digit(0) \in Nat
        BY <3>3
      <4> QED
        BY <4>1
    <3>5. s = [k \in 1 .. 1 |-> Library!Digit((v \div Library!Power(r, 1 - k)) % r)]
      <4>1. \A k \in 1 .. 1 : 1 - k = 0
        OBVIOUS
      <4>2. \A k \in 1 .. 1 : Library!Digit((v \div Library!Power(r, 1 - k)) % r) = Library!Digit(0)
        BY <2>1, <3>2, <3>3, <4>1
      <4> HIDE DEF s
      <4> QED
        BY <3>4, <4>2
    <3>6. IsNumeral(s, v, r)
      <4> HIDE DEF s
      <4>1. 1 \in 1 .. v + 1 /\ v < r
        BY <2>1
      <4> QED
        BY <3>2, <3>4, <3>5, <4>1 DEF IsNumeral
    <3> QED
      BY <3>1, <3>6
  <2>2. CASE v # 0
    <3> DEFINE d == Library!LowFirst(v, r)
               n == Len(d)
               s == Library!strrev(d)
    <3>1. AreDigits(d, v, r)
      BY LowFirstDigits
    <3>2. d \in Seq(Nat)
      BY <3>1 DEF AreDigits
    <3>3. Library!itoa(v, r) = s /\ Library!ece391_itoa(v, r) = s
      BY <2>2, <3>2, Reversed DEF Library!itoa, Library!ece391_itoa
    <3>4. s = [k \in 1 .. n |-> d[n + 1 - k]]
      BY <3>2, Reversed
    <3> HIDE DEF d, s
    <3>5. /\ n \in Nat /\ n \in 0 .. v /\ v < Library!Power(r, n)
          /\ (n # 0 => v >= Library!Power(r, n - 1))
          /\ \A k \in 1 .. n : d[k] = Library!Digit((v \div Library!Power(r, k - 1)) % r)
               /\ d[k] \in Nat
      <4>1. n \in Nat /\ \A k \in 1 .. n : d[k] \in Nat
        BY <3>2
      <4> QED
        BY <3>1, <4>1 DEF AreDigits
    <3> HIDE DEF n
    <3>6. n # 0
      <4>1. Library!Power(r, 0) = 1
        BY Powers
      <4> QED
        BY <2>2, <3>5, <4>1
    <3>7. ASSUME NEW k \in 1 .. n
          PROVE  n + 1 - k \in 1 .. n /\ (n + 1 - k) - 1 = n - k
      BY <3>5
    <3>8. s = [k \in 1 .. n |-> Library!Digit((v \div Library!Power(r, n - k)) % r)]
            /\ \A k \in 1 .. n : s[k] \in Nat
      <4>1. \A k \in 1 .. n : /\ d[n + 1 - k] = Library!Digit((v \div Library!Power(r, n - k)) % r)
                              /\ d[n + 1 - k] \in Nat
        BY <3>5, <3>7
      <4> QED
        BY <3>4, <4>1
    <3>9. s \in Seq(Nat) /\ Len(s) = n
      <4>1. DOMAIN s = 1 .. n /\ s = [k \in 1 .. n |-> s[k]]
        BY <3>4
      <4> QED
        BY <3>5, <3>8, <4>1
    <3>10. n \in 1 .. v + 1
      BY <3>5, <3>6
    <3>11. IsNumeral(s, v, r)
      BY <3>5, <3>6, <3>8, <3>9, <3>10 DEF IsNumeral
    <3> QED
      BY <3>3, <3>11
  <2> QED
    BY <2>1, <2>2
<1> QED
  BY <1>1, OneNumeral

-----------------------------------------------------------------------------
(* What a conversion shows *)

\* The numerals of the bases that are used.
LEMMA ItoaShown ==
  ASSUME NEW r \in {2, 10, 16}, NEW v \in Nat
  PROVE  /\ Library!itoa(v, r) = Library!Numeral(v, r)
         /\ Library!ece391_itoa(v, r) = Library!Numeral(v, r)
         /\ IsNumeral(Library!Numeral(v, r), v, r) /\ Library!Numeral(v, r) \in Seq(Nat)
<1>1. r \in Nat /\ r >= 2
  OBVIOUS
<1>2. /\ Library!itoa(v, r) = Library!Numeral(v, r)
      /\ Library!ece391_itoa(v, r) = Library!Numeral(v, r)
      /\ IsNumeral(Library!Numeral(v, r), v, r)
  BY <1>1, ItoaIs
<1> QED
  BY <1>2 DEF IsNumeral

\* There are sixteen numbers at least, those of so many digits.
LEMMA LibraryNumbers ==
  /\ UINT \in Nat /\ UINT >= 16 /\ HEX_DIGITS \in Nat \ {0}
  /\ UINT = Library!Power(16, HEX_DIGITS)
<1>1. HEX_DIGITS \in Nat /\ 1 <= HEX_DIGITS /\ 1 \in Nat /\ 16 \in Nat \ {0}
  BY StringsAssumption
<1>2. Library!Power(16, 1) = 16
  <2>1. Library!Power(16, 0 + 1) = 16 * Library!Power(16, 0) /\ Library!Power(16, 0) = 1
    BY Powers
  <2> QED
    BY <2>1
<1>3. Library!Power(16, 1) <= Library!Power(16, HEX_DIGITS)
      /\ Library!Power(16, HEX_DIGITS) \in Nat
  BY <1>1, Powers, PowersGrow
<1>4. UINT = Library!Power(16, HEX_DIGITS)
  <2>1. Power(16, HEX_DIGITS) = Library!Power(16, HEX_DIGITS)
    BY Zenon DEF Power, Library!Power
  <2> QED
    BY <2>1, StringsAssumption
<1> QED
  BY <1>1, <1>2, <1>3, <1>4

\* The zeros in front fill the number up to all its digits.
LEMMA PaddedIs ==
  ASSUME NEW v \in 0 .. UINT - 1
  PROVE  /\ Library!PaddedHex(v) = [k \in 1 .. HEX_DIGITS |->
                               Library!Digit((v \div Library!Power(16, HEX_DIGITS - k)) % 16)]
         /\ Library!PaddedHex(v) \in Seq(Nat)
<1> DEFINE s == Library!itoa(v, 16)
           n == Len(s)
           H == HEX_DIGITS
           digit(k) == Library!Digit((v \div Library!Power(16, H - k)) % 16)
           z == [k \in 1 .. H - n |-> Library!Digit(0)]
           t == z \o s
<1>1. H \in Nat /\ H # 0 /\ v \in Nat /\ v < Library!Power(16, H) /\ Library!Power(16, H) \in Nat
  BY LibraryNumbers, Powers
<1>2. IsNumeral(s, v, 16)
  BY <1>1, ItoaShown
<1> HIDE DEF s
<1>3. /\ s \in Seq(Nat) /\ n \in 1 .. v + 1 /\ v < Library!Power(16, n)
      /\ n = 1 \/ v >= Library!Power(16, n - 1)
      /\ \A k \in 1 .. n : s[k] = Library!Digit((v \div Library!Power(16, n - k)) % 16)
  BY <1>2 DEF IsNumeral
<1>4. n \in Nat /\ n # 0 /\ n <= H
  <2>1. n \in Nat /\ n # 0
    BY <1>3
  <2> HIDE DEF n
  <2>2. ASSUME n > H PROVE FALSE
    <3>1. n - 1 \in Nat /\ H <= n - 1 /\ n # 1
      BY <1>1, <2>1, <2>2
    <3>2. Library!Power(16, H) <= Library!Power(16, n - 1) /\ Library!Power(16, n - 1) \in Nat
      BY <1>1, <3>1, Powers, PowersGrow
    <3> QED
      BY <1>1, <1>3, <3>1, <3>2
  <2> QED
    BY <1>1, <2>1, <2>2
<1>5. ASSUME NEW k \in 1 .. H - n PROVE digit(k) = Library!Digit(0)
  <2> DEFINE Q == Library!Power(16, H - k)
  <2>1. H - k \in Nat /\ n <= H - k
    BY <1>1, <1>4
  <2>2. Library!Power(16, n) <= Q /\ Q \in Nat /\ Library!Power(16, n) \in Nat
    <3>1. 16 \in Nat \ {0} /\ 16 \in Nat
      OBVIOUS
    <3> HIDE DEF n, H
    <3>2. Library!Power(16, n) <= Library!Power(16, H - k) /\ Library!Power(16, H - k) \in Nat
      BY <1>4, <2>1, <3>1, Powers, PowersGrow
    <3>3. Library!Power(16, n) \in Nat
      BY <1>4, <3>1, Powers
    <3> QED
      BY <3>2, <3>3
  <2> HIDE DEF Q
  <2>3. v < Q
    BY <1>1, <1>3, <2>2
  <2>4. v \div Q = 0
    <3>1. 0 * Q + v = v
      BY <1>1, <2>2
    <3>2. (0 * Q + v) \div Q = 0
      BY <1>1, <2>2, <2>3, QuotientIs
    <3> QED
      BY <3>1, <3>2
  <2> QED
    BY <2>4 DEF Q
<1>6. z \in Seq(Nat) /\ Len(z) = H - n
  <2>1. Library!Digit(0) \in Nat /\ H - n \in Nat
    BY <1>1, <1>4 DEF Library!Digit
  <2> HIDE DEF n, H
  <2> QED
    BY <2>1
<1>7. \A k \in 1 .. H - n : z[k] = Library!Digit(0)
  OBVIOUS
<1> HIDE DEF z
<1>8. /\ t \in Seq(Nat) /\ Len(t) = H
      /\ \A k \in 1 .. H : t[k] = IF k <= H - n THEN z[k] ELSE s[k - (H - n)]
  <2>1. /\ t \in Seq(Nat) /\ Len(t) = Len(z) + Len(s)
        /\ \A k \in 1 .. Len(z) + Len(s) : t[k] = IF k <= Len(z) THEN z[k] ELSE s[k - Len(z)]
    BY <1>3, <1>6, ConcatProperties
  <2>2. Len(z) + Len(s) = H
    BY <1>1, <1>4, <1>6
  <2> HIDE DEF t
  <2> QED
    BY <1>6, <2>1, <2>2
<1>9. ASSUME NEW k \in 1 .. H PROVE t[k] = digit(k)
  <2>1. CASE k <= H - n
    <3>1. k \in 1 .. H - n
      BY <1>1, <1>4, <2>1
    <3> QED
      BY <1>5, <1>7, <1>8, <2>1, <3>1
  <2>2. CASE ~ (k <= H - n)
    <3>1. k - (H - n) \in 1 .. n /\ n - (k - (H - n)) = H - k
      BY <1>1, <1>4, <2>2
    <3>2. s[k - (H - n)] = digit(k)
      BY <1>3, <3>1
    <3> QED
      BY <1>8, <2>2, <3>2
  <2> QED
    BY <2>1, <2>2
<1>10. t = [k \in 1 .. H |-> digit(k)]
  <2>1. t = [k \in 1 .. Len(t) |-> t[k]]
    <3> HIDE DEF t
    <3> QED
      BY <1>8
  <2> HIDE DEF t, digit
  <2> QED
    BY <1>8, <1>9, <2>1
<1>11. Library!PaddedHex(v) = t
  BY DEF Library!PaddedHex, z, s
<1> QED
  BY <1>8, <1>10, <1>11

\* A value with the sign bit is shown as a minus and its magnitude.
LEMMA SignedIs ==
  ASSUME NEW v \in 0 .. UINT - 1
  PROVE  /\ Library!Signed(v) = IF v < UINT \div 2 THEN Library!Numeral(v, 10)
                        ELSE <<Library!Minus>> \o Library!Numeral(UINT - v, 10)
         /\ Library!Signed(v) \in Seq(Nat)
<1> DEFINE h == UINT \div 2
<1>1. UINT \in Nat /\ h \in Nat /\ h >= 8 /\ v \in Nat /\ v < UINT
  BY LibraryNumbers
<1> HIDE DEF h
<1>2. CASE v < h
  <2>1. ~ (v >= h)
    BY <1>1, <1>2
  <2>2. Library!Signed(v) = Library!itoa(v, 10)
    BY <2>1 DEF Library!Signed, h
  <2>3. Library!itoa(v, 10) = Library!Numeral(v, 10) /\ Library!Numeral(v, 10) \in Seq(Nat)
    BY <1>1, ItoaShown
  <2> QED
    BY <1>2, <2>2, <2>3 DEF h
<1>3. CASE ~ (v < h)
  <2> DEFINE w == UINT - v
  <2>1. v >= h /\ w \in Nat /\ w \in 0 .. UINT - 1
    BY <1>1, <1>3
  <2>2. w % UINT = w
    BY <1>1, <2>1, SmallMod
  <2> HIDE DEF w
  <2>3. Library!Signed(v) = <<Library!Minus>> \o Library!itoa(w, 10)
    BY <2>1, <2>2 DEF Library!Signed, h, w
  <2>4. Library!itoa(w, 10) = Library!Numeral(w, 10) /\ Library!Numeral(w, 10) \in Seq(Nat)
    BY <2>1, ItoaShown
  <2>5. <<Library!Minus>> \o Library!Numeral(w, 10) \in Seq(Nat)
    <3>1. <<Library!Minus>> \in Seq(Nat)
      BY DEF Library!Minus
    <3> QED
      BY <2>4, <3>1
  <2> QED
    BY <1>3, <2>3, <2>4, <2>5 DEF h, w
<1> QED
  BY <1>2, <1>3

\* A piece of a format that the memory m has the string of.
IsPiece(p, m) ==
  /\ p \in [kind : {"copy", "percent", "padded", "x", "u", "d", "c", "s"}, arg : Nat]
  /\ p.kind = "copy" => p.arg # Library!Percent
  /\ p.kind \in {"x", "padded", "u", "d"} => p.arg < UINT
  /\ p.kind = "s" => p.arg \in DOMAIN m

Letter(p) == IF p.kind = "padded" THEN Library!Specifier.x ELSE Library!Specifier[p.kind]

\* A conversion shows what its piece asks for.
LEMMA ConversionIs ==
  ASSUME NEW top, Ends(before, top), NEW p, IsPiece(p, before), p.kind \notin {"copy", "percent"}
  PROVE  /\ Library!Conversion(before, Letter(p), p.kind = "padded", p.arg) = Library!Shown(p)
         /\ Library!Shown(p) \in Seq(Nat)
<1>1. p.arg \in Nat /\ (p.kind \in {"x", "padded", "u", "d"} => p.arg \in 0 .. UINT - 1)
  BY LibraryNumbers DEF IsPiece
<1>2. p.kind \in {"padded", "x", "u", "d", "c", "s"}
  BY DEF IsPiece
<1>3. CASE p.kind = "x"
  <2>1. Library!Conversion(before, Letter(p), p.kind = "padded", p.arg) = Library!itoa(p.arg, 16)
    BY <1>3 DEF Library!Conversion, Letter, Library!Specifier
  <2>2. Library!Shown(p) = Library!Numeral(p.arg, 16)
    BY <1>3 DEF Library!Shown
  <2> QED
    BY <1>1, <2>1, <2>2, ItoaShown
<1>4. CASE p.kind = "padded"
  <2>1. Library!Conversion(before, Letter(p), p.kind = "padded", p.arg) = Library!PaddedHex(p.arg)
    BY <1>4 DEF Library!Conversion, Letter, Library!Specifier
  <2>2. Library!Shown(p)
          = [k \in 1 .. HEX_DIGITS |->
                Library!Digit((p.arg \div Library!Power(16, HEX_DIGITS - k)) % 16)]
    BY <1>4 DEF Library!Shown
  <2> QED
    BY <1>1, <1>4, <2>1, <2>2, PaddedIs
<1>5. CASE p.kind = "u"
  <2>1. Library!Conversion(before, Letter(p), p.kind = "padded", p.arg) = Library!itoa(p.arg, 10)
    BY <1>5 DEF Library!Conversion, Letter, Library!Specifier
  <2>2. Library!Shown(p) = Library!Numeral(p.arg, 10)
    BY <1>5 DEF Library!Shown
  <2> QED
    BY <1>1, <2>1, <2>2, ItoaShown
<1>6. CASE p.kind = "d"
  <2>1. Library!Conversion(before, Letter(p), p.kind = "padded", p.arg) = Library!Signed(p.arg)
    BY <1>6 DEF Library!Conversion, Letter, Library!Specifier
  <2>2. Library!Shown(p) = IF p.arg < UINT \div 2 THEN Library!Numeral(p.arg, 10)
                   ELSE <<Library!Minus>> \o Library!Numeral(UINT - p.arg, 10)
    BY <1>6 DEF Library!Shown
  <2> QED
    BY <1>1, <1>6, <2>1, <2>2, SignedIs
<1>7. CASE p.kind = "c"
  <2>1. Library!Conversion(before, Letter(p), p.kind = "padded", p.arg) = <<p.arg % 256>>
    BY <1>7 DEF Library!Conversion, Letter, Library!Specifier
  <2>2. Library!Shown(p) = <<p.arg % 256>>
    BY <1>7 DEF Library!Shown
  <2>3. p.arg % 256 \in Nat
    BY <1>1
  <2> QED
    BY <2>1, <2>2, <2>3
<1>8. CASE p.kind = "s"
  <2> DEFINE a == p.arg
             l == Library!strlen(before, a)
  <2>1. Library!Conversion(before, Letter(p), p.kind = "padded", p.arg) = Library!puts(before, a)
    BY <1>8 DEF Library!Conversion, Letter, Library!Specifier
  <2>2. Library!Shown(p) = [k \in 1 .. l |-> before[a + k - 1]]
    BY <1>8 DEF Library!Shown
  <2>3. a \in 0 .. top
    BY <1>8 DEF IsPiece, Ends
  <2>4. l \in Nat /\ a + l <= top
    BY <2>3, StringEnds
  <2>5. \A k \in 1 .. l : before[a + k - 1] \in Nat
    <3> HIDE DEF l, a
    <3>1. \A k \in 1 .. l : a + k - 1 \in 0 .. top
      BY <2>3, <2>4 DEF Ends
    <3>2. \A i \in 0 .. top : before[i] \in 0 .. 255
      BY DEF Ends
    <3> QED
      BY <3>1, <3>2, SMTT(30)
  <2>6. [k \in 1 .. l |-> before[a + k - 1]] \in Seq(Nat)
    <3> DEFINE byte(k) == before[a + k - 1]
    <3>1. \A k \in 1 .. l : byte(k) \in Nat
      BY <2>5
    <3> HIDE DEF l, byte
    <3>2. [k \in 1 .. l |-> byte(k)] \in Seq(Nat)
      BY <2>4, <3>1
    <3> QED
      BY <3>2 DEF byte
  <2> QED
    BY <2>1, <2>2, <2>6 DEF Library!puts
<1> QED
  BY <1>2, <1>3, <1>4, <1>5, <1>6, <1>7, <1>8

-----------------------------------------------------------------------------
(* A format is scanned *)

ScansTo(f, m, st, format, n) ==
  f = [k \in 0 .. n |-> IF k = 0 THEN st ELSE Library!Scan(m, f[k - 1], format[k])]

\* The states after each character of a format exist.
LEMMA ScansExist ==
  ASSUME NEW m, NEW st, NEW format \in Seq(Nat)
  PROVE  \E f : ScansTo(f, m, st, format, Len(format))
           /\ Library!Scanned(m, st, format) = f[Len(format)]
<1> DEFINE T == {n \in Nat : \E f : ScansTo(f, m, st, format, n)}
<1>1. 0 \in T
  <2> DEFINE f == [k \in 0 .. 0 |-> st]
  <2>1. f = [k \in 0 .. 0 |-> IF k = 0 THEN st ELSE Library!Scan(m, f[k - 1], format[k])]
    <3>1. \A k \in 0 .. 0 : k = 0
      OBVIOUS
    <3> QED
      BY <3>1, Zenon
  <2>2. ScansTo(f, m, st, format, 0)
    BY <2>1, Zenon DEF ScansTo
  <2> QED
    BY <2>2
<1>2. ASSUME NEW n \in Nat, n \in T PROVE n + 1 \in T
  <2>1. PICK f : ScansTo(f, m, st, format, n)
    BY <1>2
  <2> DEFINE val(g, k) == IF k = 0 THEN st ELSE Library!Scan(m, g[k - 1], format[k])
             g == [k \in 0 .. n + 1 |-> IF k = n + 1 THEN val(f, n + 1) ELSE f[k]]
  <2>2. \A k \in 0 .. n : f[k] = val(f, k)
    BY <2>1, Zenon DEF ScansTo
  <2>3. g[n + 1] = val(f, n + 1) /\ \A k \in 0 .. n : g[k] = f[k]
    <3> HIDE DEF val
    <3> QED
      OBVIOUS
  <2>4. DOMAIN g = 0 .. n + 1 /\ g = [k \in 0 .. n + 1 |-> g[k]]
    <3> HIDE DEF val
    <3> QED
      OBVIOUS
  <2> HIDE DEF g
  <2>5. ASSUME NEW k \in 0 .. n + 1 PROVE g[k] = val(g, k)
    <3>1. val(g, k) = val(f, k)
      <4>1. CASE k = 0
        BY <4>1, Zenon
      <4>2. CASE k # 0
        <5>1. k - 1 \in 0 .. n
          BY <4>2
        <5> QED
          BY <2>3, <4>2, <5>1, Zenon
      <4> QED
        BY <4>1, <4>2
    <3>2. k = n + 1 \/ k \in 0 .. n
      OBVIOUS
    <3> QED
      BY <2>2, <2>3, <3>1, <3>2, Zenon
  <2>6. g = [k \in 0 .. n + 1 |-> val(g, k)]
    <3> HIDE DEF val
    <3> QED
      BY <2>4, <2>5
  <2>7. ScansTo(g, m, st, format, n + 1)
    BY <2>6, Zenon DEF ScansTo
  <2> QED
    BY <2>7
<1> DEFINE n == Len(format)
           c == CHOOSE f : ScansTo(f, m, st, format, n)
<1>3. ScansTo(c, m, st, format, n)
  <2>1. Nat \subseteq T
    <3> HIDE DEF T
    <3> QED
      BY <1>1, <1>2, AllNat
  <2>2. n \in Nat
    OBVIOUS
  <2> QED
    BY <2>1, <2>2
<1>4. Library!Scanned(m, st, format) = c[n]
  BY Zenon DEF Library!Scanned, ScansTo
<1> QED
  BY <1>3, <1>4

\* Nothing is scanned.
LEMMA ScannedNone ==
  ASSUME NEW m, NEW st
  PROVE  Library!Scanned(m, st, << >>) = st
<1>1. << >> \in Seq(Nat) /\ Len(<< >>) = 0 /\ 0 \in 0 .. 0
  OBVIOUS
<1>2. PICK f : ScansTo(f, m, st, << >>, 0) /\ Library!Scanned(m, st, << >>) = f[0]
  BY <1>1, ScansExist
<1>3. \A k \in 0 .. 0 : f[k] = IF k = 0 THEN st ELSE Library!Scan(m, f[k - 1], << >>[k])
  BY <1>2, Zenon DEF ScansTo
<1> QED
  BY <1>1, <1>2, <1>3, Zenon

\* One character is scanned after others.
LEMMA ScannedNext ==
  ASSUME NEW m, NEW st, NEW format \in Seq(Nat), NEW ch \in Nat
  PROVE  Library!Scanned(m, st, Append(format, ch))
           = Library!Scan(m, Library!Scanned(m, st, format), ch)
<1> DEFINE n == Len(format)
           more == Append(format, ch)
<1>1. /\ n \in Nat /\ more \in Seq(Nat) /\ Len(more) = n + 1 /\ more[n + 1] = ch
      /\ \A k \in 1 .. n : more[k] = format[k]
  OBVIOUS
<1>2. PICK f : ScansTo(f, m, st, format, n) /\ Library!Scanned(m, st, format) = f[n]
  BY ScansExist
<1> HIDE DEF more
<1>3. PICK g : ScansTo(g, m, st, more, n + 1) /\ Library!Scanned(m, st, more) = g[n + 1]
  BY <1>1, ScansExist
<1> HIDE DEF n
<1>4. /\ \A k \in 0 .. n : f[k] = IF k = 0 THEN st ELSE Library!Scan(m, f[k - 1], format[k])
      /\ \A k \in 0 .. n + 1 : g[k] = IF k = 0 THEN st ELSE Library!Scan(m, g[k - 1], more[k])
  BY <1>2, <1>3, Zenon DEF ScansTo
<1> DEFINE T == {k \in Nat : k \in 0 .. n => f[k] = g[k]}
<1>5. 0 \in T
  <2>1. 0 \in 0 .. n /\ 0 \in 0 .. n + 1
    BY <1>1
  <2>2. f[0] = g[0]
    BY <1>4, <2>1, Zenon
  <2> QED
    BY <2>2
<1>6. ASSUME NEW k \in Nat, k \in T PROVE k + 1 \in T
  <2> SUFFICES ASSUME k + 1 \in 0 .. n PROVE f[k + 1] = g[k + 1]
    OBVIOUS
  <2>1. /\ k \in 0 .. n /\ k + 1 # 0 /\ (k + 1) - 1 = k /\ k + 1 \in 0 .. n + 1
        /\ k + 1 \in 1 .. n
    BY <1>1
  <2>2. /\ f[k + 1] = Library!Scan(m, f[(k + 1) - 1], format[k + 1])
        /\ g[k + 1] = Library!Scan(m, g[(k + 1) - 1], more[k + 1])
    BY <1>4, <2>1, Zenon
  <2>3. f[k] = g[k] /\ more[k + 1] = format[k + 1]
    BY <1>1, <1>6, <2>1
  <2> QED
    BY <2>1, <2>2, <2>3
<1>7. f[n] = g[n]
  <2>1. Nat \subseteq T
    <3> HIDE DEF T
    <3> QED
      BY <1>5, <1>6, AllNat
  <2>2. n \in 0 .. n
    BY <1>1
  <2> QED
    BY <1>1, <2>1, <2>2
<1>8. n + 1 \in 0 .. n + 1 /\ n + 1 # 0 /\ (n + 1) - 1 = n
  BY <1>1
<1>9. g[n + 1] = Library!Scan(m, g[(n + 1) - 1], more[n + 1])
  BY <1>4, <1>8, Zenon
<1>10. Library!Scanned(m, st, more) = Library!Scan(m, Library!Scanned(m, st, format), ch)
  BY <1>1, <1>2, <1>3, <1>7, <1>8, <1>9
<1> QED
  BY <1>10 DEF more

At(mode, rest, out) == [mode |-> mode, rest |-> rest, out |-> out]

\* What a character does, case by case.
ScanArms(m, st, ch) ==
  /\ st.mode = "text" /\ ch = Library!Percent
       => Library!Scan(m, st, ch) = [st EXCEPT !.mode = "plain"]
  /\ st.mode = "text" /\ ch # Library!Percent
       => Library!Scan(m, st, ch) = [st EXCEPT !.out = Append(st.out, ch)]
  /\ st.mode # "text" /\ ch = Library!Percent
       => Library!Scan(m, st, ch) = At("text", st.rest, Append(st.out, ch))
  /\ st.mode # "text" /\ ch = Library!Sharp
       => Library!Scan(m, st, ch) = [st EXCEPT !.mode = "alternate"]
  /\ st.mode # "text" /\ ch # Library!Percent /\ ch # Library!Sharp
     /\ ch \in Library!Range(Library!Specifier)
       => Library!Scan(m, st, ch) = At("text", Tail(st.rest), st.out \o
             Library!Conversion(m, ch, st.mode = "alternate", Head(st.rest)))

\* The cases exclude each other.
LEMMA ScanIs == ASSUME NEW m, NEW st, NEW ch PROVE ScanArms(m, st, ch)
<1> DEFINE t == st.mode = "text"
           p == ch = Library!Percent
           h == ch = Library!Sharp
           g == ch \in Library!Range(Library!Specifier)
           a1 == [st EXCEPT !.mode = "plain"]
           a2 == [st EXCEPT !.out = Append(st.out, ch)]
           a3 == [mode |-> "text", rest |-> st.rest, out |-> Append(st.out, ch)]
           a4 == [st EXCEPT !.mode = "alternate"]
           a5 == [mode |-> "text", rest |-> Tail(st.rest),
                  out |-> st.out \o Library!Conversion(m, ch, st.mode = "alternate", Head(st.rest))]
           a6 == [st EXCEPT !.mode = "text"]
<1>1. Library!Scan(m, st, ch) = CASE t /\ p -> a1 [] t /\ ~ p -> a2 [] ~ t /\ p -> a3
                          [] ~ t /\ h -> a4 [] ~ t /\ g -> a5 [] OTHER -> a6
  BY Zenon DEF Library!Scan
<1>2. (p => ~ h /\ ~ g) /\ (h => ~ g)
  <2>1. Library!Range(Library!Specifier) = {120, 117, 100, 99, 115}
    BY DEF Library!Specifier, Library!Range
  <2> QED
    BY <2>1 DEF Library!Percent, Library!Sharp
<1>3. At("text", Tail(st.rest),
         st.out \o Library!Conversion(m, ch, st.mode = "alternate", Head(st.rest))) = a5
  BY DEF At
<1>6. At("text", st.rest, Append(st.out, ch)) = a3
  BY DEF At
<1> DEFINE s == Library!Scan(m, st, ch)
           r3 == At("text", st.rest, Append(st.out, ch))
           r == At("text", Tail(st.rest),
                   st.out \o Library!Conversion(m, ch, st.mode = "alternate", Head(st.rest)))
<1> SUFFICES /\ t /\ p => s = a1
             /\ t /\ ~ p => s = a2
             /\ ~ t /\ p => s = r3
             /\ ~ t /\ h => s = a4
             /\ ~ t /\ ~ p /\ ~ h /\ g => s = r
  BY Zenon DEF ScanArms
<1> HIDE DEF t, p, h, g, a1, a2, a3, a4, a5, a6, s, r, r3
<1>4. s = CASE t /\ p -> a1 [] t /\ ~ p -> a2 [] ~ t /\ p -> a3
            [] ~ t /\ h -> a4 [] ~ t /\ g -> a5 [] OTHER -> a6
  BY <1>1 DEF s
<1>5. r = a5 /\ r3 = a3
  BY <1>3, <1>6 DEF r, r3
<1>7. t /\ p => s = a1
  BY <1>4, Zenon
<1>8. t /\ ~ p => s = a2
  BY <1>4, Zenon
<1>9. ~ t /\ p => s = a3
  BY <1>2, <1>4, Zenon
<1>10. ~ t /\ h => s = a4
  BY <1>2, <1>4, Zenon
<1>11. ~ t /\ ~ p /\ ~ h /\ g => s = a5
  BY <1>4, Zenon
<1> QED
  BY <1>5, <1>7, <1>8, <1>9, <1>10, <1>11, Zenon

\* The scan of a format has come to a state.
Reached(m, st, format, mode, rest, out) ==
  format \in Seq(Nat) /\ Library!Scanned(m, st, format) = At(mode, rest, out)

\* One character after a format.
LEMMA ReachedNext ==
  ASSUME NEW m, NEW st, NEW format, NEW mode, NEW rest, NEW out, NEW ch \in Nat,
         Reached(m, st, format, mode, rest, out)
  PROVE  /\ Append(format, ch) \in Seq(Nat)
         /\ Library!Scanned(m, st, Append(format, ch)) = Library!Scan(m, At(mode, rest, out), ch)
<1>1. format \in Seq(Nat) /\ Library!Scanned(m, st, format) = At(mode, rest, out)
  BY DEF Reached
<1>2. Append(format, ch) \in Seq(Nat)
  BY <1>1
<1>3. Library!Scanned(m, st, Append(format, ch))
        = Library!Scan(m, Library!Scanned(m, st, format), ch)
  BY <1>1, ScannedNext, Zenon
<1> QED
  BY <1>1, <1>2, <1>3, Zenon

\* A character that is no % is copied.
LEMMA CopyReached ==
  ASSUME NEW m, NEW st, NEW format, NEW rest, NEW out, NEW ch \in Nat, ch # Library!Percent,
         Reached(m, st, format, "text", rest, out)
  PROVE  Reached(m, st, Append(format, ch), "text", rest, Append(out, ch))
<1> DEFINE s == At("text", rest, out)
<1>1. /\ Append(format, ch) \in Seq(Nat)
      /\ Library!Scanned(m, st, Append(format, ch)) = Library!Scan(m, s, ch)
  BY ReachedNext
<1>2. s.mode = "text" /\ s.out = out
  BY DEF At
<1> DEFINE shown == Append(out, ch)
<1>6. [s EXCEPT !.out = shown] = At("text", rest, shown)
  <2> HIDE DEF shown
  <2> QED
    BY DEF At
<1> HIDE DEF s
<1>3. ScanArms(m, s, ch)
  BY ScanIs
<1>5. Library!Scan(m, s, ch) = [s EXCEPT !.out = Append(s.out, ch)]
  BY <1>3, <1>2, Zenon DEF ScanArms
<1> QED
  BY <1>1, <1>2, <1>5, <1>6, Zenon DEF Reached

\* A % begins a conversion.
LEMMA BeginReached ==
  ASSUME NEW m, NEW st, NEW format, NEW rest, NEW out,
         Reached(m, st, format, "text", rest, out)
  PROVE  Reached(m, st, Append(format, Library!Percent), "plain", rest, out)
<1> DEFINE s == At("text", rest, out)
<1>0. Library!Percent \in Nat
  BY DEF Library!Percent
<1>1. /\ Append(format, Library!Percent) \in Seq(Nat)
      /\ Library!Scanned(m, st, Append(format, Library!Percent))
           = Library!Scan(m, s, Library!Percent)
  BY <1>0, ReachedNext
<1>2. s.mode = "text" /\ [s EXCEPT !.mode = "plain"] = At("plain", rest, out)
  BY DEF At
<1> HIDE DEF s
<1>3. ScanArms(m, s, Library!Percent)
  BY ScanIs
<1>5. Library!Scan(m, s, Library!Percent) = [s EXCEPT !.mode = "plain"]
  BY <1>3, <1>2, Zenon DEF ScanArms
<1> QED
  BY <1>1, <1>2, <1>5, Zenon DEF Reached

\* A second one is shown.
LEMMA PercentReached ==
  ASSUME NEW m, NEW st, NEW format, NEW rest, NEW out,
         Reached(m, st, format, "plain", rest, out)
  PROVE  Reached(m, st, Append(format, Library!Percent), "text", rest, Append(out, Library!Percent))
<1> DEFINE s == At("plain", rest, out)
<1>0. Library!Percent \in Nat
  BY DEF Library!Percent
<1>1. /\ Append(format, Library!Percent) \in Seq(Nat)
      /\ Library!Scanned(m, st, Append(format, Library!Percent))
           = Library!Scan(m, s, Library!Percent)
  BY <1>0, ReachedNext
<1>2. s.mode = "plain" /\ s.rest = rest /\ s.out = out /\ "plain" # "text"
  BY DEF At
<1> HIDE DEF s
<1>4. s.mode # "text"
  BY <1>2
<1>3. ScanArms(m, s, Library!Percent)
  BY ScanIs
<1>5. Library!Scan(m, s, Library!Percent) = At("text", s.rest, Append(s.out, Library!Percent))
  BY <1>3, <1>4, Zenon DEF ScanArms
<1> QED
  BY <1>1, <1>2, <1>5, Zenon DEF Reached

\* A # asks for the alternate form.
LEMMA SharpReached ==
  ASSUME NEW m, NEW st, NEW format, NEW rest, NEW out,
         Reached(m, st, format, "plain", rest, out)
  PROVE  Reached(m, st, Append(format, Library!Sharp), "alternate", rest, out)
<1> DEFINE s == At("plain", rest, out)
<1>0. Library!Sharp \in Nat
  BY DEF Library!Sharp
<1>1. /\ Append(format, Library!Sharp) \in Seq(Nat)
      /\ Library!Scanned(m, st, Append(format, Library!Sharp)) = Library!Scan(m, s, Library!Sharp)
  BY <1>0, ReachedNext
<1>2. /\ s.mode = "plain" /\ "plain" # "text"
      /\ [s EXCEPT !.mode = "alternate"] = At("alternate", rest, out)
  BY DEF At
<1> HIDE DEF s
<1>4. s.mode # "text"
  BY <1>2
<1>3. ScanArms(m, s, Library!Sharp)
  BY ScanIs
<1>5. Library!Scan(m, s, Library!Sharp) = [s EXCEPT !.mode = "alternate"]
  BY <1>3, <1>4, Zenon DEF ScanArms
<1> QED
  BY <1>1, <1>2, <1>5, Zenon DEF Reached

\* A specifier ends the conversion, and the argument is used.
LEMMA SpecifierReached ==
  ASSUME NEW m, NEW st, NEW format, NEW mode \in {"plain", "alternate"}, NEW rest, NEW out,
         Reached(m, st, format, mode, rest, out),
         NEW ch \in Nat, ch \in Library!Range(Library!Specifier),
         ch # Library!Percent, ch # Library!Sharp
  PROVE  Reached(m, st, Append(format, ch), "text", Tail(rest),
                 out \o Library!Conversion(m, ch, mode = "alternate", Head(rest)))
<1> DEFINE s == At(mode, rest, out)
<1>1. /\ Append(format, ch) \in Seq(Nat)
      /\ Library!Scanned(m, st, Append(format, ch)) = Library!Scan(m, s, ch)
  BY ReachedNext
<1>2. s.mode = mode /\ s.rest = rest /\ s.out = out /\ mode # "text"
  BY DEF At
<1> HIDE DEF s
<1>4. s.mode # "text"
  BY <1>2
<1>3. ScanArms(m, s, ch)
  BY ScanIs
<1>5. Library!Scan(m, s, ch) = At("text", Tail(s.rest),
                          s.out \o Library!Conversion(m, ch, s.mode = "alternate", Head(s.rest)))
  BY <1>3, <1>4, Zenon DEF ScanArms
<1> QED
  BY <1>1, <1>2, <1>5, Zenon DEF Reached
\* The characters of a piece show it and use its argument.
LEMMA PieceReached ==
  ASSUME NEW top, NEW m, m = before, Ends(m, top), NEW p, IsPiece(p, m),
         NEW st, NEW format, NEW more \in Seq(Nat), NEW out \in Seq(Nat),
         Reached(m, st, format, "text", Library!Argument(p) \o more, out)
  PROVE  Reached(m, st, format \o Library!Text(p), "text", more, out \o Library!Shown(p))
<1>1. p.arg \in Nat /\ p.kind \in {"copy", "percent", "padded", "x", "u", "d", "c", "s"}
  BY DEF IsPiece
<1>2. format \in Seq(Nat)
  BY DEF Reached
<1>3. CASE p.kind = "copy"
  <2>1. /\ Library!Text(p) = <<p.arg>> /\ Library!Argument(p) = << >>
        /\ Library!Shown(p) = <<p.arg>>
        /\ p.arg # Library!Percent
    BY <1>3 DEF Library!Text, Library!Argument, Library!Shown, IsPiece
  <2>2. << >> \o more = more /\ format \o <<p.arg>> = Append(format, p.arg)
        /\ out \o <<p.arg>> = Append(out, p.arg)
    BY <1>1, <1>2
  <2>3. Reached(m, st, format, "text", more, out)
    BY <2>1, <2>2
  <2>4. Reached(m, st, Append(format, p.arg), "text", more, Append(out, p.arg))
    BY <1>1, <2>1, <2>3, CopyReached
  <2> QED
    BY <2>1, <2>2, <2>4
<1>4. CASE p.kind = "percent"
  <2>1. Library!Text(p) = <<Library!Percent, Library!Percent>> /\ Library!Argument(p) = << >>
          /\ Library!Shown(p) = <<Library!Percent>>
    BY <1>4 DEF Library!Text, Library!Argument, Library!Shown
  <2>2. /\ << >> \o more = more /\ out \o <<Library!Percent>> = Append(out, Library!Percent)
        /\ format \o <<Library!Percent, Library!Percent>>
             = Append(Append(format, Library!Percent), Library!Percent)
    BY <1>2 DEF Library!Percent
  <2>3. Reached(m, st, format, "text", more, out)
    BY <2>1, <2>2
  <2>4. Reached(m, st, Append(format, Library!Percent), "plain", more, out)
    BY <2>3, BeginReached
  <2>5. Reached(m, st, Append(Append(format, Library!Percent), Library!Percent), "text", more,
                Append(out, Library!Percent))
    BY <2>4, PercentReached
  <2> QED
    BY <2>1, <2>2, <2>5
<1>5. CASE p.kind \notin {"copy", "percent"}
  <2> DEFINE L == Letter(p)
             rest == <<p.arg>> \o more
             con(alternate) == Library!Conversion(m, L, alternate, Head(rest))
  <2>1. L \in Library!Range(Library!Specifier) /\ L \in Nat /\ L # Library!Percent
          /\ L # Library!Sharp
    <3>1. L \in {120, 117, 100, 99, 115}
      BY <1>1, <1>5 DEF Letter, Library!Specifier
    <3>2. Library!Range(Library!Specifier) = {120, 117, 100, 99, 115}
      BY DEF Library!Specifier, Library!Range
    <3> HIDE DEF L
    <3> QED
      BY <3>1, <3>2 DEF Library!Percent, Library!Sharp
  <2>2. Library!Conversion(m, L, p.kind = "padded", p.arg) = Library!Shown(p)
    BY <1>5, ConversionIs
  <2>3. Library!Argument(p) = <<p.arg>>
    BY <1>5 DEF Library!Argument
  <2>4. Head(rest) = p.arg /\ Tail(rest) = more
    BY <1>1, SMTT(30)
  <2>5. Reached(m, st, format, "text", rest, out)
    BY <2>3
  <2> HIDE DEF rest
  <2>6. Reached(m, st, Append(format, Library!Percent), "plain", rest, out)
    BY <2>5, BeginReached
  <2>7. CASE p.kind = "padded"
    <3>1. Library!Text(p) = <<Library!Percent, Library!Sharp, L>>
      BY <2>7 DEF Library!Text, Letter
    <3> HIDE DEF L
    <3>2. format \o <<Library!Percent, Library!Sharp, L>>
            = Append(Append(Append(format, Library!Percent), Library!Sharp), L)
      BY <1>2, <2>1 DEF Library!Percent, Library!Sharp
    <3>3. Reached(m, st, Append(Append(format, Library!Percent), Library!Sharp), "alternate",
                  rest, out)
      BY <2>6, SharpReached
    <3>4. Reached(m, st, Append(Append(Append(format, Library!Percent), Library!Sharp), L), "text",
                  Tail(rest),
                  out \o Library!Conversion(m, L, "alternate" = "alternate", Head(rest)))
      BY <2>1, <3>3, SpecifierReached
    <3>5. ("alternate" = "alternate") = (p.kind = "padded")
      BY <2>7
    <3> QED
      BY <2>2, <2>4, <3>1, <3>2, <3>4, <3>5
  <2>8. CASE p.kind # "padded"
    <3>1. Library!Text(p) = <<Library!Percent, L>>
      BY <1>1, <1>5, <2>8 DEF Library!Text, Letter
    <3> HIDE DEF L
    <3>2. format \o <<Library!Percent, L>> = Append(Append(format, Library!Percent), L)
      BY <1>2, <2>1 DEF Library!Percent
    <3>3. Reached(m, st, Append(Append(format, Library!Percent), L), "text",
                  Tail(rest), out \o Library!Conversion(m, L, "plain" = "alternate", Head(rest)))
      BY <2>1, <2>6, SpecifierReached
    <3>4. ("plain" = "alternate") = (p.kind = "padded")
      BY <2>8
    <3> QED
      BY <2>2, <2>4, <3>1, <3>2, <3>3, <3>4
  <2> QED
    BY <2>7, <2>8
<1> QED
  BY <1>1, <1>3, <1>4, <1>5

\* What the texts, the arguments and the looks of a piece are: sequences.
LEMMA PieceIs ==
  ASSUME NEW top, Ends(before, top), NEW p, IsPiece(p, before)
  PROVE  Library!Text(p) \in Seq(Nat) /\ Library!Argument(p) \in Seq(Nat)
           /\ Library!Shown(p) \in Seq(Nat)
<1>1. p.arg \in Nat /\ p.kind \in {"copy", "percent", "padded", "x", "u", "d", "c", "s"}
  BY DEF IsPiece
<1>2. Library!Text(p) \in Seq(Nat)
  <2>1. CASE p.kind = "copy"
    BY <1>1, <2>1 DEF Library!Text
  <2>2. CASE p.kind = "percent"
    BY <2>2 DEF Library!Text, Library!Percent
  <2>3. CASE p.kind = "padded"
    BY <2>3 DEF Library!Text, Library!Percent, Library!Sharp, Library!Specifier
  <2>4. CASE p.kind \in {"x", "u", "d", "c", "s"}
    <3>1. Library!Specifier[p.kind] \in Nat
      BY <2>4 DEF Library!Specifier
    <3>2. Library!Text(p) = <<Library!Percent, Library!Specifier[p.kind]>>
      BY <2>4 DEF Library!Text
    <3> QED
      BY <3>1, <3>2 DEF Library!Percent
  <2> QED
    BY <1>1, <2>1, <2>2, <2>3, <2>4
<1>3. Library!Argument(p) \in Seq(Nat)
  BY <1>1 DEF Library!Argument
<1>4. Library!Shown(p) \in Seq(Nat)
  <2>1. CASE p.kind = "copy"
    BY <1>1, <2>1 DEF Library!Shown
  <2>2. CASE p.kind = "percent"
    BY <2>2 DEF Library!Shown, Library!Percent
  <2>3. CASE p.kind \notin {"copy", "percent"}
    BY <2>3, ConversionIs
  <2> QED
    BY <1>1, <2>1, <2>2, <2>3
<1> QED
  BY <1>2, <1>3, <1>4

FlattensTo(f, q, n) == f = [i \in 1 .. n |-> IF i = 1 THEN q[i] ELSE f[i - 1] \o q[i]]

\* The joined beginnings of a sequence of sequences exist.
LEMMA FlattensExist ==
  ASSUME NEW q, NEW n \in Nat
  PROVE  \E f : FlattensTo(f, q, n)
<1> DEFINE T == {i \in Nat : \E f : FlattensTo(f, q, i)}
<1>1. 0 \in T
  <2> DEFINE f == [i \in 1 .. 0 |-> q]
  <2>1. f = [i \in 1 .. 0 |-> IF i = 1 THEN q[i] ELSE f[i - 1] \o q[i]]
    <3>1. \A i \in 1 .. 0 : FALSE
      OBVIOUS
    <3> QED
      BY <3>1, Zenon
  <2>2. FlattensTo(f, q, 0)
    BY <2>1, Zenon DEF FlattensTo
  <2> QED
    BY <2>2
<1>2. ASSUME NEW i \in Nat, i \in T PROVE i + 1 \in T
  <2>1. PICK f : FlattensTo(f, q, i)
    BY <1>2
  <2> DEFINE val(g, k) == IF k = 1 THEN q[k] ELSE g[k - 1] \o q[k]
             g == [k \in 1 .. i + 1 |-> IF k = i + 1 THEN val(f, i + 1) ELSE f[k]]
  <2>2. \A k \in 1 .. i : f[k] = val(f, k)
    BY <2>1, Zenon DEF FlattensTo
  <2>3. g[i + 1] = val(f, i + 1) /\ \A k \in 1 .. i : g[k] = f[k]
    <3> HIDE DEF val
    <3> QED
      OBVIOUS
  <2>4. DOMAIN g = 1 .. i + 1 /\ g = [k \in 1 .. i + 1 |-> g[k]]
    <3> HIDE DEF val
    <3> QED
      OBVIOUS
  <2> HIDE DEF g
  <2>5. ASSUME NEW k \in 1 .. i + 1 PROVE g[k] = val(g, k)
    <3>1. val(g, k) = val(f, k)
      <4>1. CASE k = 1
        BY <4>1, Zenon
      <4>2. CASE k # 1
        <5>1. k - 1 \in 1 .. i
          BY <4>2
        <5> QED
          BY <2>3, <4>2, <5>1, Zenon
      <4> QED
        BY <4>1, <4>2
    <3>2. k = i + 1 \/ k \in 1 .. i
      OBVIOUS
    <3> QED
      BY <2>2, <2>3, <3>1, <3>2, Zenon
  <2>6. g = [k \in 1 .. i + 1 |-> val(g, k)]
    <3> HIDE DEF val
    <3> QED
      BY <2>4, <2>5
  <2>7. FlattensTo(g, q, i + 1)
    BY <2>6, Zenon DEF FlattensTo
  <2> QED
    BY <2>7
<1>3. Nat \subseteq T
  <2> HIDE DEF T
  <2> QED
    BY <1>1, <1>2, AllNat
<1> QED
  BY <1>3

\* The beginnings of a flattened sequence of sequences, one more at a time.
Begins(f, q) ==
  /\ \A k \in 0 .. Len(q) : f[k] \in Seq(Nat)
  /\ f[0] = << >>
  /\ \A k \in 1 .. Len(q) : f[k] = f[k - 1] \o q[k]
  /\ Library!FlattenSeq(q) = f[Len(q)]

\* They exist.
LEMMA FlattensStepwise ==
  ASSUME NEW q, NEW n \in Nat, q = [k \in 1 .. n |-> q[k]], \A k \in 1 .. n : q[k] \in Seq(Nat)
  PROVE  Len(q) = n /\ \E f : Begins(f, q)
<1> DEFINE c == CHOOSE g : FlattensTo(g, q, n)
           f == [k \in 0 .. n |-> IF k = 0 THEN << >> ELSE c[k]]
<1>1. FlattensTo(c, q, n)
  BY FlattensExist
<1>2. Len(q) = n /\ (n = 0 => q = << >>)
  OBVIOUS
<1>3. Library!FlattenSeq(q) = IF n = 0 THEN q ELSE c[n]
  <2>1. Library!FlattenSeq(q)
          = IF Len(q) = 0 THEN q ELSE (CHOOSE g : FlattensTo(g, q, Len(q)))[Len(q)]
    BY Zenon DEF Library!FlattenSeq, FlattensTo
  <2> QED
    BY <1>2, <2>1, Zenon
<1> HIDE DEF c
<1>4. \A k \in 1 .. n : c[k] = IF k = 1 THEN q[k] ELSE c[k - 1] \o q[k]
  BY <1>1, Zenon DEF FlattensTo
<1>5. f[0] = << >> /\ \A k \in 1 .. n : f[k] = c[k]
  OBVIOUS
<1> HIDE DEF f
<1>6. ASSUME NEW k \in 1 .. n, f[k - 1] \in Seq(Nat)
      PROVE  f[k] = f[k - 1] \o q[k] /\ f[k] \in Seq(Nat)
  <2>0. q[k] \in Seq(Nat)
    OBVIOUS
  <2>1. CASE k = 1
    <3>1. c[k] = q[k]
      BY <1>4, <2>1, Zenon
    <3>2. f[k - 1] = << >> /\ << >> \o q[k] = q[k]
      BY <1>5, <2>0, <2>1
    <3>3. f[k] = c[k]
      BY <1>5
    <3> QED
      BY <2>0, <3>1, <3>2, <3>3
  <2>2. CASE k # 1
    <3>1. c[k] = c[k - 1] \o q[k]
      BY <1>4, <2>2, Zenon
    <3>2. k - 1 \in 1 .. n
      BY <2>2
    <3>3. f[k - 1] = c[k - 1] /\ f[k] = c[k]
      BY <1>5, <3>2
    <3> QED
      BY <1>6, <2>0, <3>1, <3>3
  <2> QED
    BY <2>1, <2>2
<1> DEFINE T == {k \in Nat : k \in 0 .. n => f[k] \in Seq(Nat)}
<1>7. 0 \in T
  <2>1. f[0] \in Seq(Nat)
    <3>1. << >> \in Seq(Nat)
      OBVIOUS
    <3> QED
      BY <1>5, <3>1, Zenon
  <2> QED
    BY <2>1
<1>8. ASSUME NEW k \in Nat, k \in T PROVE k + 1 \in T
  <2> SUFFICES ASSUME k + 1 \in 0 .. n PROVE f[k + 1] \in Seq(Nat)
    OBVIOUS
  <2>1. k + 1 \in 1 .. n /\ (k + 1) - 1 = k /\ k \in 0 .. n
    OBVIOUS
  <2>2. f[(k + 1) - 1] \in Seq(Nat)
    BY <1>8, <2>1
  <2> QED
    BY <1>6, <2>1, <2>2
<1>9. \A k \in 0 .. n : f[k] \in Seq(Nat)
  <2>1. Nat \subseteq T
    <3> HIDE DEF T
    <3> QED
      BY <1>7, <1>8, AllNat
  <2> QED
    BY <2>1
<1>10. \A k \in 1 .. n : f[k] = f[k - 1] \o q[k]
  <2>1. \A k \in 1 .. n : k - 1 \in 0 .. n
    OBVIOUS
  <2> QED
    BY <1>6, <1>9, <2>1
<1>11. Library!FlattenSeq(q) = f[n]
  <2>1. CASE n = 0
    BY <1>2, <1>3, <1>5, <2>1
  <2>2. CASE n # 0
    <3>1. n \in 1 .. n
      BY <2>2
    <3> QED
      BY <1>3, <1>5, <2>2, <3>1
  <2> QED
    BY <2>1, <2>2
<1> QED
  BY <1>2, <1>5, <1>9, <1>10, <1>11, Zenon DEF Begins


\* Joining strings is associative.
LEMMA Associative ==
  ASSUME NEW a \in Seq(Nat), NEW b \in Seq(Nat), NEW c \in Seq(Nat)
  PROVE  (a \o b) \o c = a \o (b \o c) /\ b \o c \in Seq(Nat)
<1>1. (a \o b) \o c = a \o (b \o c)
  BY ConcatAssociative, SMTT(30)
<1>2. b \o c \in Seq(Nat)
  BY ConcatProperties
<1> QED
  BY <1>1, <1>2

\* What a format, its arguments and its looks are made of.
FormatOf(pieces) == Library!FlattenSeq([k \in DOMAIN pieces |-> Library!Text(pieces[k])])
ArgumentsOf(pieces) == Library!FlattenSeq([k \in DOMAIN pieces |-> Library!Argument(pieces[k])])
LooksOf(pieces) == Library!FlattenSeq([k \in DOMAIN pieces |-> Library!Shown(pieces[k])])

\* The conversions show their pieces in order, each with its own argument.
LEMMA PrintfIs ==
  ASSUME NEW top, NEW m, m = before, Ends(m, top),
         NEW pieces, NEW n \in Nat, pieces = [k \in 1 .. n |-> pieces[k]],
         \A k \in 1 .. n : IsPiece(pieces[k], m)
  PROVE  Library!printf(m, FormatOf(pieces), ArgumentsOf(pieces)) = LooksOf(pieces)
<1> DEFINE t == [k \in 1 .. n |-> Library!Text(pieces[k])]
           a == [k \in 1 .. n |-> Library!Argument(pieces[k])]
           s == [k \in 1 .. n |-> Library!Shown(pieces[k])]
<1>1. DOMAIN pieces = 1 .. n
  OBVIOUS
<1>2. \A k \in 1 .. n : Library!Text(pieces[k]) \in Seq(Nat)
        /\ Library!Argument(pieces[k]) \in Seq(Nat)
                        /\ Library!Shown(pieces[k]) \in Seq(Nat)
  BY PieceIs
<1>3. /\ t = [k \in 1 .. n |-> t[k]] /\ a = [k \in 1 .. n |-> a[k]] /\ s = [k \in 1 .. n |-> s[k]]
      /\ \A k \in 1 .. n : t[k] = Library!Text(pieces[k]) /\ a[k] = Library!Argument(pieces[k])
                           /\ s[k] = Library!Shown(pieces[k])
  BY Zenon
<1>4. FormatOf(pieces) = Library!FlattenSeq(t) /\ ArgumentsOf(pieces) = Library!FlattenSeq(a)
      /\ LooksOf(pieces) = Library!FlattenSeq(s)
  BY <1>1, Zenon DEF FormatOf, ArgumentsOf, LooksOf
<1> HIDE DEF t, a, s
<1>5. \A k \in 1 .. n : t[k] \in Seq(Nat) /\ a[k] \in Seq(Nat) /\ s[k] \in Seq(Nat)
  BY <1>2, <1>3
<1>6. Len(t) = n /\ \E f : Begins(f, t)
  BY <1>3, <1>5, FlattensStepwise
<1>7. Len(a) = n /\ \E f : Begins(f, a)
  BY <1>3, <1>5, FlattensStepwise
<1>8. Len(s) = n /\ \E f : Begins(f, s)
  BY <1>3, <1>5, FlattensStepwise
<1>9. PICK tf, af, sf : Begins(tf, t) /\ Begins(af, a) /\ Begins(sf, s)
  BY <1>6, <1>7, <1>8, Zenon
<1>10. /\ \A k \in 0 .. n : tf[k] \in Seq(Nat) /\ tf[0] = << >>
       /\ \A k \in 1 .. n : tf[k] = tf[k - 1] \o t[k]
       /\ FormatOf(pieces) = tf[n]
  BY <1>4, <1>6, <1>9, Zenon DEF Begins
<1>17. /\ \A k \in 0 .. n : af[k] \in Seq(Nat) /\ af[0] = << >>
       /\ \A k \in 1 .. n : af[k] = af[k - 1] \o a[k]
       /\ ArgumentsOf(pieces) = af[n]
  BY <1>4, <1>7, <1>9, Zenon DEF Begins
<1>18. /\ \A k \in 0 .. n : sf[k] \in Seq(Nat) /\ sf[0] = << >>
       /\ \A k \in 1 .. n : sf[k] = sf[k - 1] \o s[k]
       /\ LooksOf(pieces) = sf[n]
  BY <1>4, <1>8, <1>9, Zenon DEF Begins
<1> DEFINE given == af[n]
           st == At("text", given, << >>)
           InStep(k) == \A more \in Seq(Nat) :
                           given = af[k] \o more => Reached(m, st, tf[k], "text", more, sf[k])
           T == {k \in Nat : k \in 0 .. n => InStep(k)}
<1>11. n \in 0 .. n /\ 0 \in 0 .. n /\ given \in Seq(Nat)
  BY <1>17
<1>12. 0 \in T
  <2> SUFFICES ASSUME NEW more \in Seq(Nat), given = af[0] \o more
               PROVE  Reached(m, st, tf[0], "text", more, sf[0])
    OBVIOUS
  <2>1. more = given
    <3>1. << >> \o more = more
      OBVIOUS
    <3> QED
      BY <1>11, <1>17, <3>1
  <2>2. Library!Scanned(m, st, << >>) = At("text", more, << >>)
    BY <2>1, ScannedNone
  <2>3. << >> \in Seq(Nat)
    OBVIOUS
  <2> QED
    BY <1>10, <1>11, <1>18, <2>2, <2>3, Zenon DEF Reached
<1>13. ASSUME NEW k \in Nat, k \in T PROVE k + 1 \in T
  <2> SUFFICES ASSUME k + 1 \in 0 .. n PROVE InStep(k + 1)
    <3> HIDE DEF InStep
    <3> QED
      OBVIOUS
  <2>1. k + 1 \in 1 .. n /\ (k + 1) - 1 = k /\ k \in 0 .. n
    <3> HIDE DEF T, InStep
    <3> QED
      OBVIOUS
  <2>7. InStep(k)
    <3> HIDE DEF InStep
    <3> QED
      BY <1>13, <2>1
  <2> SUFFICES ASSUME NEW more \in Seq(Nat), given = af[k + 1] \o more
               PROVE  Reached(m, st, tf[k + 1], "text", more, sf[k + 1])
    BY Zenon
  <2> HIDE DEF st, given
  <2> DEFINE p == pieces[k + 1]
             b == af[k]
             x == Library!Argument(p)
  <2>2. /\ tf[k + 1] = tf[(k + 1) - 1] \o t[k + 1] /\ af[k + 1] = af[(k + 1) - 1] \o a[k + 1]
        /\ sf[k + 1] = sf[(k + 1) - 1] \o s[k + 1]
    BY <1>10, <1>17, <1>18, <2>1, Zenon
  <2>10. t[k + 1] = Library!Text(p) /\ a[k + 1] = x /\ s[k + 1] = Library!Shown(p)
    BY <1>3, <2>1, Zenon
  <2>3. tf[k + 1] = tf[k] \o Library!Text(p) /\ af[k + 1] = b \o x
          /\ sf[k + 1] = sf[k] \o Library!Shown(p)
    BY <2>1, <2>2, <2>10
  <2>4. b \in Seq(Nat) /\ x \in Seq(Nat) /\ sf[k] \in Seq(Nat) /\ IsPiece(p, m)
    BY <1>2, <1>17, <1>18, <2>1, Zenon
  <2> HIDE DEF p, b, x
  <2>5. (b \o x) \o more = b \o (x \o more) /\ x \o more \in Seq(Nat)
    BY <2>4, Associative, ZenonT(60)
  <2>6. given = b \o (x \o more)
    BY <2>3, <2>5
  <2>8. Reached(m, st, tf[k], "text", x \o more, sf[k])
    BY <2>5, <2>6, <2>7, Zenon DEF b
  <2>9. Reached(m, st, tf[k] \o Library!Text(p), "text", more, sf[k] \o Library!Shown(p))
    BY <2>4, <2>8, PieceReached DEF x
  <2> QED
    BY <2>3, <2>9
<1>14. Reached(m, st, tf[n], "text", << >>, sf[n])
  <2>1. Nat \subseteq T
    <3> HIDE DEF T
    <3> QED
      BY <1>12, <1>13, AllNat
  <2>2. InStep(n)
    BY <1>11, <2>1
  <2>3. << >> \in Seq(Nat) /\ given = given \o << >>
    <3> HIDE DEF given
    <3> QED
      BY <1>11
  <2> QED
    BY <2>2, <2>3, Zenon
<1>15. Library!printf(m, tf[n], given) = Library!Scanned(m, st, tf[n]).out
  BY Zenon DEF Library!printf, At
<1>16. Library!Scanned(m, st, tf[n]).out = sf[n]
  <2>1. At("text", << >>, sf[n]).out = sf[n]
    BY DEF At
  <2>2. Library!Scanned(m, st, tf[n]) = At("text", << >>, sf[n])
    BY <1>14, Zenon DEF Reached
  <2> QED
    BY <2>1, <2>2, Zenon
<1> QED
  BY <1>10, <1>15, <1>16, <1>17, <1>18, Zenon

-----------------------------------------------------------------------------
(* The calls *)

\* What every call leaves: what it was told to write, what it tells of strings,
\* and what it shows.
LibraryInv ==
  /\ Library!TypeOK /\ Library!WritesExactly /\ Library!ComparesAsStrings
  /\ Library!FormatsInOrder

\* A memory is bytes, with a NUL at the top.
LEMMA MemoryEnds ==
  ASSUME NEW m, m \in Memories
  PROVE  \E top \in Nat : m \in [0 .. top -> 0 .. 255] /\ m[top] = 0
<1> DEFINE top == Library!Cardinality(DOMAIN m) - 1
<1>1. top \in Nat /\ m \in [0 .. top -> 0 .. 255] /\ m[top] = 0
  BY InstancesAssumption, Zenon DEF Library!MemoriesWellFormed
<1> HIDE DEF top
<1> QED
  BY <1>1

\* Before a call nothing has been written, and the memory is one of the memories.
LEMMA BeforeCall ==
  ASSUME Library!TypeOK, call = Library!Idle
  PROVE  \E top \in Nat : /\ Ends(before, top) /\ IsMemory(before, top + 1) /\ mem = before
                         /\ Library!Addresses = 0 .. top /\ Library!Size = top + 1
<1>1. PICK top \in Nat : before \in [0 .. top -> 0 .. 255] /\ before[top] = 0
  BY MemoryEnds DEF Library!TypeOK
<1>2. DOMAIN before = 0 .. top /\ top + 1 - 1 = top
  BY <1>1
<1>3. Cardinality(0 .. top) = top + 1
  BY FS_Interval
<1>4. Ends(before, top) /\ IsMemory(before, top + 1)
  BY <1>1, <1>2, SMTT(30) DEF Ends, IsMemory
<1>5. mem = before /\ Library!Addresses = 0 .. top /\ Library!Size = top + 1
  <2>1. mem = before
    BY DEF Library!TypeOK
  <2>2. Library!Addresses = 0 .. top
    BY <1>2 DEF Library!Addresses
  <2>3. Library!Size = Cardinality(Library!Addresses)
    BY Zenon DEF Library!Size, Cardinality, Library!Cardinality
  <2> QED
    BY <1>3, <2>1, <2>2, <2>3
<1> QED
  BY <1>4, <1>5

\* A call leaves a memory of bytes.
LEMMA CallTyped ==
  ASSUME Library!TypeOK, NEW c, NEW x, NEW r, Library!Call(c, x, r),
         NEW top \in Nat, Library!Addresses = 0 .. top, IsMemory(x, top + 1),
         c.name # "none"
  PROVE  Library!TypeOK'
<1>1. call' = c /\ mem' = x /\ before' = before
  BY DEF Library!Call
<1>2. call' # Library!Idle
  <2>1. Library!Idle.name = "none"
    BY DEF Library!Idle
  <2> QED
    BY <1>1, <2>1
<1>3. mem' \in [0 .. top -> 0 .. 255]
  BY <1>1 DEF IsMemory
<1> QED
  BY <1>1, <1>2, <1>3 DEF Library!TypeOK, Library!Addresses

\* A call that moves n bytes keeps the invariant.
LEMMA MoveKeeps ==
  ASSUME LibraryInv, NEW name \in {"memcpy", "memmove", "strcpy"}, NEW d, NEW s, NEW n, NEW x,
         NEW r, Library!Call([name |-> name, d |-> d, s |-> s, n |-> n], x, r),
         NEW top \in Nat, Library!Addresses = 0 .. top, IsMemory(before, top + 1),
         d \in Nat, s \in Nat, n \in Nat, d + n <= top + 1, s + n <= top + 1,
         x = Moved(before, d, s, n)
  PROVE  LibraryInv'
<1> DEFINE c == [name |-> name, d |-> d, s |-> s, n |-> n]
<1>1. c.name = name /\ c.d = d /\ c.s = s /\ c.n = n
  OBVIOUS
<1>2. call' = c /\ mem' = x /\ before' = before
  BY DEF Library!Call
<1> HIDE DEF c
<1>3. IsMemory(x, top + 1)
  <2>1. \A k \in d .. d + n - 1 : s + k - d \in 0 .. top
    OBVIOUS
  <2>2. before \in [0 .. top -> 0 .. 255]
    BY SMTT(30) DEF IsMemory
  <2>3. x \in [0 .. top -> 0 .. 255]
    BY <2>1, <2>2, ZenonT(60) DEF Moved
  <2> QED
    BY <2>3 DEF IsMemory
<1>4. Library!TypeOK'
  <2>1. Library!Call(c, x, r)
    BY DEF c
  <2>2. c.name # "none"
    BY <1>1
  <2> QED
    BY <1>3, <2>1, <2>2, CallTyped DEF LibraryInv
<1>5. Library!WritesExactly'
  <2>1. x = [k \in 0 .. top |-> IF k \in d .. d + n - 1 THEN before[s + k - d] ELSE before[k]]
    BY DEF Moved, IsMemory
  <2>2. Library!Addresses' = 0 .. top
    BY <1>2 DEF Library!Addresses
  <2> QED
    BY <1>1, <1>2, <2>1, <2>2 DEF Library!WritesExactly
<1>6. Library!ComparesAsStrings'
  BY <1>1, <1>2 DEF Library!ComparesAsStrings
<1>7. Library!FormatsInOrder'
  BY <1>1, <1>2 DEF Library!FormatsInOrder
<1> QED
  BY <1>4, <1>5, <1>6, <1>7 DEF LibraryInv

\* What a format looks like depends on the memory only.
LEMMA ShownAgain ==
  ASSUME before' = before
  PROVE  \A q : LooksOf(q)' = LooksOf(q)
<1>1. \A p : Library!Shown(p)' = Library!Shown(p)
  BY Zenon DEF Library!Shown
<1> QED
  BY <1>1, Zenon DEF LooksOf

\* What the property says of printf and itoa.
FormatsShown ==
  /\ call.name = "printf" => result = LooksOf(call.pieces)
  /\ call.name = "itoa" => result = Library!Numeral(call.value, call.radix)

\* A call that leaves the memory alone and shows what it should keeps the invariant.
LEMMA PrintKeeps ==
  ASSUME LibraryInv, call = Library!Idle, NEW c, NEW r, Library!Call(c, mem, r),
         \/ c.name = "printf" /\ r = LooksOf(c.pieces)
         \/ c.name = "itoa" /\ r = Library!Numeral(c.value, c.radix)
  PROVE  LibraryInv'
<1>1. PICK top \in Nat : /\ IsMemory(before, top + 1) /\ mem = before
                        /\ Library!Addresses = 0 .. top
  BY BeforeCall DEF LibraryInv
<1>2. /\ call' = c /\ mem' = mem /\ before' = before /\ result' = r
      /\ c.name \in {"printf", "itoa"} /\ c.name # "none"
  BY DEF Library!Call
<1>3. Library!TypeOK'
  BY <1>1, <1>2, CallTyped DEF LibraryInv
<1>4. Library!WritesExactly' /\ Library!ComparesAsStrings'
  BY <1>2 DEF Library!WritesExactly, Library!ComparesAsStrings
<1>5. Library!FormatsInOrder'
  <2>1. \A q : LooksOf(q)' = LooksOf(q)
    BY <1>2, ShownAgain
  <2>2. c.name = "printf" => r = LooksOf(c.pieces)
    OBVIOUS
  <2>3. c.name = "itoa" => r = Library!Numeral(c.value, c.radix)
    OBVIOUS
  <2>4. FormatsShown'
    BY <1>2, <2>1, <2>2, <2>3, Zenon DEF FormatsShown, Library!Numeral
  <2> QED
    BY <2>4 DEF Library!FormatsInOrder, FormatsShown, LooksOf
<1> QED
  BY <1>3, <1>4, <1>5 DEF LibraryInv

\* So does printf, of a format that its memory has the strings of.
LEMMA PrintfKeeps ==
  ASSUME LibraryInv, call = Library!Idle, NEW pieces \in Formats, Library!print(pieces)
  PROVE  LibraryInv'
<1>1. PICK top \in Nat : Ends(before, top) /\ mem = before /\ Library!Addresses = 0 .. top
  BY BeforeCall DEF LibraryInv
<1> DEFINE P == [kind : {"copy", "percent", "padded", "x", "u", "d", "c", "s"}, arg : Nat]
           n == Len(pieces)
<1>2. /\ pieces \in Seq(P)
      /\ \A p \in Library!Range(pieces) :
            /\ p.kind = "copy" => p.arg # Library!Percent
            /\ p.kind \in {"x", "padded", "u", "d"} => p.arg < UINT
            /\ p.kind = "s" => \A m \in Memories : p.arg \in DOMAIN m
  BY InstancesAssumption, Zenon DEF Library!FormatsWellFormed
<1> HIDE DEF P
<1>3. /\ n \in Nat /\ pieces = [k \in 1 .. n |-> pieces[k]]
      /\ \A k \in 1 .. n : pieces[k] \in P /\ k \in DOMAIN pieces
  BY <1>2
<1>4. before \in Memories
  BY DEF LibraryInv, Library!TypeOK
<1>5. ASSUME NEW k \in 1 .. n PROVE IsPiece(pieces[k], before)
  <2> DEFINE p == pieces[k]
  <2>1. p \in P /\ k \in DOMAIN pieces
    BY <1>3
  <2>2. p \in Library!Range(pieces)
    BY <2>1 DEF Library!Range
  <2> HIDE DEF p
  <2>3. /\ p.kind = "copy" => p.arg # Library!Percent
        /\ p.kind \in {"x", "padded", "u", "d"} => p.arg < UINT
        /\ p.kind = "s" => p.arg \in DOMAIN before
    BY <1>2, <1>4, <2>2
  <2>4. IsPiece(p, before)
    BY <2>1, <2>3 DEF IsPiece, P
  <2> QED
    BY <2>4 DEF p
<1> HIDE DEF n
<1> DEFINE r == Library!printf(before, FormatOf(pieces), ArgumentsOf(pieces))
           c == [name |-> "printf", pieces |-> pieces]
<1>6. r = LooksOf(pieces)
  BY <1>1, <1>3, <1>5, PrintfIs
<1>7. Library!Call(c, mem, r)
  BY <1>1, Zenon DEF Library!print, FormatOf, ArgumentsOf
<1>8. c.name = "printf" /\ c.pieces = pieces
  OBVIOUS
<1> HIDE DEF r, c
<1> QED
  BY <1>6, <1>7, <1>8, PrintKeeps

\* And itoa.
LEMMA ItoaKeeps ==
  ASSUME LibraryInv, call = Library!Idle, NEW value \in 0 .. UINT - 1, NEW radix \in {2, 10},
         Library!number(value, radix)
  PROVE  LibraryInv'
<1> DEFINE c == [name |-> "itoa", value |-> value, radix |-> radix]
           r == Library!ece391_itoa(value, radix)
<1>1. Library!Call(c, mem, r)
  BY Zenon DEF Library!number
<1>2. c.name = "itoa" /\ c.value = value /\ c.radix = radix
  OBVIOUS
<1>3. r = Library!Numeral(value, radix)
  <2>1. value \in Nat /\ radix \in {2, 10, 16}
    BY LibraryNumbers
  <2> QED
    BY <2>1, ItoaShown
<1> HIDE DEF c, r
<1> QED
  BY <1>1, <1>2, <1>3, PrintKeeps

\* strncpy keeps it.
LEMMA StrncpyKeeps ==
  ASSUME LibraryInv, NEW d, NEW s, NEW n, NEW x, NEW r,
         Library!Call([name |-> "strncpy", d |-> d, s |-> s, n |-> n], x, r),
         NEW top, top \in Nat, Library!Addresses = 0 .. top, Ends(before, top),
         Movable(top + 1, d, s, n), s \in 0 .. top,
         x = Library!strncpy(before, d, s, n)
  PROVE  LibraryInv'
<1> DEFINE c == [name |-> "strncpy", d |-> d, s |-> s, n |-> n]
           Cut(k) == CASE k \notin d .. d + n - 1 -> before[k]
                       [] OTHER -> IF \E j \in s .. s + k - d : before[j] = 0 THEN 0
                                   ELSE before[s + k - d]
<1>1. c.name = "strncpy" /\ c.d = d /\ c.s = s /\ c.n = n
  OBVIOUS
<1>2. call' = c /\ mem' = x /\ before' = before
  BY DEF Library!Call
<1> HIDE DEF c
<1>3. x = [k \in 0 .. top |-> Cut(k)]
  <2>1. x = [k \in DOMAIN before |-> Cut(k)]
    BY StrncpyMoves
  <2>2. DOMAIN before = 0 .. top
    BY DEF Ends
  <2> QED
    BY <2>1, <2>2
<1>4. IsMemory(x, top + 1)
  <2>1. ASSUME NEW k \in 0 .. top PROVE Cut(k) \in 0 .. 255
    <3>1. CASE k \notin d .. d + n - 1
      BY <3>1 DEF Ends
    <3>2. CASE k \in d .. d + n - 1
      <4>1. s + k - d \in 0 .. top
        BY <3>2 DEF Movable
      <4>2. before[s + k - d] \in 0 .. 255
        BY <4>1 DEF Ends
      <4> QED
        BY <3>2, <4>2
    <3> QED
      BY <3>1, <3>2
  <2> HIDE DEF Cut
  <2>2. x \in [0 .. top -> 0 .. 255]
    BY <1>3, <2>1
  <2> QED
    BY <2>2, SMTT(30) DEF IsMemory
<1>5. Library!TypeOK'
  <2>1. Library!Call(c, x, r)
    BY DEF c
  <2>2. c.name # "none"
    BY <1>1
  <2> QED
    BY <1>4, <2>1, <2>2, CallTyped DEF LibraryInv
<1>6. Library!WritesExactly'
  <2>1. Library!Addresses' = 0 .. top
    BY <1>2 DEF Library!Addresses
  <2> QED
    BY <1>1, <1>2, <1>3, <2>1 DEF Library!WritesExactly
<1>7. Library!ComparesAsStrings'
  BY <1>1, <1>2 DEF Library!ComparesAsStrings
<1>8. Library!FormatsInOrder'
  BY <1>1, <1>2 DEF Library!FormatsInOrder
<1> QED
  BY <1>5, <1>6, <1>7, <1>8 DEF LibraryInv

\* So does a call that copies n bytes.
LEMMA CopyKeeps ==
  ASSUME LibraryInv, call = Library!Idle, NEW d \in Library!Addresses,
         NEW s \in Library!Addresses, NEW n \in 0 .. Library!Size, Library!copy(d, s, n)
  PROVE  LibraryInv'
<1>1. PICK top \in Nat : /\ Ends(before, top) /\ IsMemory(before, top + 1) /\ mem = before
                        /\ Library!Addresses = 0 .. top /\ Library!Size = top + 1
  BY BeforeCall DEF LibraryInv
<1> DEFINE c(name) == [name |-> name, d |-> d, s |-> s, n |-> n]
           size == top + 1
<1>2. /\ d + n <= size /\ s + n <= size
      /\ \/ Library!Call(c("memmove"), Library!memmove(before, d, s, n), << >>)
         \/ /\ Library!Proper(d, s, n)
            /\ Library!Call(c("memcpy"), Library!memcpy(before, d, s, n), << >>)
         \/ /\ Library!Proper(d, s, n)
            /\ Library!Call(c("strncpy"), Library!strncpy(before, d, s, n), << >>)
  BY <1>1, Zenon DEF Library!copy
<1>3. d \in Nat /\ s \in Nat /\ n \in Nat /\ s \in 0 .. top /\ size \in Nat
  BY <1>1
<1>4. Library!Proper(d, s, n) => Movable(size, d, s, n)
  BY <1>2, <1>3 DEF Library!Proper, Movable
<1> HIDE DEF size
<1>5. IsMemory(before, size)
  BY <1>1 DEF size
<1>6. CASE Library!Call(c("memmove"), Library!memmove(before, d, s, n), << >>)
  <2>1. Library!memmove(before, d, s, n) = Moved(before, d, s, n)
    BY <1>2, <1>3, <1>5, MemmoveMoves
  <2> DEFINE x == Library!memmove(before, d, s, n)
  <2> HIDE DEF x
  <2>2. Library!Call(c("memmove"), x, << >>) /\ x = Moved(before, d, s, n)
    BY <1>6, <2>1 DEF x
  <2> QED
    BY <1>1, <1>2, <1>3, <2>2, MoveKeeps DEF size
<1>7. CASE /\ Library!Proper(d, s, n)
           /\ Library!Call(c("memcpy"), Library!memcpy(before, d, s, n), << >>)
  <2>1. Library!memcpy(before, d, s, n) = Moved(before, d, s, n)
    BY <1>4, <1>5, <1>7, MemcpyMoves
  <2> DEFINE x == Library!memcpy(before, d, s, n)
  <2> HIDE DEF x
  <2>2. Library!Call(c("memcpy"), x, << >>) /\ x = Moved(before, d, s, n)
    BY <1>7, <2>1 DEF x
  <2> QED
    BY <1>1, <1>2, <1>3, <2>2, MoveKeeps DEF size
<1>8. CASE /\ Library!Proper(d, s, n)
           /\ Library!Call(c("strncpy"), Library!strncpy(before, d, s, n), << >>)
  BY <1>1, <1>3, <1>4, <1>8, StrncpyKeeps DEF size
<1> QED
  BY <1>2, <1>6, <1>7, <1>8

\* And one that copies a string.
LEMMA CopyStringKeeps ==
  ASSUME LibraryInv, call = Library!Idle, NEW d \in Library!Addresses,
         NEW s \in Library!Addresses, Library!copy_string(d, s)
  PROVE  LibraryInv'
<1>1. PICK top \in Nat : /\ Ends(before, top) /\ IsMemory(before, top + 1) /\ mem = before
                        /\ Library!Addresses = 0 .. top /\ Library!Size = top + 1
  BY BeforeCall DEF LibraryInv
<1> DEFINE l == Library!strlen(before, s) + 1
           c == [name |-> "strcpy", d |-> d, s |-> s, n |-> l]
           X == {Library!strcpy(before, d, s), Library!ece391_strcpy(before, d, s)}
<1>2. /\ Library!Proper(d, s, l) /\ d + l <= top + 1
      /\ \E x \in X : Library!Call(c, x, << >>)
  BY <1>1, Zenon DEF Library!copy_string
<1>3. d \in Nat /\ s \in Nat /\ s \in 0 .. top
  BY <1>1
<1>4. l \in Nat /\ s + l <= top + 1
  <2>1. Library!strlen(before, s) \in Nat /\ s + Library!strlen(before, s) <= top
    BY <1>1, <1>3, StringEnds
  <2> QED
    BY <1>3, <2>1
<1>5. Movable(top + 1, d, s, l)
  BY <1>2, <1>3, <1>4 DEF Library!Proper, Movable
<1>6. \A x \in X : x = Moved(before, d, s, l)
  BY <1>1, <1>3, <1>5, StrcpyMoves
<1> HIDE DEF l, X
<1>7. PICK x \in X : Library!Call(c, x, << >>)
  BY <1>2
<1>8. x = Moved(before, d, s, l)
  BY <1>6
<1> QED
  BY <1>1, <1>2, <1>3, <1>4, <1>7, <1>8, MoveKeeps

\* A call that fills n units of some bytes keeps it.
LEMMA UnitsKeep ==
  ASSUME LibraryInv, NEW d, NEW v, NEW n, NEW unit, NEW x, NEW r, unit \in {1, 2, 4},
         Library!Call([name |-> "memset", d |-> d, value |-> v, n |-> n, unit |-> unit], x, r),
         NEW top, top \in Nat, Library!Addresses = 0 .. top, IsMemory(before, top + 1),
         d \in Nat, v \in Int, n \in Nat,
         x = Library!Units(before, d, v, n, unit)
  PROVE  LibraryInv'
<1> DEFINE c == [name |-> "memset", d |-> d, value |-> v, n |-> n, unit |-> unit]
           Byte(k) == IF k \in d .. d + unit * n - 1 THEN (v \div 256 ^ ((k - d) % unit)) % 256
                      ELSE before[k]
<1>1. c.name = "memset" /\ c.d = d /\ c.value = v /\ c.n = n /\ c.unit = unit
  OBVIOUS
<1>2. call' = c /\ mem' = x /\ before' = before
  BY DEF Library!Call
<1> HIDE DEF c
<1>3. before \in [0 .. top -> 0 .. 255]
  BY DEF IsMemory
<1>4. x = [k \in 0 .. top |-> Byte(k)]
  <2>1. x = [k \in DOMAIN before |-> Byte(k)]
    BY Zenon DEF Library!Units
  <2> HIDE DEF Byte
  <2> QED
    BY <1>3, <2>1
<1>5. IsMemory(x, top + 1)
  <2>1. ASSUME NEW k \in 0 .. top PROVE Byte(k) \in 0 .. 255
    <3>1. CASE k \notin d .. d + unit * n - 1
      <4>1. Byte(k) = before[k]
        BY <3>1, Zenon
      <4> QED
        BY <1>3, <4>1
    <3>2. CASE k \in d .. d + unit * n - 1
      <4> DEFINE j == (k - d) % unit
      <4>1. j \in 0 .. 3
        OBVIOUS
      <4>2. Byte(k) = (v \div 256 ^ j) % 256
        BY <3>2, Zenon
      <4> HIDE DEF j, Byte
      <4> QED
        BY <4>1, <4>2, BytesOfNumber
    <3> QED
      BY <3>1, <3>2
  <2> HIDE DEF Byte
  <2>2. x \in [0 .. top -> 0 .. 255]
    BY <1>4, <2>1
  <2> QED
    BY <2>2 DEF IsMemory
<1>6. Library!TypeOK'
  <2>1. Library!Call(c, x, r)
    BY DEF c
  <2>2. c.name # "none"
    BY <1>1
  <2> QED
    BY <1>5, <2>1, <2>2, CallTyped DEF LibraryInv
<1>7. Library!WritesExactly'
  <2>1. Library!Addresses' = 0 .. top
    BY <1>2 DEF Library!Addresses
  <2>2. /\ call'.name = "memset" /\ call'.name \notin {"memcpy", "memmove", "strcpy", "strncpy"}
        /\ call'.d = d /\ call'.value = v /\ call'.n = n /\ call'.unit = unit
    BY <1>1, <1>2
  <2> QED
    BY <1>2, <1>4, <2>1, <2>2, Zenon DEF Library!WritesExactly
<1>8. Library!ComparesAsStrings'
  BY <1>1, <1>2 DEF Library!ComparesAsStrings
<1>9. Library!FormatsInOrder'
  BY <1>1, <1>2 DEF Library!FormatsInOrder
<1> QED
  BY <1>6, <1>7, <1>8, <1>9 DEF LibraryInv

\* So does every call that fills memory: memset fills single bytes.
LEMMA FillKeeps ==
  ASSUME LibraryInv, call = Library!Idle, NEW d \in Library!Addresses, NEW v \in Fills,
         NEW n \in 0 .. Library!Size, Library!fill(d, v, n)
  PROVE  LibraryInv'
<1>1. PICK top \in Nat : /\ Ends(before, top) /\ IsMemory(before, top + 1) /\ mem = before
                        /\ Library!Addresses = 0 .. top /\ Library!Size = top + 1
  BY BeforeCall DEF LibraryInv
<1>2. d \in Nat /\ v \in Int /\ n \in Nat
  BY <1>1, InstancesAssumption DEF Library!MemoriesWellFormed
<1> DEFINE c(unit) == [name |-> "memset", d |-> d, value |-> v, n |-> n, unit |-> unit]
<1>3. \/ Library!Call(c(1), Library!memset(before, d, v, n), << >>)
      \/ Library!Call(c(2), Library!Units(before, d, v, n, 2), << >>)
      \/ Library!Call(c(4), Library!Units(before, d, v, n, 4), << >>)
  BY <1>1, Zenon DEF Library!fill, Library!memset_word, Library!memset_dword
<1>4. Library!memset(before, d, v, n) = Library!Units(before, d, v, n, 1)
  <2>1. Library!memset(before, d, v, n)
          = [k \in DOMAIN before |-> IF k \in d .. d + n - 1 THEN v % 256 ELSE before[k]]
    BY <1>1, <1>2, MemsetFills DEF Library!Filled
  <2>2. ASSUME NEW k \in DOMAIN before
        PROVE  (IF k \in d .. d + n - 1 THEN v % 256 ELSE before[k])
                 = IF k \in d .. d + 1 * n - 1 THEN (v \div 256 ^ ((k - d) % 1)) % 256
                   ELSE before[k]
    <3>1. k \in Int
      BY <1>1 DEF IsMemory
    <3>2. (k - d) % 1 = 0 /\ d + n - 1 = d + 1 * n - 1 /\ v \div 1 = v
      BY <1>2, <3>1
    <3> QED
      BY <3>2, ByteOfAll, Zenon
  <2> QED
    BY <2>1, <2>2 DEF Library!Units
<1> HIDE DEF c
<1>5. ASSUME NEW unit \in {1, 2, 4},
             Library!Call(c(unit), Library!Units(before, d, v, n, unit), << >>)
      PROVE  LibraryInv'
  BY <1>1, <1>2, <1>5, UnitsKeep DEF c
<1> QED
  BY <1>3, <1>4, <1>5

\* What comparisons return keeps it.
LEMMA CompareKeeps ==
  ASSUME LibraryInv, call = Library!Idle, NEW a \in Library!Addresses,
         NEW b \in Library!Addresses, NEW n \in 0 .. Library!Size, Library!compare(a, b, n)
  PROVE  LibraryInv'
<1>1. PICK top \in Nat : /\ Ends(before, top) /\ IsMemory(before, top + 1) /\ mem = before
                        /\ Library!Addresses = 0 .. top /\ Library!Size = top + 1
  BY BeforeCall DEF LibraryInv
<1> DEFINE c == [name |-> "compare", d |-> a, s |-> b, n |-> n]
           r1 == Library!strncmp(before, a, b, n)
           r2 == Library!ece391_strncmp(before, a, b, n)
           r3 == Library!ece391_strcmp(before, a, b)
           Same(k) == StringAt(before, a, k) = StringAt(before, b, k)
<1>2. call' = c /\ mem' = before /\ before' = before /\ result' = <<r1, r2, r3>>
  BY <1>1 DEF Library!compare, Library!Call
<1>3. a \in 0 .. top /\ b \in 0 .. top /\ n \in Nat
  BY <1>1
<1>4. (r1 = 0 <=> Same(n)) /\ (r2 = 0 <=> Same(n))
  <2> DEFINE S == Library!Stops(before, a, b, n)
             x == before[a + Library!Least(S)]
             y == before[b + Library!Least(S)]
  <2>1. Tells(before, a, b, n)
    BY <1>1, <1>3, ComparisonTells
  <2>2. /\ S = {} => Same(n)
        /\ S # {} => x \in 0 .. 255 /\ y \in 0 .. 255 /\ (x = y <=> Same(n))
    BY <2>1, Zenon DEF Tells
  <2>3. n = 0 => S = {}
    BY DEF Library!Stops
  <2>4. r1 = IF S = {} THEN 0 ELSE Library!AsSigned(x) - Library!AsSigned(y)
    BY Zenon DEF Library!strncmp
  <2>5. r2 = IF n = 0 \/ S = {} THEN 0 ELSE x - y
    BY Zenon DEF Library!ece391_strncmp
  <2> HIDE DEF S, x, y, r1, r2, Same
  <2>6. S # {} => x \in 0 .. 255 /\ y \in 0 .. 255
    BY <2>2, Zenon
  <2>7. CASE S = {}
    <3>1. r1 = 0 /\ r2 = 0
      BY <2>4, <2>5, <2>7
    <3> QED
      BY <2>2, <2>7, <3>1, Zenon
  <2>8. CASE S # {}
    <3>1. (r1 = 0 <=> x = y) /\ (r2 = 0 <=> x = y)
      <4>1. r1 = Library!AsSigned(x) - Library!AsSigned(y) /\ r2 = x - y
        BY <2>3, <2>4, <2>5, <2>8, Zenon
      <4>2. x \in 0 .. 255 /\ y \in 0 .. 255
        BY <2>6, <2>8
      <4> QED
        BY <4>1, <4>2 DEF Library!AsSigned
    <3> QED
      BY <2>2, <2>8, <3>1, Zenon
  <2> QED
    BY <2>7, <2>8
<1>5. r3 = 0 <=> Same(Library!Size)
  <2> DEFINE la == Library!strlen(before, a)
             lb == Library!strlen(before, b)
             k == la + 1
             S == Library!Stops(before, a, b, k)
             x == before[a + Library!Least(S)]
             y == before[b + Library!Least(S)]
  <2>1. la \in Nat /\ a + la <= top /\ lb \in Nat /\ b + lb <= top
    <3>1. la \in Nat /\ a + la <= top
      BY <1>1, <1>3, StringEnds
    <3>2. lb \in Nat /\ b + lb <= top
      BY <1>1, <1>3, StringEnds
    <3> QED
      BY <3>1, <3>2
  <2>2. r3 = x - y
    BY Zenon DEF Library!ece391_strcmp
  <2>10. k \in Nat /\ k = la + 1 /\ top + 1 \in Nat
    BY <1>3, <2>1
  <2> HIDE DEF k
  <2>3. Tells(before, a, b, k)
    BY <1>1, <1>3, <2>10, ComparisonTells
  <2>4. EqualIf(before, a, b, k) /\ EqualIf(before, a, b, top + 1)
    <3>1. EqualIf(before, a, b, k)
      BY <1>1, <1>3, <2>10, HeadsEqual
    <3> DEFINE z == top + 1
    <3>2. z \in Nat
      BY <2>10
    <3> HIDE DEF z
    <3>3. EqualIf(before, a, b, z)
      BY <1>1, <1>3, <3>2, HeadsEqual
    <3> QED
      BY <3>1, <3>3 DEF z
  <2>5. Same(k) <=> /\ la = lb \/ (k <= la /\ k <= lb)
                    /\ \A j \in 0 .. k - 1 : j < la => before[a + j] = before[b + j]
    BY <2>4, Zenon DEF EqualIf
  <2>6. Same(top + 1) <=>
          /\ la = lb \/ (top + 1 <= la /\ top + 1 <= lb)
          /\ \A j \in 0 .. (top + 1) - 1 : j < la => before[a + j] = before[b + j]
    BY <2>4, Zenon DEF EqualIf
  <2>7. /\ S = {} => ~ (la < k)
        /\ S # {} => x \in 0 .. 255 /\ y \in 0 .. 255 /\ (x = y <=> Same(k))
    BY <2>3, Zenon DEF Tells
  <2> HIDE DEF S, x, y, la, lb, r3, Same
  <2>8. S # {}
    BY <2>1, <2>7, <2>10
  <2>9. Same(k) <=> Same(top + 1)
    BY <1>3, <2>1, <2>5, <2>6, <2>10
  <2>11. x \in 0 .. 255 /\ y \in 0 .. 255 /\ (x = y <=> Same(k))
    BY <2>7, <2>8, Zenon
  <2>12. r3 = 0 <=> x = y
    <3>1. x \in 0 .. 255 /\ y \in 0 .. 255
      BY <2>11, Zenon
    <3> QED
      BY <2>2, <3>1
  <2> QED
    BY <1>1, <2>9, <2>11, <2>12, Zenon
<1>6. c.name = "compare" /\ c.d = a /\ c.s = b /\ c.n = n
  OBVIOUS
<1>7. Library!TypeOK'
  <2>1. Library!Call(c, before, <<r1, r2, r3>>)
    BY <1>1 DEF Library!compare
  <2>2. c.name # "none"
    BY <1>6
  <2> HIDE DEF c, r1, r2, r3
  <2> QED
    BY <1>1, <2>1, <2>2, CallTyped DEF LibraryInv
<1> HIDE DEF c, r1, r2, r3
<1>8. Library!WritesExactly'
  BY <1>2, <1>6 DEF Library!WritesExactly
<1>9. Library!ComparesAsStrings'
  <2>1. result'[1] = r1 /\ result'[2] = r2 /\ result'[3] = r3
    BY <1>2
  <2>2. \A p, q : Library!Cut(p, q)' = StringAt(before, p, q)
    BY <1>2, Zenon DEF Library!Cut, StringAt
  <2>3. Library!Size' = Library!Size
    BY <1>2 DEF Library!Size, Library!Addresses
  <2>4. call'.d = a /\ call'.s = b /\ call'.n = n
    BY <1>2, <1>6
  <2> QED
    BY <1>4, <1>5, <2>1, <2>2, <2>3, <2>4, Zenon DEF Library!ComparesAsStrings
<1>10. Library!FormatsInOrder'
  BY <1>2, <1>6 DEF Library!FormatsInOrder
<1> QED
  BY <1>7, <1>8, <1>9, <1>10 DEF LibraryInv

\* What is there before the first call has the invariant.
LEMMA LibraryInit == ASSUME Library!Init PROVE LibraryInv
<1>1. before \in Memories /\ mem = before /\ call.name = "none"
  BY DEF Library!Init, Library!Idle
<1>2. PICK top \in Nat : before \in [0 .. top -> 0 .. 255]
  BY <1>1, MemoryEnds
<1>3. Library!TypeOK
  BY <1>1, <1>2 DEF Library!TypeOK, Library!Addresses
<1>4. Library!WritesExactly /\ Library!ComparesAsStrings
  BY <1>1 DEF Library!WritesExactly, Library!ComparesAsStrings
<1>5. Library!FormatsInOrder
  BY <1>1 DEF Library!FormatsInOrder
<1> QED
  BY <1>3, <1>4, <1>5 DEF LibraryInv

\* Every call keeps it.
LEMMA LibraryStep ==
  ASSUME LibraryInv, [Library!Next]_library
  PROVE  LibraryInv'
<1>1. CASE UNCHANGED library
  <2>1. /\ mem' = mem /\ before' = before /\ call' = call /\ result' = result
    BY <1>1 DEF library
  <2>2. Library!TypeOK'
    BY <2>1 DEF LibraryInv, Library!TypeOK, Library!Addresses
  <2>3. Library!WritesExactly'
    BY <2>1 DEF LibraryInv, Library!WritesExactly, Library!Addresses
  <2>4. Library!Size' = Library!Size
    BY <2>1 DEF Library!Size, Library!Addresses
  <2>5. \A p, q : Library!Cut(p, q)' = Library!Cut(p, q)
    BY <2>1, Zenon DEF Library!Cut
  <2>6. Library!ComparesAsStrings'
    BY <2>1, <2>4, <2>5, Zenon DEF LibraryInv, Library!ComparesAsStrings
  <2>7. Library!FormatsInOrder'
    <3>1. \A q : LooksOf(q)' = LooksOf(q)
      BY <2>1, ShownAgain
    <3>2. FormatsShown
      BY DEF LibraryInv, Library!FormatsInOrder, FormatsShown, LooksOf
    <3>3. FormatsShown'
      BY <2>1, <3>1, <3>2, Zenon DEF FormatsShown, Library!Numeral
    <3> QED
      BY <3>3 DEF Library!FormatsInOrder, FormatsShown, LooksOf
  <2> QED
    BY <2>2, <2>3, <2>6, <2>7 DEF LibraryInv
<1>2. CASE Library!give_back
  <2>1. mem' = before /\ before' = before /\ call'.name = "none"
    BY <1>2 DEF Library!give_back, Library!Idle
  <2>2. PICK top \in Nat : before \in [0 .. top -> 0 .. 255]
    BY MemoryEnds DEF LibraryInv, Library!TypeOK
  <2>3. Library!TypeOK'
    BY <2>1, <2>2 DEF Library!TypeOK, Library!Addresses, LibraryInv
  <2>4. Library!WritesExactly' /\ Library!ComparesAsStrings'
    BY <2>1 DEF Library!WritesExactly, Library!ComparesAsStrings
  <2>5. Library!FormatsInOrder'
    BY <2>1 DEF Library!FormatsInOrder
  <2> QED
    BY <2>3, <2>4, <2>5 DEF LibraryInv
<1>3. ASSUME call = Library!Idle, NEW d \in Library!Addresses, NEW s \in Library!Addresses,
             NEW n \in 0 .. Library!Size, Library!copy(d, s, n) \/ Library!compare(d, s, n)
      PROVE  LibraryInv'
  BY <1>3, CopyKeeps, CompareKeeps
<1>4. ASSUME call = Library!Idle, NEW d \in Library!Addresses, NEW s \in Library!Addresses,
             Library!copy_string(d, s)
      PROVE  LibraryInv'
  BY <1>4, CopyStringKeeps
<1>5. ASSUME call = Library!Idle, NEW d \in Library!Addresses, NEW v \in Fills,
             NEW n \in 0 .. Library!Size, Library!fill(d, v, n)
      PROVE  LibraryInv'
  BY <1>5, FillKeeps
<1>6. ASSUME call = Library!Idle, NEW pieces \in Formats, Library!print(pieces)
      PROVE  LibraryInv'
  BY <1>6, PrintfKeeps
<1>7. ASSUME call = Library!Idle, NEW value \in 0 .. UINT - 1, NEW radix \in {2, 10},
             Library!number(value, radix)
      PROVE  LibraryInv'
  BY <1>7, ItoaKeeps
<1> QED
  BY <1>1, <1>2, <1>3, <1>4, <1>5, <1>6, <1>7, Zenon DEF Library!Next, Library!Calls

-----------------------------------------------------------------------------
(* The theorems *)

\* A step of the file system is a step of each of its parts, or leaves it alone.
LEMMA PartsStep ==
  ASSUME [FileSystemNext]_all
  PROVE  [Listing!SerialNext]_listing /\ [Shell!Next]_command /\ [Library!Next]_library
BY DEF FileSystemNext, all

\* The table of descriptors is one program's after another, which have places in
\* the part of the sessions only.
TableInv == IF part = "session" THEN SessionInv /\ GrepOK ELSE at = "none" /\ PositionsInv

\* So a step of the file system keeps the invariant of the programs.
LEMMA TableStep ==
  ASSUME TableInv, [FileSystemNext]_all
  PROVE  TableInv'
<1>1. part' = part
  BY DEF FileSystemNext, all
<1>2. CASE part = "session"
  <2>1. [ProgramsNext]_programVars
    BY <1>2 DEF FileSystemNext, all
  <2> QED
    BY <1>1, <1>2, <2>1, SessionStep, GrepStep DEF TableInv
<1>3. CASE part # "session"
  <2>1. [Next]_vars /\ at' = at
    BY <1>3 DEF FileSystemNext, all, programVars, locals
  <2> QED
    BY <1>1, <1>3, <2>1, PositionsStep DEF TableInv
<1> QED
  BY <1>2, <1>3

\* The directory, the shell with the program it runs, the programs that read
\* files and the routines on strings keep their invariants.
THEOREM FileSystemInvariant ==
  FileSystemSpec => [](ListingInv /\ CommandInv /\ TableInv /\ LibraryInv)
<1>1. FileSystemInit => ListingInv /\ CommandInv /\ LibraryInv
  BY ListingInit, CommandInit, LibraryInit DEF FileSystemInit
<1>2. FileSystemInit => TableInv
  <2> SUFFICES ASSUME FileSystemInit PROVE TableInv
    OBVIOUS
  <2>1. ProgramsInit
    BY DEF FileSystemInit
  <2>2. SessionInv /\ GrepOK /\ PositionsInv /\ at = "none"
    BY <2>1, SessionInit, GrepInit DEF SessionInv, ProgramsInit
  <2> QED
    BY <2>2 DEF TableInv
<1>3. ListingInv /\ CommandInv /\ TableInv /\ LibraryInv /\ [FileSystemNext]_all
         => (ListingInv /\ CommandInv /\ TableInv /\ LibraryInv)'
  BY PartsStep, ListingStep, CommandStep, TableStep, LibraryStep
<1> QED
  BY <1>1, <1>2, <1>3, PTL DEF FileSystemSpec

\* Whatever runs one after another, the descriptors in use are the streams and
\* those the running program opened: initialize_pcb, open and close.
THEOREM DescriptorsOfPrograms == FileSystemSpec => []DescriptorsAreOpened
<1>1. TableInv => DescriptorsAreOpened
  BY DEF TableInv, SessionInv, PositionsInv, DescriptorsInv
<1> QED
  BY <1>1, FileSystemInvariant, PTL

\* Whatever runs, what the reads of a descriptor return is its file from the
\* beginning on: file_read and read_data.
THEOREM ReadsOfPrograms == FileSystemSpec => []ReadsConsecutive
<1>1. TableInv => ReadsConsecutive
  BY DEF TableInv, SessionInv, PositionsInv
<1> QED
  BY <1>1, FileSystemInvariant, PTL

\* ls and cat print all there is: main of ece391ls.c and of ece391cat.c.
THEOREM PrintsOfPrograms == FileSystemSpec => []PrintsWhole
<1>1. part = "session" /\ SessionInv => PrintsWhole
  BY SessionInvImplies
<1>2. at = "none" => PrintsWhole
  BY DEF PrintsWhole
<1>3. TableInv => PrintsWhole
  BY <1>1, <1>2 DEF TableInv
<1> QED
  BY <1>3, FileSystemInvariant, PTL

\* The tests of failing system calls pass: ece391syserr.c.
THEOREM TestsOfPrograms == FileSystemSpec => []SelfTestsPass
<1>1. part = "session" /\ SessionInv => SelfTestsPass
  BY SessionInvImplies
<1>2. at = "none" => SelfTestsPass
  BY DEF SelfTestsPass
<1>3. TableInv => SelfTestsPass
  BY <1>1, <1>2 DEF TableInv
<1> QED
  BY <1>3, FileSystemInvariant, PTL

\* grep shows every line of a text that has the pattern: do_one_file of
\* ece391grep.c.
THEOREM LinesOfPrograms == FileSystemSpec => []LinesFound
<1>1. part = "session" /\ SessionInv /\ GrepOK => LinesFound
  BY GrepOKImplies
<1>2. at = "none" => LinesFound
  BY DEF LinesFound
<1>3. TableInv => LinesFound
  BY <1>1, <1>2 DEF TableInv
<1> QED
  BY <1>3, FileSystemInvariant, PTL

\* The states of every part are of their types; what waits in grep's buffer fits
\* it.
THEOREM TypesOKHolds == FileSystemSpec => []TypesOK
<1>1. ListingInv => Listing!TypeOK
  BY DEF ListingInv
<1>2. CommandInv => Shell!TypeOK
  BY DEF CommandInv
<1>3. LibraryInv => Library!TypeOK
  BY DEF LibraryInv
<1>4. TableInv => TypeOK /\ (part = "session" => SearchOK)
  BY Zenon DEF TableInv, SessionInv, PositionsInv
<1>5. part \in {"files", "listing", "session", "command", "library"} /\ ListingInv /\ CommandInv
        /\ TableInv /\ LibraryInv => TypesOK
  BY <1>1, <1>2, <1>3, <1>4 DEF TypesOK
<1>6. FileSystemSpec => [](part \in {"files", "listing", "session", "command", "library"})
  <2> DEFINE PartOK == part \in {"files", "listing", "session", "command", "library"}
  <2>1. FileSystemInit => PartOK
    BY DEF FileSystemInit
  <2>2. PartOK /\ [FileSystemNext]_all => PartOK'
    BY DEF FileSystemNext, all
  <2> QED
    BY <2>1, <2>2, PTL DEF FileSystemSpec
<1> QED
  BY <1>5, <1>6, FileSystemInvariant, PTL

\* Every routine that writes memory writes the bytes it was told to and no others:
\* memcpy, memmove, memset, strcpy and strncpy of lib.c, and ece391_strcpy.
THEOREM WritesExactlyHolds == FileSystemSpec => []WritesExactly
<1>1. LibraryInv => WritesExactly
  BY Zenon DEF LibraryInv, WritesExactly
<1> QED
  BY <1>1, FileSystemInvariant, PTL

\* Comparisons tell equal strings from others: strncmp of lib.c, ece391_strncmp
\* and ece391_strcmp.
THEOREM ComparesAsStringsHolds == FileSystemSpec => []ComparesAsStrings
<1>1. LibraryInv => ComparesAsStrings
  BY Zenon DEF LibraryInv, ComparesAsStrings
<1> QED
  BY <1>1, FileSystemInvariant, PTL

\* printf of lib.c shows the pieces of its format one after the other, each
\* conversion with its own argument, and itoa every number with its value.
THEOREM FormatsInOrderHolds == FileSystemSpec => []FormatsInOrder
<1>1. LibraryInv => FormatsInOrder
  BY Zenon DEF LibraryInv, FormatsInOrder
<1> QED
  BY <1>1, FileSystemInvariant, PTL

\* What the reads of a listing return is the list of names from its beginning,
\* if no process opens the directory while another's dir_open or dir_read is
\* under way: dir_read and dir_open of fs.c.
THEOREM ListedInOrderHolds == FileSystemSpec => []ListedInOrder
<1>1. ListingInv => ListedInOrder
  BY ListingInvImplies DEF ListedInOrder
<1> QED
  BY <1>1, FileSystemInvariant, PTL

\* dir_open clears bytes behind dir_buf in just those rounds that are past half of
\* the names there is room for: its inner loop, in fs.c.
THEOREM FitsUpToHalfHolds == FileSystemSpec => []FitsUpToHalf
<1>1. ListingInv => FitsUpToHalf
  BY ListingInvImplies DEF FitsUpToHalf
<1> QED
  BY <1>1, FileSystemInvariant, PTL

\* A program's arguments are what was typed behind its name: execute, parse and
\* getargs.
THEOREM ArgumentsArriveHolds == FileSystemSpec => []ArgumentsArrive
<1>1. CommandInv => ArgumentsArrive
  BY CommandInvImplies DEF ArgumentsArrive
<1> QED
  BY <1>1, FileSystemInvariant, PTL

\* The shell says that there is no such command exactly when no program was
\* started: main of ece391shell.c after execute.
THEOREM MissingReportedHolds == FileSystemSpec => MissingReported
<1>1. [FileSystemNext]_all =>
         [shell' = "prompt" /\ shell # "prompt" =>
             (message' = "no such command" <=> outcome' = "not started")]_Shell!vars
  <2> SUFFICES ASSUME [Shell!Next]_command
               PROVE  [shell' = "prompt" /\ shell # "prompt" =>
                          (message' = "no such command" <=> outcome' = "not started")]_Shell!vars
    BY PartsStep
  <2>1. CASE Shell!Next
    BY <2>1, StepReports
  <2>2. CASE UNCHANGED command
    BY <2>2 DEF command, Shell!vars, Shell!program
  <2> QED
    BY <2>1, <2>2
<1> QED
  BY <1>1, PTL DEF FileSystemSpec, MissingReported, Shell!MissingReported
=============================================================================
