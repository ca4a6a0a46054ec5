---------------------------- MODULE ScreenProofs ----------------------------
(***************************************************************************)
(* Under the conditions of CalmSpec, for every size of the screen, number  *)
(* of terminals and message of an exception: what a terminal shows is what *)
(* an ideal terminal would show, and the screen shows it too.              *)
(*                                                                         *)
(* The cells of the screen and of the pages are told apart first, then     *)
(* what a store and a memmove do to them, what the ideal terminal does,    *)
(* and that putc, put_backspace, scroll_up and clear do the same, the      *)
(* loops by induction over their rounds.  The inductive invariant says, by *)
(* the place of a terminal's program in terminal_putc and scroll_up, how   *)
(* far its page and the screen are behind the ideal terminal.              *)
(***************************************************************************)
EXTENDS Screen, LoopLemmas, SequenceTheorems

Rows == 1 .. NUM_ROWS
Cols == 1 .. NUM_COLS
Shades == Chars \cup {Blank}

\* The cell of a row and a column, and how many cells the rows but the last have.
Cell(r, k) == NUM_COLS * (r - 1) + k - 1
Lower == (NUM_ROWS - 1) * NUM_COLS

-----------------------------------------------------------------------------
(* Addresses *)

\* The constants as numbers.
LEMMA Numbers ==
  /\ NumTerminals \in Nat /\ NumTerminals > 0
  /\ NUM_ROWS \in Nat /\ NUM_ROWS > 0 /\ NUM_COLS \in Nat /\ NUM_COLS > 0
  /\ PAGE \in Nat /\ NUM_ROWS * NUM_COLS <= PAGE /\ NUM_ROWS * NUM_COLS \in Nat
  /\ BufferSize \in Nat
BY ScreenAssumption

\* A cell is on the screen, and the one below it is a row's length further.
LEMMA CellIs ==
  ASSUME NEW r \in Rows, NEW k \in Cols
  PROVE  /\ Cell(r, k) \in Cells /\ Cell(r, k) \in Nat
         /\ r < NUM_ROWS => Cell(r, k) < Lower /\ Cell(r, k) + NUM_COLS = Cell(r + 1, k)
         /\ r = NUM_ROWS => ~ (Cell(r, k) < Lower)
<1> DEFINE R == NUM_ROWS
           C == NUM_COLS
           q == r - 1
<1>1. /\ R \in Nat /\ R > 0 /\ C \in Nat /\ C > 0 /\ q \in Nat /\ q < R
      /\ k \in Nat /\ k >= 1 /\ k <= C
  BY Numbers DEF Rows, Cols
<1>2. R - 1 \in Nat /\ (R - 1) + 1 = R /\ q + 1 \in Nat
  BY <1>1
<1>3. /\ q * C \in Nat /\ (q + 1) * C = q * C + C /\ q * C + C <= R * C
      /\ (R - 1) * C \in Nat
      /\ q < R - 1 => q * C + C <= (R - 1) * C
      /\ R - 1 <= q => (R - 1) * C <= q * C
  <2> HIDE DEF R, C, q
  <2>1. q * C \in Nat /\ (q + 1) * C = q * C + C /\ q * C + C <= R * C
    BY <1>1, Times
  <2>2. q < R - 1 => q * C + C <= (R - 1) * C
    BY <1>1, <1>2, Times
  <2>3. (R - 1) * C \in Nat /\ (R - 1 <= q => (R - 1) * C <= q * C)
    BY <1>1, <1>2, Times
  <2> QED
    BY <2>1, <2>2, <2>3
<1>4. Cell(r, k) = q * C + (k - 1) /\ Cell(r + 1, k) = (q + 1) * C + (k - 1)
  <2>1. Cell(r, k) = C * q + k - 1 /\ Cell(r + 1, k) = C * ((r + 1) - 1) + k - 1
    BY DEF Cell
  <2>2. (r + 1) - 1 = q + 1 /\ r \in Int
    BY DEF Rows
  <2>3. C * q = q * C /\ C * (q + 1) = (q + 1) * C
    <3> HIDE DEF q, C
    <3> QED
      BY <1>1
  <2>4. Cell(r + 1, k) = C * (q + 1) + k - 1
    BY <2>1, <2>2
  <2>5. (q + 1) * C \in Nat /\ q * C \in Nat
    <3> HIDE DEF q, C
    <3> QED
      BY <1>1, <1>3
  <2> DEFINE u == q * C
             v == (q + 1) * C
  <2> HIDE DEF u, v
  <2>6. Cell(r, k) = u + k - 1 /\ Cell(r + 1, k) = v + k - 1
    BY <2>1, <2>3, <2>4 DEF u, v
  <2>7. u \in Nat /\ v \in Nat
    BY <2>5 DEF u, v
  <2> QED
    BY <1>1, <2>6, <2>7 DEF u, v
<1> DEFINE u == q * C
           w == (R - 1) * C
           z == R * C
<1>5. /\ u \in Nat /\ w \in Nat /\ u + C <= z /\ z \in Nat
      /\ q < R - 1 => u + C <= w
      /\ R - 1 <= q => w <= u
      /\ Cell(r, k) = u + (k - 1) /\ Cell(r + 1, k) = u + C + (k - 1)
  BY <1>1, <1>3, <1>4, Numbers
<1>6. Lower = w /\ Cells = 0 .. z - 1
  BY DEF Lower, Cells
<1> HIDE DEF u, w, z
<1>7. r < R => q < R - 1
  BY <1>1 DEF Rows
<1>8. r = R => R - 1 <= q
  BY <1>1
<1> QED
  BY <1>1, <1>5, <1>6, <1>7, <1>8

\* Rows do not overlap.
LEMMA CellUnique ==
  ASSUME NEW r \in Rows, NEW k \in Cols, NEW s \in Rows, NEW j \in Cols,
         Cell(r, k) = Cell(s, j)
  PROVE  r = s /\ k = j
<1> DEFINE C == NUM_COLS
           p == r - 1
           q == s - 1
<1>1. /\ C \in Nat /\ C > 0 /\ p \in Nat /\ q \in Nat
      /\ k \in Nat /\ k >= 1 /\ k <= C /\ j \in Nat /\ j >= 1 /\ j <= C
  BY Numbers DEF Rows, Cols
<1>2. Cell(r, k) = C * p + k - 1 /\ Cell(s, j) = C * q + j - 1
  BY DEF Cell
<1>3. p = q /\ k = j
  <2> HIDE DEF C, p, q
  <2> DEFINE u == p * C
             v == q * C
  <2>1. /\ u \in Nat /\ v \in Nat /\ (p < q => u + C <= v) /\ (q < p => v + C <= u)
    BY <1>1, Times
  <2>2. C * p = u /\ C * q = v
    BY <1>1
  <2>3. u + k - 1 = v + j - 1
    BY <1>2, <2>2
  <2> HIDE DEF u, v
  <2>4. ~ (p < q) /\ ~ (q < p)
    BY <1>1, <2>1, <2>3
  <2>5. p = q
    BY <1>1, <2>4
  <2>6. u = v
    BY <2>5 DEF u, v
  <2> QED
    BY <1>1, <2>1, <2>3, <2>5, <2>6
<1> QED
  BY <1>3 DEF Rows

\* The screen and the pages lie in the memory, and do not overlap.
LEMMA Where ==
  /\ \A p \in Cells : p \in Addresses
  /\ \A t \in Terminals, p \in Cells : Page(t) + p \in Addresses
  /\ \A t \in Terminals, p \in Cells, q \in Cells : Page(t) + p # q
  /\ \A t, u \in Terminals : \A p, q \in Cells : Page(t) + p = Page(u) + q => t = u /\ p = q
<1> DEFINE P == PAGE
           N == NumTerminals
           z == NUM_ROWS * NUM_COLS
<1>1. /\ P \in Nat /\ N \in Nat /\ N > 0 /\ z \in Nat /\ z <= P
      /\ Cells = 0 .. z - 1 /\ Terminals = 0 .. N - 1 /\ Addresses = 0 .. (N + 1) * P - 1
  BY Numbers DEF Cells, Terminals, Addresses
<1>2. \A t \in Terminals : Page(t) = (t + 1) * P
  BY DEF Page
<1> HIDE DEF P, N, z
<1>3. \A t \in Terminals : t + 1 \in Nat /\ t + 1 >= 1 /\ t + 1 < N + 1 /\ t \in Nat
  BY <1>1
<1>4. \A t \in Terminals : /\ Page(t) \in Nat /\ P <= Page(t)
                           /\ Page(t) + P <= (N + 1) * P
  <2> TAKE t \in Terminals
  <2> DEFINE a == t + 1
             b == N + 1
  <2>1. a \in Nat /\ b \in Nat /\ 1 <= a /\ a < b
    BY <1>1, <1>3
  <2> HIDE DEF a, b
  <2>2. a * P \in Nat /\ a * P + P <= b * P /\ 1 * P <= a * P /\ 1 * P = P
    BY <1>1, <2>1, Times
  <2> QED
    BY <1>2, <2>2 DEF a, b
<1>5. (N + 1) * P \in Nat
  BY <1>1
<1> DEFINE end == (N + 1) * P
<1> HIDE DEF end
<1>6. /\ end \in Nat /\ P <= end /\ Addresses = 0 .. end - 1
      /\ \A t \in Terminals : Page(t) \in Nat /\ P <= Page(t) /\ Page(t) + P <= end
  <2>1. /\ end \in Nat /\ Addresses = 0 .. end - 1
        /\ \A t \in Terminals : Page(t) \in Nat /\ P <= Page(t) /\ Page(t) + P <= end
    BY <1>1, <1>4, <1>5 DEF end
  <2>2. 0 \in Terminals
    BY <1>1
  <2>3. Page(0) \in Nat /\ P <= Page(0) /\ Page(0) + P <= end
    BY <2>1, <2>2
  <2> QED
    BY <1>1, <2>1, <2>3
<1>7. \A t, u \in Terminals : t < u => Page(t) + P <= Page(u)
  <2> TAKE t, u \in Terminals
  <2> DEFINE a == t + 1
             b == u + 1
  <2>1. a \in Nat /\ b \in Nat /\ (t < u => a < b)
    BY <1>3
  <2> HIDE DEF a, b
  <2>2. a < b => a * P + P <= b * P
    BY <1>1, <2>1, Times
  <2> QED
    BY <1>2, <2>1, <2>2 DEF a, b
<1>8. \A t, u \in Terminals : t = u \/ t < u \/ u < t
  BY <1>3
<1>9. ASSUME NEW t \in Terminals, NEW u \in Terminals, NEW p \in Cells, NEW q \in Cells,
             Page(t) + p = Page(u) + q
      PROVE  t = u /\ p = q
  <2>1. p \in Nat /\ p < P /\ q \in Nat /\ q < P
    BY <1>1
  <2>2. Page(t) \in Nat /\ Page(u) \in Nat
    BY <1>6
  <2>3. ~ (t < u)
    <3> SUFFICES ASSUME t < u PROVE FALSE
      OBVIOUS
    <3>1. Page(t) + P <= Page(u)
      BY <1>7
    <3> QED
      BY <1>1, <1>9, <2>1, <2>2, <3>1
  <2>4. ~ (u < t)
    <3> SUFFICES ASSUME u < t PROVE FALSE
      OBVIOUS
    <3>1. Page(u) + P <= Page(t)
      BY <1>7
    <3> QED
      BY <1>1, <1>9, <2>1, <2>2, <3>1
  <2>5. t = u
    BY <1>8, <2>3, <2>4
  <2> QED
    BY <1>9, <2>1, <2>2, <2>5
<1>10. \A p \in Cells : p \in Addresses
  BY <1>1, <1>6
<1>11. \A t \in Terminals, p \in Cells : Page(t) + p \in Addresses
  BY <1>1, <1>6
<1>12. \A t \in Terminals, p \in Cells, q \in Cells : Page(t) + p # q
  BY <1>1, <1>6
<1> QED
  BY <1>9, <1>10, <1>11, <1>12

\* Where the cursor is.
LEMMA PositionIs ==
  ASSUME NEW con, NEW t, con.x[t] \in Nat, con.y[t] \in Nat
  PROVE  /\ Position(con, t) = Cell(con.y[t] + 1, con.x[t] + 1)
         /\ con.x[t] > 0 => Position(con, t) - 1 = Cell(con.y[t] + 1, con.x[t])
<1> DEFINE x == con.x[t]
           y == con.y[t]
<1>1. (y + 1) - 1 = y /\ (x + 1) - 1 = x /\ x \in Nat /\ y \in Nat
  OBVIOUS
<1> HIDE DEF x, y
<1>2. NUM_COLS * y \in Nat
  BY <1>1, Numbers
<1> DEFINE u == NUM_COLS * y
<1>3. Cell(y + 1, x + 1) = u + (x + 1) - 1 /\ Cell(y + 1, x) = u + x - 1
  BY <1>1 DEF Cell
<1>4. Position(con, t) = u + x
  BY DEF Position, x, y
<1> HIDE DEF u
<1>5. u \in Nat
  BY <1>2 DEF u
<1>6. u + (x + 1) - 1 = u + x /\ (u + x) - 1 = u + x - 1
  BY <1>1, <1>5
<1> QED
  BY <1>3, <1>4, <1>6 DEF x, y

-----------------------------------------------------------------------------
(* Writes to memory *)

Memory == [Addresses -> Shades]

\* What the page of t shows, cell by cell; that the screen shows the same, or
\* the same but one row too low.
Whole(m, t, e) == \A r \in Rows, k \in Cols : m[Page(t) + Cell(r, k)] = e.rows[r][k]
Mirrors(m, t) == \A p \in Cells : m[p] = m[Page(t) + p]
Lags(m, t) == \A p \in Cells : m[IF p < Lower THEN p + NUM_COLS ELSE p] = m[Page(t) + p]

\* The rows of the page but the last are the ideal terminal's; before it scrolls
\* they are so one row further down.
Upper(m, t, e) ==
  \A r \in Rows, k \in Cols : r < NUM_ROWS => m[Page(t) + Cell(r, k)] = e.rows[r][k]
Coming(m, t, e) ==
  \A r \in Rows, k \in Cols : r < NUM_ROWS => m[Page(t) + Cell(r + 1, k)] = e.rows[r][k]

\* The last row is blank behind its first l characters.
Bare(m, t, l) == \A k \in Cols : k > l => m[Page(t) + Cell(NUM_ROWS, k)] = Blank

\* Nothing changes on the page of t.
PageKept(m, n, t) == \A p \in Cells : n[Page(t) + p] = m[Page(t) + p]
ScreenKept(m, n) == \A p \in Cells : n[p] = m[p]

\* A store changes one cell of a page,
LEMMA PageStore ==
  ASSUME NEW m \in Memory, NEW t \in Terminals, NEW p \in Cells, NEW c \in Shades
  PROVE  LET n == Store(m, Page(t) + p, c)
         IN  /\ n \in Memory /\ ScreenKept(m, n)
             /\ \A u \in Terminals : u # t => PageKept(m, n, u)
             /\ n[Page(t) + p] = c
             /\ \A q \in Cells : q # p => n[Page(t) + q] = m[Page(t) + q]
<1> DEFINE a == Page(t) + p
           n == Store(m, a, c)
<1>1. a \in Addresses
  BY Where
<1>2. /\ \A q \in Cells : q \in Addresses /\ q # a
      /\ \A u \in Terminals, q \in Cells : Page(u) + q \in Addresses
      /\ \A u \in Terminals, q \in Cells : u # t => Page(u) + q # a
      /\ \A q \in Cells : q # p => Page(t) + q # a
  BY Where
<1> HIDE DEF a
<1>3. n = [m EXCEPT ![a] = c]
  BY <1>1 DEF Store
<1>4. n \in Memory /\ n[a] = c /\ \A b \in Addresses : b # a => n[b] = m[b]
  BY <1>1, <1>3 DEF Memory
<1> HIDE DEF n
<1>5. n \in Memory /\ ScreenKept(m, n) /\ \A u \in Terminals : u # t => PageKept(m, n, u)
  BY <1>2, <1>4 DEF ScreenKept, PageKept
<1>6. n[a] = c /\ \A q \in Cells : q # p => n[Page(t) + q] = m[Page(t) + q]
  BY <1>2, <1>4
<1> QED
  BY <1>5, <1>6 DEF a, n

\* or of the screen.
LEMMA ScreenStore ==
  ASSUME NEW m \in Memory, NEW p \in Cells, NEW c \in Shades
  PROVE  LET n == Store(m, p, c)
         IN  /\ n \in Memory /\ \A u \in Terminals : PageKept(m, n, u)
             /\ n[p] = c /\ \A q \in Cells : q # p => n[q] = m[q]
<1> DEFINE n == Store(m, p, c)
<1>1. p \in Addresses /\ \A q \in Cells : q \in Addresses
  BY Where
<1>2. \A u \in Terminals, q \in Cells : Page(u) + q \in Addresses /\ Page(u) + q # p
  BY Where
<1>3. n = [m EXCEPT ![p] = c]
  BY <1>1 DEF Store
<1>4. n \in Memory /\ n[p] = c /\ \A b \in Addresses : b # p => n[b] = m[b]
  BY <1>1, <1>3 DEF Memory
<1> HIDE DEF n
<1>5. \A u \in Terminals : PageKept(m, n, u)
  BY <1>2, <1>4 DEF PageKept
<1> QED
  BY <1>1, <1>4, <1>5 DEF n

\* What is in a cell to which the one below moves.
LEMMA LowerIs ==
  /\ Lower \in Nat
  /\ \A p \in Cells : p \in 0 .. Lower - 1 <=> p < Lower
  /\ \A p \in Cells : p < Lower => p + NUM_COLS \in Cells
  /\ Cells \subseteq Nat /\ \A q \in 0 .. Lower - 1 : q \in Cells
<1> DEFINE R == NUM_ROWS
           C == NUM_COLS
<1>1. R \in Nat /\ R > 0 /\ C \in Nat /\ C > 0 /\ R - 1 \in Nat /\ (R - 1) + 1 = R
  BY Numbers
<1>2. (R - 1) * C \in Nat /\ R * C = (R - 1) * C + C
  <2> HIDE DEF R, C
  <2> DEFINE q == R - 1
  <2>1. q \in Nat /\ q + 1 = R
    BY <1>1
  <2> HIDE DEF q
  <2>2. q * C \in Nat /\ (q + 1) * C = q * C + C
    BY <1>1, <2>1, Times
  <2> QED
    BY <2>1, <2>2 DEF q
<1> DEFINE w == (R - 1) * C
<1>3. w \in Nat /\ Lower = w /\ Cells = 0 .. w + C - 1
  <2>1. R * C = w + C
    BY <1>2
  <2>2. Cells = 0 .. R * C - 1
    BY DEF Cells
  <2>3. w \in Nat /\ Lower = w
    BY <1>2 DEF Lower
  <2> DEFINE z == R * C
  <2> HIDE DEF w, z
  <2>4. z = w + C /\ Cells = 0 .. z - 1
    BY <2>1, <2>2 DEF z
  <2>5. 0 .. z - 1 = 0 .. w + C - 1
    BY <1>1, <2>3, <2>4
  <2> QED
    BY <2>3, <2>4, <2>5
<1> HIDE DEF w
<1> QED
  BY <1>1, <1>3

\* scroll_up's memmove of a page,
LEMMA PageShift ==
  ASSUME NEW m \in Memory, NEW t \in Terminals
  PROVE  LET n == Shift(m, Page(t))
         IN  /\ n \in Memory /\ ScreenKept(m, n)
             /\ \A u \in Terminals : u # t => PageKept(m, n, u)
             /\ \A p \in Cells : n[Page(t) + p] = m[Page(t) + (IF p < Lower THEN p + NUM_COLS
                                                               ELSE p)]
<1> DEFINE B == Page(t)
           n == Shift(m, B)
           moved(a) == a - B \in 0 .. Lower - 1
<1>1. B \in Int /\ NUM_COLS \in Nat
  <2>1. t \in Nat /\ PAGE \in Nat
    BY Numbers DEF Terminals
  <2> QED
    BY <2>1, Numbers DEF Page
<1>2. /\ \A q \in Cells : q \in Addresses
      /\ \A u \in Terminals, q \in Cells : Page(u) + q \in Addresses
      /\ \A q \in Cells, p \in Cells : B + p # q
      /\ \A u \in Terminals, q \in Cells, p \in Cells : Page(u) + q = B + p => u = t
  BY Where
<1>3. n = [a \in Addresses |-> IF moved(a) THEN m[a + NUM_COLS] ELSE m[a]]
  BY DEF Shift, Lower
<1>4. Cells \subseteq Nat /\ \A q \in 0 .. Lower - 1 : q \in Cells
  BY LowerIs
<1> HIDE DEF B
<1>5. \A a \in Addresses : moved(a) => \E p \in Cells : p < Lower /\ a = B + p
  <2> SUFFICES ASSUME NEW a \in Addresses, moved(a)
               PROVE  \E p \in Cells : p < Lower /\ a = B + p
    OBVIOUS
  <2>1. a \in Int
    <3>1. Addresses \subseteq Int
      BY DEF Addresses
    <3> QED
      BY <3>1
  <2>2. a = B + (a - B)
    BY <1>1, <2>1
  <2>3. a - B \in Cells /\ a - B < Lower
    BY <1>4, LowerIs
  <2> QED
    BY <2>2, <2>3
<1>6. n \in Memory
  <2>1. ASSUME NEW a \in Addresses PROVE (IF moved(a) THEN m[a + NUM_COLS] ELSE m[a]) \in Shades
    <3>1. CASE moved(a)
      <4>1. PICK p \in Cells : p < Lower /\ a = B + p
        BY <1>5, <3>1
      <4>2. p + NUM_COLS \in Cells /\ a + NUM_COLS = B + (p + NUM_COLS)
        BY <1>1, <1>4, <4>1, LowerIs
      <4>3. a + NUM_COLS \in Addresses
        BY <1>2, <4>2 DEF B
      <4> QED
        BY <3>1, <4>3 DEF Memory
    <3>2. CASE ~ moved(a)
      BY <3>2 DEF Memory
    <3> QED
      BY <3>1, <3>2
  <2> HIDE DEF moved
  <2> QED
    BY <1>3, <2>1 DEF Memory
<1>7. \A q \in Cells : ~ moved(q)
  BY <1>2, <1>5
<1>8. \A u \in Terminals, q \in Cells : u # t => ~ moved(Page(u) + q)
  BY <1>2, <1>5
<1>9. ASSUME NEW p \in Cells
      PROVE  n[B + p] = m[B + (IF p < Lower THEN p + NUM_COLS ELSE p)]
  <2>1. (B + p) - B = p /\ (B + p) + NUM_COLS = B + (p + NUM_COLS) /\ B + p \in Addresses
    <3>1. B + p \in Addresses
      BY <1>2 DEF B
    <3> QED
      BY <1>1, <1>4, <3>1
  <2>2. n[B + p] = IF moved(B + p) THEN m[(B + p) + NUM_COLS] ELSE m[B + p]
    BY <1>3, <2>1
  <2>3. moved(B + p) <=> p < Lower
    BY <2>1, LowerIs
  <2> HIDE DEF moved, n
  <2> QED
    BY <2>1, <2>2, <2>3
<1>10. ScreenKept(m, n)
  BY <1>2, <1>3, <1>7 DEF ScreenKept
<1>11. \A u \in Terminals : u # t => PageKept(m, n, u)
  BY <1>2, <1>3, <1>8 DEF PageKept
<1> HIDE DEF n
<1> QED
  BY <1>6, <1>9, <1>10, <1>11 DEF n, B

\* and of the screen.
LEMMA ScreenShift ==
  ASSUME NEW m \in Memory
  PROVE  LET n == Shift(m, 0)
         IN  /\ n \in Memory /\ \A u \in Terminals : PageKept(m, n, u)
             /\ \A p \in Cells : n[p] = m[IF p < Lower THEN p + NUM_COLS ELSE p]
<1> DEFINE n == Shift(m, 0)
<1>1. \A a \in Addresses : a - 0 = a
  BY DEF Addresses
<1>2. n = [a \in Addresses |-> IF a \in 0 .. Lower - 1 THEN m[a + NUM_COLS] ELSE m[a]]
  BY <1>1 DEF Shift, Lower
<1>3. Cells \subseteq Nat /\ \A q \in 0 .. Lower - 1 : q \in Cells
  BY LowerIs
<1>4. /\ \A q \in Cells : q \in Addresses
      /\ \A u \in Terminals, q \in Cells : Page(u) + q \in Addresses /\ Page(u) + q \notin Cells
  BY Where
<1>5. \A a \in 0 .. Lower - 1 : a + NUM_COLS \in Addresses
  BY <1>3, <1>4, LowerIs
<1>6. n \in Memory
  BY <1>2, <1>5 DEF Memory
<1>7. \A u \in Terminals : PageKept(m, n, u)
  BY <1>2, <1>3, <1>4 DEF PageKept
<1>8. \A p \in Cells : n[p] = m[IF p < Lower THEN p + NUM_COLS ELSE p]
  BY <1>2, <1>4, LowerIs
<1> QED
  BY <1>6, <1>7, <1>8

-----------------------------------------------------------------------------
(* The ideal terminal *)

Row == [Cols -> Shades]
Ideal == [rows : [Rows -> Row], x : 0 .. NUM_COLS - 1, y : 0 .. NUM_ROWS - 1]

\* A cell behind the cursor.
Behind(r, k, x, y) == r > y + 1 \/ (r = y + 1 /\ k > x)

\* An ideal terminal is blank behind its cursor.
GoodIdeal(e) ==
  /\ e \in Ideal
  /\ \A r \in Rows, k \in Cols : Behind(r, k, e.x, e.y) => e.rows[r][k] = Blank

\* The rows after the first one left.
Scrolled(rows) == Append(Tail(rows), BlankRow)

\* A row of blanks.
LEMMA BlankRowIs == BlankRow \in Row /\ \A k \in Cols : BlankRow[k] = Blank
BY DEF BlankRow, Row, Cols, Shades

\* Every row moves up by one.
LEMMA ScrolledIs ==
  ASSUME NEW rows \in [Rows -> Row]
  PROVE  /\ Scrolled(rows) \in [Rows -> Row]
         /\ \A r \in Rows : Scrolled(rows)[r] = IF r < NUM_ROWS THEN rows[r + 1] ELSE BlankRow
<1> DEFINE R == NUM_ROWS
           S == Row
           b == BlankRow
<1>1. R \in Nat /\ R > 0 /\ b \in S /\ rows \in [1 .. R -> S]
  BY Numbers, BlankRowIs DEF Rows
<1> HIDE DEF R, S, b
<1>2. rows \in Seq(S) /\ Len(rows) = R /\ rows # << >>
  BY <1>1
<1>3. /\ Tail(rows) \in Seq(S) /\ Len(Tail(rows)) = R - 1
      /\ \A i \in 1 .. R - 1 : Tail(rows)[i] = rows[i + 1]
  BY <1>1, <1>2
<1>4. /\ Append(Tail(rows), b) \in Seq(S) /\ Len(Append(Tail(rows), b)) = R
      /\ \A i \in 1 .. R - 1 : Append(Tail(rows), b)[i] = rows[i + 1]
      /\ Append(Tail(rows), b)[R] = b
  <2> DEFINE s == Tail(rows)
  <2> HIDE DEF s
  <2>1. s \in Seq(S) /\ Len(s) = R - 1 /\ \A i \in 1 .. R - 1 : s[i] = rows[i + 1]
    BY <1>3 DEF s
  <2>2. /\ Append(s, b) \in Seq(S) /\ Len(Append(s, b)) = (R - 1) + 1
        /\ \A i \in 1 .. R - 1 : Append(s, b)[i] = s[i]
        /\ Append(s, b)[(R - 1) + 1] = b
    BY <1>1, <2>1, AppendProperties
  <2>3. (R - 1) + 1 = R
    BY <1>1
  <2> QED
    BY <2>1, <2>2, <2>3 DEF s
<1> DEFINE n == Append(Tail(rows), b)
<1> HIDE DEF n
<1>5. n \in Seq(S) /\ Len(n) = R
  BY <1>4 DEF n
<1>6. n \in [1 .. R -> S]
  BY <1>1, <1>5
<1>7. \A r \in 1 .. R : n[r] = IF r < R THEN rows[r + 1] ELSE b
  <2> TAKE r \in 1 .. R
  <2>1. r < R => r \in 1 .. R - 1
    BY <1>1
  <2>2. ~ (r < R) => r = R
    BY <1>1
  <2> QED
    BY <1>4, <2>1, <2>2 DEF n
<1> QED
  BY <1>6, <1>7 DEF n, R, S, b, Scrolled, Rows

\* To the next row, which is blank.
LEMMA NewRowIs ==
  ASSUME NEW rows \in [Rows -> Row], NEW x, NEW y \in 0 .. NUM_ROWS - 1,
         \A r \in Rows, k \in Cols : r > y + 1 => rows[r][k] = Blank
  PROVE  LET n == NewRow([rows |-> rows, x |-> x, y |-> y])
         IN  /\ GoodIdeal(n) /\ n.x = 0
             /\ y < NUM_ROWS - 1 => n.rows = rows /\ n.y = y + 1
             /\ y = NUM_ROWS - 1 => n.rows = Scrolled(rows) /\ n.y = y
<1> DEFINE e == [rows |-> rows, x |-> x, y |-> y]
           n == NewRow(e)
<1>1. NUM_ROWS \in Nat /\ NUM_ROWS > 0 /\ NUM_COLS \in Nat /\ NUM_COLS > 0 /\ y \in Nat
  BY Numbers
<1>2. CASE y = NUM_ROWS - 1
  <2>1. n = [rows |-> Scrolled(rows), x |-> 0, y |-> y]
    BY <1>2 DEF NewRow, Scrolled
  <2>2. n \in Ideal
    BY <1>1, <2>1, ScrolledIs DEF Ideal
  <2>3. \A r \in Rows, k \in Cols : Behind(r, k, 0, y) => Scrolled(rows)[r][k] = Blank
    <3> TAKE r \in Rows, k \in Cols
    <3> HAVE Behind(r, k, 0, y)
    <3>1. ~ (r < NUM_ROWS)
      BY <1>1, <1>2 DEF Behind, Rows
    <3>2. Scrolled(rows)[r] = BlankRow
      BY <3>1, ScrolledIs
    <3> QED
      BY <3>2, BlankRowIs
  <2>4. n.rows = Scrolled(rows) /\ n.x = 0 /\ n.y = y
    BY <2>1
  <2> QED
    BY <1>1, <1>2, <2>2, <2>3, <2>4 DEF GoodIdeal
<1>3. CASE y # NUM_ROWS - 1
  <2>1. n = [rows |-> rows, x |-> 0, y |-> y + 1]
    BY <1>3 DEF NewRow
  <2>2. n.rows = rows /\ n.x = 0 /\ n.y = y + 1
    BY <2>1
  <2>3. n \in Ideal
    BY <1>1, <1>3, <2>1 DEF Ideal
  <2>4. \A r \in Rows, k \in Cols : Behind(r, k, 0, y + 1) => rows[r][k] = Blank
    BY <1>1 DEF Behind, Rows
  <2> QED
    BY <1>1, <1>3, <2>2, <2>3, <2>4 DEF GoodIdeal
<1> QED
  BY <1>2, <1>3

\* The rows with a character.
With(rows, r, k, c) == [rows EXCEPT ![r][k] = c]

\* One cell has changed.
LEMMA WithIs ==
  ASSUME NEW rows \in [Rows -> Row], NEW s \in Rows, NEW j \in Cols, NEW c \in Shades
  PROVE  /\ With(rows, s, j, c) \in [Rows -> Row]
         /\ With(rows, s, j, c)[s][j] = c
         /\ \A r \in Rows, k \in Cols : r # s \/ k # j => With(rows, s, j, c)[r][k] = rows[r][k]
<1>1. rows[s] \in Row
  OBVIOUS
<1> DEFINE q == [rows[s] EXCEPT ![j] = c]
<1>2. q \in Row /\ q[j] = c /\ \A k \in Cols : k # j => q[k] = rows[s][k]
  BY <1>1 DEF Row
<1>3. With(rows, s, j, c) = [rows EXCEPT ![s] = q]
  BY DEF With
<1> HIDE DEF q
<1>4. /\ With(rows, s, j, c) \in [Rows -> Row] /\ With(rows, s, j, c)[s] = q
      /\ \A r \in Rows : r # s => With(rows, s, j, c)[r] = rows[r]
  BY <1>2, <1>3
<1> QED
  BY <1>2, <1>4

\* An ideal terminal after a newline,
LEMMA ShowsNewline ==
  ASSUME NEW e, GoodIdeal(e)
  PROVE  LET n == Shows(e, Newline)
         IN  /\ GoodIdeal(n) /\ n.x = 0
             /\ e.y < NUM_ROWS - 1 => n.rows = e.rows /\ n.y = e.y + 1
             /\ e.y = NUM_ROWS - 1 => n.rows = Scrolled(e.rows) /\ n.y = e.y
<1>1. /\ e = [rows |-> e.rows, x |-> e.x, y |-> e.y] /\ e.rows \in [Rows -> Row]
      /\ e.y \in 0 .. NUM_ROWS - 1
  BY DEF GoodIdeal, Ideal
<1>2. \A r \in Rows, k \in Cols : r > e.y + 1 => e.rows[r][k] = Blank
  BY DEF GoodIdeal, Behind
<1>3. Shows(e, Newline) = NewRow(e)
  BY Zenon DEF Shows
<1> DEFINE f == [rows |-> e.rows, x |-> e.x, y |-> e.y]
<1>4. /\ GoodIdeal(NewRow(f)) /\ NewRow(f).x = 0
      /\ e.y < NUM_ROWS - 1 => NewRow(f).rows = e.rows /\ NewRow(f).y = e.y + 1
      /\ e.y = NUM_ROWS - 1 => NewRow(f).rows = Scrolled(e.rows) /\ NewRow(f).y = e.y
  BY <1>1, <1>2, NewRowIs
<1> QED
  BY <1>1, <1>3, <1>4

\* and after another character, at the end of its row or before.
LEMMA ShowsCharacter ==
  ASSUME NEW e, GoodIdeal(e), NEW c \in Chars
  PROVE  LET n == Shows(e, c)
             w == With(e.rows, e.y + 1, e.x + 1, c)
         IN  /\ GoodIdeal(n)
             /\ e.x + 1 # NUM_COLS => n.rows = w /\ n.x = e.x + 1 /\ n.y = e.y
             /\ e.x + 1 = NUM_COLS /\ e.y < NUM_ROWS - 1 =>
                   n.rows = w /\ n.x = 0 /\ n.y = e.y + 1
             /\ e.x + 1 = NUM_COLS /\ e.y = NUM_ROWS - 1 =>
                   n.rows = Scrolled(w) /\ n.x = 0 /\ n.y = e.y
<1> DEFINE w == With(e.rows, e.y + 1, e.x + 1, c)
           x == e.x
           y == e.y
           e1 == [rows |-> w, x |-> x + 1, y |-> y]
           n == Shows(e, c)
<1>1. /\ e = [rows |-> e.rows, x |-> x, y |-> y] /\ e.rows \in [Rows -> Row]
      /\ y \in 0 .. NUM_ROWS - 1 /\ x \in 0 .. NUM_COLS - 1
  BY DEF GoodIdeal, Ideal
<1>2. \A r \in Rows, k \in Cols : Behind(r, k, x, y) => e.rows[r][k] = Blank
  BY DEF GoodIdeal
<1>3. NUM_ROWS \in Nat /\ NUM_COLS \in Nat /\ x \in Nat /\ y \in Nat
  BY <1>1, Numbers
<1>4. y + 1 \in Rows /\ x + 1 \in Cols /\ c \in Shades /\ c # Newline
  <2>1. Newline \notin Chars
    BY ScreenAssumption
  <2> QED
    BY <1>1, <1>3, <2>1 DEF Rows, Cols, Shades
<1>5. /\ w \in [Rows -> Row]
      /\ \A r \in Rows, k \in Cols : r # y + 1 \/ k # x + 1 => w[r][k] = e.rows[r][k]
  BY <1>1, <1>4, WithIs
<1>6. [e EXCEPT !.rows[e.y + 1][e.x + 1] = c, !.x = @ + 1] = e1
  <2>1. [e EXCEPT !.rows[e.y + 1][e.x + 1] = c, !.x = @ + 1]
          = [[e EXCEPT !.rows[e.y + 1][e.x + 1] = c] EXCEPT !.x = e.x + 1]
    BY <1>1
  <2>2. [e EXCEPT !.rows[e.y + 1][e.x + 1] = c] = [rows |-> w, x |-> x, y |-> y]
    BY <1>1 DEF With
  <2>3. [e EXCEPT !.rows[e.y + 1][e.x + 1] = c, !.x = @ + 1]
          = [[rows |-> w, x |-> x, y |-> y] EXCEPT !.x = x + 1]
    BY <2>1, <2>2, Zenon
  <2> HIDE DEF w, x, y
  <2>4. [[rows |-> w, x |-> x, y |-> y] EXCEPT !.x = x + 1] = e1
    OBVIOUS
  <2> QED
    BY <2>3, <2>4 DEF w, x, y
<1>7. n = IF x + 1 = NUM_COLS THEN NewRow(e1) ELSE e1
  <2>1. e1.x = x + 1
    OBVIOUS
  <2>2. CASE x + 1 = NUM_COLS
    BY <1>4, <1>6, <2>1, <2>2, Zenon DEF Shows
  <2>3. CASE x + 1 # NUM_COLS
    BY <1>4, <1>6, <2>1, <2>3, Zenon DEF Shows
  <2> QED
    BY <2>2, <2>3
<1> HIDE DEF w, n
<1>8. \A r \in Rows, k \in Cols : Behind(r, k, x + 1, y) => w[r][k] = Blank
  <2> TAKE r \in Rows, k \in Cols
  <2> HAVE Behind(r, k, x + 1, y)
  <2>1. Behind(r, k, x, y) /\ (r # y + 1 \/ k # x + 1)
    BY <1>3 DEF Behind, Rows, Cols
  <2> QED
    BY <1>2, <1>5, <2>1
<1>9. CASE x + 1 # NUM_COLS
  <2>1. n = e1
    BY <1>7, <1>9
  <2>2. e1.rows = w /\ e1.x = x + 1 /\ e1.y = y
    OBVIOUS
  <2>3. e1 \in Ideal
    BY <1>1, <1>3, <1>5, <1>9 DEF Ideal
  <2> QED
    BY <1>8, <1>9, <2>1, <2>2, <2>3 DEF GoodIdeal, w, n
<1>10. CASE x + 1 = NUM_COLS
  <2>1. n = NewRow(e1)
    BY <1>7, <1>10
  <2>2. \A r \in Rows, k \in Cols : r > y + 1 => w[r][k] = Blank
    BY <1>8 DEF Behind
  <2>3. /\ GoodIdeal(NewRow(e1)) /\ NewRow(e1).x = 0
        /\ y < NUM_ROWS - 1 => NewRow(e1).rows = w /\ NewRow(e1).y = y + 1
        /\ y = NUM_ROWS - 1 => NewRow(e1).rows = Scrolled(w) /\ NewRow(e1).y = y
    BY <1>1, <1>5, <2>2, NewRowIs
  <2> QED
    BY <1>10, <2>1, <2>3 DEF w, n
<1> QED
  BY <1>9, <1>10

\* Where the cursor of a terminal goes that erases a character.
BackX(x) == IF x > 0 THEN x ELSE NUM_COLS
BackY(x, y) == IF x > 0 THEN y ELSE y - 1

\* The character in front of the cursor goes.
LEMMA ErasesIs ==
  ASSUME NEW e, GoodIdeal(e), e.x > 0 \/ e.y > 0
  PROVE  LET n == Erases(e)
         IN  /\ GoodIdeal(n) /\ n.x = BackX(e.x) - 1 /\ n.y = BackY(e.x, e.y)
             /\ n.rows = With(e.rows, BackY(e.x, e.y) + 1, BackX(e.x), Blank)
<1> DEFINE x == e.x
           y == e.y
           x1 == BackX(x)
           y1 == BackY(x, y)
           w == With(e.rows, y1 + 1, x1, Blank)
           n == Erases(e)
<1>1. /\ e = [rows |-> e.rows, x |-> x, y |-> y] /\ e.rows \in [Rows -> Row]
      /\ y \in 0 .. NUM_ROWS - 1 /\ x \in 0 .. NUM_COLS - 1
  BY DEF GoodIdeal, Ideal
<1>2. NUM_ROWS \in Nat /\ NUM_COLS \in Nat /\ NUM_COLS > 0 /\ x \in Nat /\ y \in Nat
  BY <1>1, Numbers
<1>3. /\ x1 \in Cols /\ y1 \in 0 .. NUM_ROWS - 1 /\ y1 + 1 \in Rows
      /\ x1 - 1 \in 0 .. NUM_COLS - 1 /\ (x1 - 1) + 1 = x1
  BY <1>1, <1>2 DEF BackX, BackY, Rows, Cols
<1>4. /\ w \in [Rows -> Row] /\ w[y1 + 1][x1] = Blank
      /\ \A r \in Rows, k \in Cols : r # y1 + 1 \/ k # x1 => w[r][k] = e.rows[r][k]
  BY <1>1, <1>3, WithIs DEF Shades
<1>5. n = [rows |-> w, x |-> x1 - 1, y |-> y1]
  <2> DEFINE e1 == IF e.x > 0 THEN [e EXCEPT !.x = @ - 1]
                   ELSE [e EXCEPT !.x = NUM_COLS - 1, !.y = @ - 1]
  <2>1. e1 = [rows |-> e.rows, x |-> x1 - 1, y |-> y1]
    BY <1>1, <1>2 DEF BackX, BackY
  <2> DEFINE f == [rows |-> e.rows, x |-> x1 - 1, y |-> y1]
  <2>2. n = [f EXCEPT !.rows[f.y + 1][f.x + 1] = Blank]
    BY <2>1, Zenon DEF Erases
  <2>3. f.y = y1 /\ f.x = x1 - 1 /\ f.rows = e.rows
    OBVIOUS
  <2>4. n = [f EXCEPT !.rows[y1 + 1][x1] = Blank]
    BY <1>3, <2>2, <2>3
  <2> HIDE DEF x1, y1
  <2> QED
    BY <2>4 DEF With
<1>6. \A r \in Rows, k \in Cols : Behind(r, k, x1 - 1, y1) => w[r][k] = Blank
  <2> TAKE r \in Rows, k \in Cols
  <2> HAVE Behind(r, k, x1 - 1, y1)
  <2>1. CASE r = y1 + 1 /\ k = x1
    BY <1>4, <2>1
  <2>2. CASE ~ (r = y1 + 1 /\ k = x1)
    <3>1. Behind(r, k, x, y)
      BY <1>1, <1>2, <2>2 DEF Behind, BackX, BackY, Rows, Cols
    <3>2. e.rows[r][k] = Blank
      BY <3>1 DEF GoodIdeal
    <3> QED
      BY <1>4, <2>2, <3>2
  <2> QED
    BY <2>1, <2>2
<1> HIDE DEF x1, y1, w
<1>7. n.rows = w /\ n.x = x1 - 1 /\ n.y = y1 /\ n \in Ideal
  BY <1>3, <1>4, <1>5 DEF Ideal
<1> QED
  BY <1>6, <1>7 DEF GoodIdeal, w, x1, y1

\* A blank terminal.
LEMMA BlankTerminalIs == GoodIdeal(BlankTerminal)
<1>1. BlankTerminal = [rows |-> [k \in Rows |-> BlankRow], x |-> 0, y |-> 0]
  BY DEF BlankTerminal, Rows
<1>2. BlankTerminal \in Ideal
  BY <1>1, BlankRowIs, Numbers DEF Ideal
<1>3. \A r \in Rows, k \in Cols : BlankTerminal.rows[r][k] = Blank
  BY <1>1, BlankRowIs
<1> QED
  BY <1>2, <1>3 DEF GoodIdeal

-----------------------------------------------------------------------------
(* What the handlers do to the console *)

Consoles == [mem : Memory, x : [Terminals -> Int], y : [Terminals -> Int]]

\* The ideal terminal e is what terminal a shows, and the screen.
Shown(con, a, e) ==
  /\ GoodIdeal(e) /\ Whole(con.mem, a, e) /\ Mirrors(con.mem, a)
  /\ con.x[a] = e.x /\ con.y[a] = e.y

\* Nothing changes for the terminals but a.
Only(con, n, a) ==
  \A u \in Terminals : u # a => /\ PageKept(con.mem, n.mem, u)
                                /\ n.x[u] = con.x[u] /\ n.y[u] = con.y[u]

\* On the page of t one cell changes.
CellSet(m, n, t, r, k, c) ==
  /\ n[Page(t) + Cell(r, k)] = c
  /\ \A s \in Rows, j \in Cols :
        s # r \/ j # k => n[Page(t) + Cell(s, j)] = m[Page(t) + Cell(s, j)]

\* A console with other cursors, or with other memory too.
LEMMA ConsoleXY ==
  ASSUME NEW con, NEW m, NEW x, NEW y, NEW v, NEW w, con = [mem |-> m, x |-> x, y |-> y]
  PROVE  [con EXCEPT !.x = v, !.y = w] = [mem |-> m, x |-> v, y |-> w]
<1>1. [con EXCEPT !.x = v, !.y = w] = [[con EXCEPT !.x = v] EXCEPT !.y = w]
  BY SMT
<1>2. [con EXCEPT !.x = v] = [mem |-> m, x |-> v, y |-> y]
  OBVIOUS
<1>3. [[mem |-> m, x |-> v, y |-> y] EXCEPT !.y = w] = [mem |-> m, x |-> v, y |-> w]
  OBVIOUS
<1> QED
  BY <1>1, <1>2, <1>3, Zenon

\* One cell after another: nothing changes for the others.
LEMMA OnlyTwice ==
  ASSUME NEW con, NEW b, NEW n, NEW a, Only(con, b, a), Only(b, n, a)
  PROVE  Only(con, n, a)
BY DEF Only, PageKept

\* A character that is stored on the page is a character more on the ideal terminal.
LEMMA WholeWith ==
  ASSUME NEW m, NEW n, NEW t, NEW r \in Rows, NEW k \in Cols, NEW c \in Shades,
         NEW e, NEW f, e.rows \in [Rows -> Row], Whole(m, t, e), CellSet(m, n, t, r, k, c),
         f.rows = With(e.rows, r, k, c)
  PROVE  Whole(n, t, f)
<1> SUFFICES ASSUME NEW s \in Rows, NEW j \in Cols
             PROVE  n[Page(t) + Cell(s, j)] = f.rows[s][j]
  BY DEF Whole
<1>1. CASE s = r /\ j = k
  BY <1>1, WithIs DEF CellSet
<1>2. CASE ~ (s = r /\ j = k)
  <2>1. f.rows[s][j] = e.rows[s][j]
    BY <1>2, WithIs
  <2> QED
    BY <1>2, <2>1 DEF CellSet, Whole
<1> QED
  BY <1>1, <1>2

\* A store to the page sets a cell.
LEMMA StoreIs ==
  ASSUME NEW m \in Memory, NEW t \in Terminals, NEW r \in Rows, NEW k \in Cols,
         NEW c \in Shades
  PROVE  LET n == Store(m, Page(t) + Cell(r, k), c)
         IN  /\ n \in Memory /\ ScreenKept(m, n) /\ CellSet(m, n, t, r, k, c)
             /\ \A u \in Terminals : u # t => PageKept(m, n, u)
<1> DEFINE p == Cell(r, k)
           n == Store(m, Page(t) + p, c)
<1>1. p \in Cells
  BY CellIs
<1> HIDE DEF p
<1>2. /\ n \in Memory /\ ScreenKept(m, n) /\ n[Page(t) + p] = c
      /\ \A u \in Terminals : u # t => PageKept(m, n, u)
      /\ \A q \in Cells : q # p => n[Page(t) + q] = m[Page(t) + q]
  BY <1>1, PageStore
<1>3. \A s \in Rows, j \in Cols : s # r \/ j # k => Cell(s, j) \in Cells /\ Cell(s, j) # p
  BY CellIs, CellUnique DEF p
<1> HIDE DEF n
<1>4. CellSet(m, n, t, r, k, c)
  BY <1>2, <1>3 DEF CellSet, p
<1> QED
  BY <1>2, <1>4 DEF n, p

\* The same store to the page and to the screen.
LEMMA DoubleStore ==
  ASSUME NEW m \in Memory, NEW t \in Terminals, NEW r \in Rows, NEW k \in Cols,
         NEW c \in Shades
  PROVE  LET n == Store(Store(m, Page(t) + Cell(r, k), c), Cell(r, k), c)
         IN  /\ n \in Memory /\ CellSet(m, n, t, r, k, c)
             /\ \A u \in Terminals : u # t => PageKept(m, n, u)
             /\ Mirrors(m, t) => Mirrors(n, t)
<1> DEFINE p == Cell(r, k)
           b == Store(m, Page(t) + p, c)
           n == Store(b, p, c)
<1>1. p \in Cells
  BY CellIs
<1>2. /\ b \in Memory /\ ScreenKept(m, b) /\ CellSet(m, b, t, r, k, c)
      /\ \A u \in Terminals : u # t => PageKept(m, b, u)
  BY StoreIs
<1>3. b[Page(t) + p] = c /\ \A q \in Cells : q # p => b[Page(t) + q] = m[Page(t) + q]
  <2> HIDE DEF p
  <2> QED
    BY <1>1, PageStore
<1> HIDE DEF b, p
<1>4. /\ n \in Memory /\ \A u \in Terminals : PageKept(b, n, u)
      /\ n[p] = c /\ \A q \in Cells : q # p => n[q] = b[q]
  BY <1>1, <1>2, ScreenStore
<1> HIDE DEF n
<1>5. \A u \in Terminals : u # t => PageKept(m, n, u)
  BY <1>2, <1>4 DEF PageKept
<1>6. CellSet(m, n, t, r, k, c)
  <2>1. \A s \in Rows, j \in Cols : Cell(s, j) \in Cells
    BY CellIs
  <2>2. \A s \in Rows, j \in Cols : n[Page(t) + Cell(s, j)] = b[Page(t) + Cell(s, j)]
    BY <1>4, <2>1 DEF PageKept
  <2> QED
    BY <1>2, <2>2 DEF CellSet
<1>7. Mirrors(m, t) => Mirrors(n, t)
  BY <1>1, <1>2, <1>3, <1>4 DEF Mirrors, ScreenKept, PageKept
<1> QED
  BY <1>4, <1>5, <1>6, <1>7 DEF n, b, p

\* put_backspace for the terminal on the screen blanks the cell before its cursor.
LEMMA BackspaceIs ==
  ASSUME NEW con \in Consoles, NEW a, a = current_active_terminal, a \in Terminals,
         NEW x, NEW y, x = con.x[a], y = con.y[a],
         x \in 0 .. NUM_COLS, y \in 0 .. NUM_ROWS - 1, x > 0 \/ y > 0
  PROVE  LET n == put_backspace(con, a)
         IN  /\ n \in Consoles /\ Only(con, n, a)
             /\ n.x[a] = BackX(x) - 1 /\ n.y[a] = BackY(x, y)
             /\ BackX(x) \in Cols /\ BackY(x, y) + 1 \in Rows
             /\ CellSet(con.mem, n.mem, a, BackY(x, y) + 1, BackX(x), Blank)
             /\ Mirrors(con.mem, a) => Mirrors(n.mem, a)
<1> DEFINE x1 == BackX(x)
           y1 == BackY(x, y)
           c1 == IF con.x[a] <= 0 THEN [con EXCEPT !.x[a] = @ + NUM_COLS, !.y[a] = @ - 1]
                                  ELSE con
           p == Position(c1, a) - 1
           m == Store(Store(con.mem, Page(a) + p, Blank), p, Blank)
           n == put_backspace(con, a)
<1>1. /\ con = [mem |-> con.mem, x |-> con.x, y |-> con.y]
      /\ con.mem \in Memory /\ con.x \in [Terminals -> Int] /\ con.y \in [Terminals -> Int]
  BY DEF Consoles
<1>2. NUM_ROWS \in Nat /\ NUM_COLS \in Nat /\ NUM_COLS > 0 /\ x \in Nat /\ y \in Nat
  BY Numbers
<1>3. /\ x1 \in Cols /\ y1 \in 0 .. NUM_ROWS - 1 /\ y1 + 1 \in Rows
      /\ x1 \in Nat /\ x1 > 0 /\ y1 \in Nat
  BY <1>2 DEF BackX, BackY, Rows, Cols
<1>4. /\ c1 = [mem |-> con.mem, x |-> c1.x, y |-> c1.y]
      /\ c1.x \in [Terminals -> Int] /\ c1.y \in [Terminals -> Int]
      /\ c1.x[a] = x1 /\ c1.y[a] = y1
      /\ \A u \in Terminals : u # a => c1.x[u] = con.x[u] /\ c1.y[u] = con.y[u]
  <2>1. CASE x > 0
    <3>1. c1 = con
      BY <1>2, <2>1
    <3> HIDE DEF c1
    <3> QED
      BY <1>1, <2>1, <3>1 DEF BackX, BackY
  <2>2. CASE ~ (x > 0)
    <3>1. x = 0 /\ c1 = [con EXCEPT !.x[a] = @ + NUM_COLS, !.y[a] = @ - 1]
      BY <1>2, <2>2
    <3>2. c1 = [mem |-> con.mem, x |-> [con.x EXCEPT ![a] = NUM_COLS],
                y |-> [con.y EXCEPT ![a] = y - 1]]
      <4> HIDE DEF c1
      <4>1. c1 = [con EXCEPT !.x = [con.x EXCEPT ![a] = con.x[a] + NUM_COLS],
                             !.y = [con.y EXCEPT ![a] = con.y[a] - 1]]
        BY <1>1, <3>1
      <4>2. con.x[a] + NUM_COLS = NUM_COLS /\ con.y[a] - 1 = y - 1
        BY <1>2, <3>1
      <4> DEFINE g == [con.x EXCEPT ![a] = NUM_COLS]
                 h == [con.y EXCEPT ![a] = y - 1]
      <4>3. c1 = [con EXCEPT !.x = g, !.y = h]
        BY <4>1, <4>2, Zenon
      <4> HIDE DEF g, h
      <4>4. c1 = [mem |-> con.mem, x |-> g, y |-> h]
        BY <1>1, <4>3, ConsoleXY
      <4> QED
        BY <4>4 DEF g, h
    <3> HIDE DEF c1
    <3>3. x1 = NUM_COLS /\ y1 = y - 1 /\ y - 1 \in Int /\ NUM_COLS \in Int
      BY <1>2, <2>2 DEF BackX, BackY
    <3> QED
      BY <1>1, <3>2, <3>3
  <2> QED
    BY <2>1, <2>2
<1>5. n = [c1 EXCEPT !.x[a] = @ - 1, !.mem = m]
  BY DEF put_backspace
<1> HIDE DEF c1
<1>6. p = Cell(y1 + 1, x1)
  <2> HIDE DEF x1, y1
  <2> QED
    BY <1>3, <1>4, PositionIs
<1>7. n = [mem |-> m, x |-> [c1.x EXCEPT ![a] = x1 - 1], y |-> c1.y]
  <2> HIDE DEF m, n, x1, y1
  <2> QED
    BY <1>4, <1>5
<1> HIDE DEF p, x1, y1, n
<1> DEFINE pos == Cell(y1 + 1, x1)
<1>8. m = Store(Store(con.mem, Page(a) + pos, Blank), pos, Blank)
  BY <1>6
<1>9. Blank \in Shades
  BY DEF Shades
<1>10. /\ m \in Memory /\ CellSet(con.mem, m, a, y1 + 1, x1, Blank)
       /\ \A u \in Terminals : u # a => PageKept(con.mem, m, u)
       /\ Mirrors(con.mem, a) => Mirrors(m, a)
  <2> HIDE DEF m
  <2> QED
    BY <1>1, <1>3, <1>8, <1>9, DoubleStore
<1> HIDE DEF m
<1>11. /\ n.mem = m /\ n.x[a] = x1 - 1 /\ n.y[a] = y1 /\ n \in Consoles
       /\ \A u \in Terminals : u # a => n.x[u] = con.x[u] /\ n.y[u] = con.y[u]
  <2>1. x1 - 1 \in Int
    BY <1>3
  <2> QED
    BY <1>4, <1>7, <1>10, <2>1 DEF Consoles
<1>12. Only(con, n, a)
  BY <1>10, <1>11 DEF Only
<1> QED
  BY <1>3, <1>10, <1>11, <1>12 DEF n, x1, y1

\* A store keeps the type.
LEMMA StoreTyped ==
  ASSUME NEW m \in Memory, NEW p, NEW c \in Shades
  PROVE  Store(m, p, c) \in Memory
BY DEF Store, Memory

\* A console whose cursor moves is a console.
LEMMA CursorTyped ==
  ASSUME NEW con \in Consoles, NEW a \in Terminals, NEW n,
         n = [con EXCEPT !.x[a] = @ + NUM_COLS, !.y[a] = @ - 1]
  PROVE  n \in Consoles
<1>1. con.x[a] + NUM_COLS \in Int /\ con.y[a] - 1 \in Int
  BY Numbers DEF Consoles
<1> QED
  BY <1>1 DEF Consoles

\* put_backspace keeps the type,
LEMMA BackspaceTyped ==
  ASSUME NEW con \in Consoles, NEW a, a = current_active_terminal, a \in Terminals
  PROVE  put_backspace(con, a) \in Consoles
<1> DEFINE c1 == IF con.x[a] <= 0 THEN [con EXCEPT !.x[a] = @ + NUM_COLS, !.y[a] = @ - 1]
                                  ELSE con
           p == Position(c1, a) - 1
           m == Store(Store(con.mem, Page(a) + p, Blank), p, Blank)
           n == put_backspace(con, a)
<1>1. c1 \in Consoles
  <2>1. CASE con.x[a] <= 0
    <3>1. c1 = [con EXCEPT !.x[a] = @ + NUM_COLS, !.y[a] = @ - 1]
      BY <2>1
    <3> HIDE DEF c1
    <3> QED
      BY <3>1, CursorTyped
  <2>2. CASE ~ (con.x[a] <= 0)
    BY <2>2
  <2> QED
    BY <2>1, <2>2
<1> DEFINE s == Store(Store(c1.mem, Page(a) + p, Blank), p, Blank)
<1>2. n = [c1 EXCEPT !.x[a] = @ - 1, !.mem = s]
  BY DEF put_backspace
<1> HIDE DEF c1, p
<1>3. s \in Memory
  BY <1>1, StoreTyped DEF Consoles, Shades
<1> HIDE DEF s, n
<1>4. c1.x[a] - 1 \in Int
  BY <1>1 DEF Consoles
<1>5. n \in Consoles
  BY <1>1, <1>2, <1>3, <1>4 DEF Consoles
<1> QED
  BY <1>5 DEF n

\* and so does its repetition in scroll_up, whose rounds exist.
LEMMA ErasedIs ==
  ASSUME NEW con \in Consoles, NEW a, a = current_active_terminal, a \in Terminals,
         NEW n \in Nat
  PROVE  \E f \in [0 .. n -> Consoles] :
            /\ scroll_up(con, n) = [f[n] EXCEPT !.y[a] = NUM_ROWS - 1]
            /\ f[0] = [con EXCEPT !.mem = Shift(Shift(@, Page(a)), 0)]
            /\ \A k \in 1 .. n : f[k] = put_backspace(f[k - 1], a)
<1> DEFINE base == [con EXCEPT !.mem = Shift(Shift(@, Page(a)), 0)]
           Eq(f) == f = [k \in 0 .. n |-> IF k = 0 THEN base ELSE put_backspace(f[k - 1], a)]
           step == [k \in Nat |-> [r \in Consoles |-> put_backspace(r, a)]]
           c == CHOOSE f : Eq(f)
<1>1. base \in Consoles
  <2>1. con.mem \in Memory
    BY DEF Consoles
  <2>2. Shift(Shift(con.mem, Page(a)), 0) \in Memory
    BY <2>1, PageShift, ScreenShift
  <2> QED
    BY <2>2 DEF Consoles
<1>2. \A k \in Nat, r \in Consoles : step[k][r] = put_backspace(r, a) /\ step[k][r] \in Consoles
  BY BackspaceTyped
<1> HIDE DEF base, step
<1>3. \E f : Eq(f)
  <2>1. Computed(Consoles, base, step, n)
    BY <1>1, <1>2, Recursion
  <2>2. PICK f \in [0 .. n -> Consoles] :
           f[0] = base /\ \A k \in 1 .. n : f[k] = step[k][f[k - 1]]
    BY <2>1 DEF Computed
  <2>3. \A k \in 0 .. n : k # 0 => k \in 1 .. n /\ k \in Nat /\ f[k - 1] \in Consoles
    OBVIOUS
  <2>4. \A k \in 0 .. n : k # 0 => f[k] = put_backspace(f[k - 1], a)
    BY <1>2, <2>2, <2>3
  <2>5. f = [k \in 0 .. n |-> f[k]]
    OBVIOUS
  <2> QED
    BY <2>2, <2>4, <2>5
<1>4. Eq(c)
  <2> HIDE DEF Eq
  <2> QED
    BY <1>3
<1>5. scroll_up(con, n) = [c[n] EXCEPT !.y[a] = NUM_ROWS - 1]
  BY DEF scroll_up, base
<1> HIDE DEF c
<1>6. c[0] = base /\ \A k \in 1 .. n : c[k] = put_backspace(c[k - 1], a)
  BY <1>4
<1> DEFINE Good == {k \in Nat : k \in 0 .. n => c[k] \in Consoles}
<1>7. Nat \subseteq Good
  <2>1. 0 \in Good
    BY <1>1, <1>6
  <2>2. ASSUME NEW k \in Nat, k \in Good PROVE k + 1 \in Good
    <3> SUFFICES ASSUME k + 1 \in 0 .. n PROVE c[k + 1] \in Consoles
      OBVIOUS
    <3>1. k \in 0 .. n /\ k + 1 \in 1 .. n /\ (k + 1) - 1 = k
      OBVIOUS
    <3>2. c[k] \in Consoles
      BY <2>2, <3>1
    <3>3. c[k + 1] = put_backspace(c[k], a)
      BY <1>6, <3>1
    <3> QED
      BY <3>2, <3>3, BackspaceTyped
  <2> HIDE DEF Good
  <2> QED
    BY <2>1, <2>2, AllNat
<1>8. c \in [0 .. n -> Consoles]
  <2>1. \A k \in 0 .. n : c[k] \in Consoles
    BY <1>7
  <2>2. c = [k \in 0 .. n |-> c[k]]
    BY <1>4
  <2> HIDE DEF Good
  <2> QED
    BY <2>1, <2>2
<1> QED
  BY <1>5, <1>6, <1>8 DEF base

\* The first move of scroll_up: the page scrolls, the screen lags behind.
LEMMA PageShifted ==
  ASSUME NEW m \in Memory, NEW a \in Terminals, NEW n \in Nat, Bare(m, a, n),
         NEW e, Coming(m, a, e)
  PROVE  LET s == Shift(m, Page(a))
         IN  /\ s \in Memory /\ ScreenKept(m, s) /\ Upper(s, a, e) /\ Bare(s, a, n)
             /\ Mirrors(m, a) => Lags(s, a)
             /\ \A u \in Terminals : u # a => PageKept(m, s, u)
<1> DEFINE s == Shift(m, Page(a))
<1>1. /\ s \in Memory /\ ScreenKept(m, s) /\ \A u \in Terminals : u # a => PageKept(m, s, u)
      /\ \A p \in Cells : s[Page(a) + p] = m[Page(a) + (IF p < Lower THEN p + NUM_COLS ELSE p)]
  BY PageShift
<1> HIDE DEF s
<1>2. ASSUME NEW r \in Rows, NEW k \in Cols, r < NUM_ROWS
      PROVE  s[Page(a) + Cell(r, k)] = e.rows[r][k]
  <2>1. Cell(r, k) \in Cells /\ Cell(r, k) < Lower /\ Cell(r, k) + NUM_COLS = Cell(r + 1, k)
    BY <1>2, CellIs
  <2>2. s[Page(a) + Cell(r, k)] = m[Page(a) + Cell(r + 1, k)]
    BY <1>1, <2>1
  <2> QED
    BY <1>2, <2>2 DEF Coming
<1>3. ASSUME NEW k \in Cols, k > n
      PROVE  s[Page(a) + Cell(NUM_ROWS, k)] = Blank
  <2>1. NUM_ROWS \in Rows
    BY Numbers DEF Rows
  <2>2. Cell(NUM_ROWS, k) \in Cells /\ ~ (Cell(NUM_ROWS, k) < Lower)
    BY <2>1, CellIs
  <2>3. s[Page(a) + Cell(NUM_ROWS, k)] = m[Page(a) + Cell(NUM_ROWS, k)]
    BY <1>1, <2>2
  <2> QED
    BY <1>3, <2>3 DEF Bare
<1>4. Mirrors(m, a) => Lags(s, a)
  <2> SUFFICES ASSUME Mirrors(m, a), NEW p \in Cells
               PROVE  s[IF p < Lower THEN p + NUM_COLS ELSE p] = s[Page(a) + p]
    BY DEF Lags
  <2> DEFINE q == IF p < Lower THEN p + NUM_COLS ELSE p
  <2>1. q \in Cells
    BY LowerIs
  <2>2. s[q] = m[q] /\ m[q] = m[Page(a) + q] /\ s[Page(a) + p] = m[Page(a) + q]
    <3>1. s[Page(a) + p] = m[Page(a) + q]
      BY <1>1
    <3> HIDE DEF q
    <3> QED
      BY <1>1, <2>1, <3>1 DEF ScreenKept, Mirrors
  <2> QED
    BY <2>2
<1> QED
  BY <1>1, <1>2, <1>3, <1>4 DEF s, Upper, Bare

\* The second one: the screen catches up.
LEMMA ScreenShifted ==
  ASSUME NEW m \in Memory, NEW a \in Terminals, Lags(m, a)
  PROVE  LET s == Shift(m, 0)
         IN  s \in Memory /\ (\A u \in Terminals : PageKept(m, s, u)) /\ Mirrors(s, a)
<1> DEFINE s == Shift(m, 0)
<1>1. /\ s \in Memory /\ \A u \in Terminals : PageKept(m, s, u)
      /\ \A p \in Cells : s[p] = m[IF p < Lower THEN p + NUM_COLS ELSE p]
  BY ScreenShift
<1> HIDE DEF s
<1>2. Mirrors(s, a)
  BY <1>1 DEF Mirrors, Lags, PageKept
<1> QED
  BY <1>1, <1>2 DEF s

\* The memory after the two moves of scroll_up.
LEMMA ShiftedIs ==
  ASSUME NEW m \in Memory, NEW a \in Terminals, NEW n \in Nat, Mirrors(m, a), Bare(m, a, n),
         NEW e, Coming(m, a, e)
  PROVE  LET s == Shift(Shift(m, Page(a)), 0)
         IN  /\ s \in Memory /\ Upper(s, a, e) /\ Bare(s, a, n) /\ Mirrors(s, a)
             /\ \A u \in Terminals : u # a => PageKept(m, s, u)
<1> DEFINE b == Shift(m, Page(a))
           s == Shift(b, 0)
<1>1. /\ b \in Memory /\ Upper(b, a, e) /\ Bare(b, a, n) /\ Lags(b, a)
      /\ \A u \in Terminals : u # a => PageKept(m, b, u)
  BY PageShifted
<1> HIDE DEF b
<1>2. s \in Memory /\ (\A u \in Terminals : PageKept(b, s, u)) /\ Mirrors(s, a)
  BY <1>1, ScreenShifted
<1> HIDE DEF s
<1>3. \A r \in Rows, k \in Cols : s[Page(a) + Cell(r, k)] = b[Page(a) + Cell(r, k)]
  BY <1>2, CellIs DEF PageKept
<1>4. NUM_ROWS \in Rows
  BY Numbers DEF Rows
<1>5. Upper(s, a, e) /\ Bare(s, a, n)
  BY <1>1, <1>3, <1>4 DEF Upper, Bare
<1>6. \A u \in Terminals : u # a => PageKept(m, s, u)
  BY <1>1, <1>2 DEF PageKept
<1> QED
  BY <1>2, <1>5, <1>6 DEF s, b

\* scroll_up for the terminal on the screen: the rows move up, the last is blank.
LEMMA ScrollIs ==
  ASSUME NEW con \in Consoles, NEW a, a = current_active_terminal, a \in Terminals,
         NEW n \in 0 .. NUM_COLS, con.x[a] = n, con.y[a] = NUM_ROWS - 1,
         Mirrors(con.mem, a), Bare(con.mem, a, n),
         NEW e, Coming(con.mem, a, e), \A k \in Cols : e.rows[NUM_ROWS][k] = Blank
  PROVE  LET s == scroll_up(con, n)
         IN  /\ s \in Consoles /\ Only(con, s, a)
             /\ Whole(s.mem, a, e) /\ Mirrors(s.mem, a)
             /\ s.x[a] = 0 /\ s.y[a] = NUM_ROWS - 1
<1> DEFINE R == NUM_ROWS
           m1 == Shift(con.mem, Page(a))
           m2 == Shift(m1, 0)
<1>1. /\ R \in Nat /\ R > 0 /\ NUM_COLS \in Nat /\ n \in Nat /\ R \in Rows
      /\ con.mem \in Memory
  BY Numbers DEF Consoles, Rows
<1>2. PICK f \in [0 .. n -> Consoles] :
            /\ scroll_up(con, n) = [f[n] EXCEPT !.y[a] = NUM_ROWS - 1]
            /\ f[0] = [con EXCEPT !.mem = Shift(Shift(@, Page(a)), 0)]
            /\ \A k \in 1 .. n : f[k] = put_backspace(f[k - 1], a)
  BY <1>1, ErasedIs
<1>3. /\ m2 \in Memory /\ Upper(m2, a, e) /\ Bare(m2, a, n) /\ Mirrors(m2, a)
      /\ \A u \in Terminals : u # a => PageKept(con.mem, m2, u)
  BY <1>1, ShiftedIs
<1>4. f[0] \in Consoles /\ f[0].mem = m2 /\ f[0].x = con.x /\ f[0].y = con.y
  <2> HIDE DEF m2
  <2>1. con = [mem |-> con.mem, x |-> con.x, y |-> con.y]
    BY DEF Consoles
  <2>2. f[0] = [con EXCEPT !.mem = m2]
    BY <1>2 DEF m2
  <2>3. 0 \in 0 .. n
    BY <1>1
  <2> QED
    BY <1>2, <2>1, <2>2, <2>3
<1> HIDE DEF m1, m2, R
<1> DEFINE Fine(c, l) == /\ c \in Consoles /\ Only(con, c, a)
                         /\ c.x[a] = l /\ c.y[a] = NUM_ROWS - 1
                         /\ Mirrors(c.mem, a) /\ Upper(c.mem, a, e) /\ Bare(c.mem, a, l)
           Good == {k \in Nat : k \in 0 .. n => Fine(f[k], n - k)}
<1>5. Nat \subseteq Good
  <2>1. 0 \in Good
    <3>1. n - 0 = n
      BY <1>1
    <3>2. Only(con, f[0], a)
      BY <1>3, <1>4 DEF Only
    <3>3. Fine(f[0], n)
      BY <1>3, <1>4, <3>2
    <3> HIDE DEF Fine
    <3> QED
      BY <3>1, <3>3
  <2>2. ASSUME NEW k \in Nat, k \in Good PROVE k + 1 \in Good
    <3> SUFFICES ASSUME k + 1 \in 0 .. n PROVE Fine(f[k + 1], n - (k + 1))
      OBVIOUS
    <3> DEFINE l == n - k
               c == f[k]
               d == f[k + 1]
    <3>1. /\ k \in 0 .. n /\ k + 1 \in 1 .. n /\ (k + 1) - 1 = k
          /\ l \in Nat /\ l > 0 /\ n - (k + 1) = l - 1 /\ l \in 0 .. NUM_COLS
      BY <1>1
    <3>2. Fine(c, l)
      BY <2>2, <3>1
    <3>3. d = put_backspace(c, a)
      BY <1>2, <3>1
    <3> HIDE DEF l, c, d
    <3>4. BackX(l) = l /\ BackY(l, NUM_ROWS - 1) = NUM_ROWS - 1 /\ (NUM_ROWS - 1) + 1 = NUM_ROWS
      BY <3>1, Numbers DEF BackX, BackY
    <3>5. NUM_ROWS - 1 \in 0 .. NUM_ROWS - 1
      BY Numbers
    <3>6. /\ d \in Consoles /\ Only(c, d, a)
          /\ d.x[a] = l - 1 /\ d.y[a] = NUM_ROWS - 1
          /\ CellSet(c.mem, d.mem, a, NUM_ROWS, l, Blank)
          /\ Mirrors(d.mem, a)
      <4> DEFINE x == c.x[a]
                 y == c.y[a]
      <4>1. x = l /\ y = NUM_ROWS - 1 /\ c \in Consoles /\ Mirrors(c.mem, a)
        BY <3>2
      <4>2. /\ x = c.x[a] /\ y = c.y[a] /\ x \in 0 .. NUM_COLS /\ y \in 0 .. NUM_ROWS - 1
            /\ x > 0 \/ y > 0
        BY <3>1, <3>5, <4>1
      <4> HIDE DEF x, y
      <4>3. LET o == put_backspace(c, a)
            IN  /\ o \in Consoles /\ Only(c, o, a)
                /\ o.x[a] = BackX(x) - 1 /\ o.y[a] = BackY(x, y)
                /\ CellSet(c.mem, o.mem, a, BackY(x, y) + 1, BackX(x), Blank)
                /\ Mirrors(c.mem, a) => Mirrors(o.mem, a)
        BY <4>1, <4>2, BackspaceIs
      <4> QED
        BY <3>3, <3>4, <4>1, <4>3
    <3>7. Only(con, d, a)
      BY <3>2, <3>6, OnlyTwice
    <3>8. Upper(d.mem, a, e)
      <4> SUFFICES ASSUME NEW r \in Rows, NEW j \in Cols, r < NUM_ROWS
                   PROVE  d.mem[Page(a) + Cell(r, j)] = e.rows[r][j]
        BY DEF Upper
      <4>1. r # NUM_ROWS
        BY Numbers DEF Rows
      <4> QED
        BY <3>2, <3>6, <4>1 DEF Upper, CellSet
    <3>9. Bare(d.mem, a, l - 1)
      <4> SUFFICES ASSUME NEW j \in Cols, j > l - 1
                   PROVE  d.mem[Page(a) + Cell(NUM_ROWS, j)] = Blank
        BY DEF Bare
      <4>1. j = l \/ j > l
        BY <3>1, Numbers DEF Cols
      <4>2. NUM_ROWS \in Rows
        BY Numbers DEF Rows
      <4>3. c.mem[Page(a) + Cell(NUM_ROWS, j)] = Blank \/ j = l
        BY <3>2, <4>1 DEF Bare
      <4> QED
        BY <3>6, <4>2, <4>3 DEF CellSet
    <3> QED
      BY <3>1, <3>6, <3>7, <3>8, <3>9 DEF d
  <2> HIDE DEF Good
  <2> QED
    BY <2>1, <2>2, AllNat
<1> DEFINE c == f[n]
           s == scroll_up(con, n)
<1>6. Fine(c, 0)
  <2>1. n \in 0 .. n /\ n - n = 0 /\ n \in Nat
    BY <1>1
  <2> HIDE DEF Fine
  <2> QED
    BY <1>5, <2>1
<1>7. s = [c EXCEPT !.y[a] = NUM_ROWS - 1]
  BY <1>2
<1> HIDE DEF c, s, Good
<1>8. /\ s \in Consoles /\ s.mem = c.mem /\ s.x = c.x /\ s.y[a] = NUM_ROWS - 1
      /\ \A u \in Terminals : u # a => s.y[u] = c.y[u]
  <2>1. NUM_ROWS - 1 \in Int
    BY Numbers
  <2> QED
    BY <1>6, <1>7, <2>1 DEF Consoles
<1>9. Only(con, s, a)
  BY <1>6, <1>8 DEF Only
<1>10. Whole(s.mem, a, e)
  <2> SUFFICES ASSUME NEW r \in Rows, NEW k \in Cols
               PROVE  c.mem[Page(a) + Cell(r, k)] = e.rows[r][k]
    BY <1>8 DEF Whole
  <2>1. CASE r < NUM_ROWS
    BY <1>6, <2>1 DEF Upper
  <2>2. CASE ~ (r < NUM_ROWS)
    <3>1. r = NUM_ROWS /\ k > 0
      BY <2>2, Numbers DEF Rows, Cols
    <3> QED
      BY <1>6, <3>1 DEF Bare
  <2> QED
    BY <2>1, <2>2
<1> QED
  BY <1>6, <1>8, <1>9, <1>10 DEF s

\* Where the cursor goes after a character that does not scroll.
NextX(x) == IF x + 1 = NUM_COLS THEN 0 ELSE x + 1
NextY(x, y) == IF x + 1 = NUM_COLS THEN y + 1 ELSE y

\* The divisions of Advance do that.
LEMMA NextIs ==
  ASSUME NEW x \in 0 .. NUM_COLS - 1, NEW y \in 0 .. NUM_ROWS - 1,
         ~ (x + 1 = NUM_COLS /\ y = NUM_ROWS - 1)
  PROVE  /\ (x + 1) % NUM_COLS = NextX(x)
         /\ Remainder(y + (x + 1) \div NUM_COLS, NUM_ROWS) = NextY(x, y)
         /\ NextX(x) \in 0 .. NUM_COLS - 1 /\ NextY(x, y) \in 0 .. NUM_ROWS - 1
<1> DEFINE C == NUM_COLS
           R == NUM_ROWS
<1>1. C \in Nat /\ C > 0 /\ R \in Nat /\ R > 0 /\ x \in Nat /\ y \in Nat /\ x < C /\ y < R
  BY Numbers
<1> HIDE DEF C, R
<1>2. CASE x + 1 = C
  <2>1. C % C = 0 /\ C \div C = 1
    BY <1>1
  <2>2. y + 1 < R /\ y + 1 \in Nat
    BY <1>1, <1>2 DEF C, R
  <2>3. (y + 1) % R = y + 1
    BY <1>1, <2>2
  <2>4. (x + 1) % C = 0 /\ y + (x + 1) \div C = y + 1
    BY <1>2, <2>1
  <2>5. NextX(x) = 0 /\ NextY(x, y) = y + 1
    BY <1>2 DEF NextX, NextY, C
  <2>6. Remainder(y + 1, R) = y + 1
    BY <2>2, <2>3 DEF Remainder
  <2> QED
    BY <1>1, <2>2, <2>4, <2>5, <2>6 DEF C, R
<1>3. CASE x + 1 # C
  <2>1. x + 1 < C /\ x + 1 \in Nat
    BY <1>1, <1>3
  <2>2. (x + 1) % C = x + 1 /\ (x + 1) \div C = 0
    BY <1>1, <2>1
  <2>3. y % R = y /\ y + 0 = y
    BY <1>1
  <2>4. NextX(x) = x + 1 /\ NextY(x, y) = y
    BY <1>3 DEF NextX, NextY, C
  <2>5. Remainder(y, R) = y
    BY <1>1, <2>3 DEF Remainder
  <2>6. Remainder(y + (x + 1) \div C, R) = y
    BY <2>2, <2>3, <2>5
  <2> QED
    BY <1>1, <2>1, <2>2, <2>4, <2>6 DEF C, R
<1> QED
  BY <1>2, <1>3

\* A cursor is set: nothing else changes.
LEMMA CursorSet ==
  ASSUME NEW con \in Consoles, NEW a \in Terminals, NEW v \in Int, NEW w \in Int, NEW n,
         n = [mem |-> con.mem, x |-> [con.x EXCEPT ![a] = v], y |-> [con.y EXCEPT ![a] = w]]
  PROVE  n \in Consoles /\ n.mem = con.mem /\ n.x[a] = v /\ n.y[a] = w /\ Only(con, n, a)
<1> DEFINE X == [con.x EXCEPT ![a] = v]
           Y == [con.y EXCEPT ![a] = w]
<1>1. /\ con = [mem |-> con.mem, x |-> con.x, y |-> con.y]
      /\ con.mem \in Memory /\ con.x \in [Terminals -> Int] /\ con.y \in [Terminals -> Int]
  BY DEF Consoles
<1>2. /\ X \in [Terminals -> Int] /\ Y \in [Terminals -> Int] /\ X[a] = v /\ Y[a] = w
      /\ \A u \in Terminals : u # a => X[u] = con.x[u] /\ Y[u] = con.y[u]
  BY <1>1
<1> HIDE DEF X, Y
<1>4. n = [mem |-> con.mem, x |-> X, y |-> Y]
  BY DEF X, Y
<1>5. n \in Consoles /\ n.mem = con.mem /\ n.x = X /\ n.y = Y
  BY <1>1, <1>2, <1>4 DEF Consoles
<1> QED
  BY <1>2, <1>5 DEF Only, PageKept

\* The cursor moves on.
LEMMA AdvanceIs ==
  ASSUME NEW con \in Consoles, NEW a \in Terminals,
         con.x[a] \in 0 .. NUM_COLS - 1, con.y[a] \in 0 .. NUM_ROWS - 1, ~ AtEnd(con, a)
  PROVE  LET n == Advance(con, a)
         IN  /\ n \in Consoles /\ n.mem = con.mem /\ Only(con, n, a)
             /\ n.x[a] = NextX(con.x[a]) /\ n.y[a] = NextY(con.x[a], con.y[a])
<1> DEFINE x == con.x[a]
           y == con.y[a]
           v == (x + 1) % NUM_COLS
           w == Remainder(y + (x + 1) \div NUM_COLS, NUM_ROWS)
           n == Advance(con, a)
<1>1. /\ v = NextX(x) /\ w = NextY(x, y)
      /\ NextX(x) \in 0 .. NUM_COLS - 1 /\ NextY(x, y) \in 0 .. NUM_ROWS - 1
  BY NextIs DEF AtEnd
<1>2. v \in Int /\ w \in Int
  <2> HIDE DEF v, w
  <2> QED
    BY <1>1
<1>3. n = [con EXCEPT !.x[a] = v, !.y[a] = w]
  BY DEF Advance
<1> HIDE DEF v, w, n
<1> DEFINE X == [con.x EXCEPT ![a] = v]
           Y == [con.y EXCEPT ![a] = w]
<1>4. n = [mem |-> con.mem, x |-> X, y |-> Y]
  <2>1. n = [con EXCEPT !.x = X, !.y = Y]
    BY <1>3 DEF Consoles
  <2>2. con = [mem |-> con.mem, x |-> con.x, y |-> con.y]
    BY DEF Consoles
  <2> HIDE DEF X, Y
  <2> QED
    BY <2>1, <2>2, ConsoleXY
<1>5. n \in Consoles /\ n.mem = con.mem /\ n.x[a] = v /\ n.y[a] = w /\ Only(con, n, a)
  BY <1>2, <1>4, CursorSet
<1> QED
  BY <1>1, <1>5 DEF n

\* What is shown before a scroll is one row too low after it.
LEMMA ComingIs ==
  ASSUME NEW m, NEW t, NEW e, e.rows \in [Rows -> Row], Whole(m, t, e),
         NEW f, f.rows = Scrolled(e.rows)
  PROVE  Coming(m, t, f) /\ \A k \in Cols : f.rows[NUM_ROWS][k] = Blank
<1>1. ASSUME NEW r \in Rows, NEW k \in Cols, r < NUM_ROWS
      PROVE  m[Page(t) + Cell(r + 1, k)] = f.rows[r][k]
  <2>1. r + 1 \in Rows
    BY <1>1, Numbers DEF Rows
  <2>2. f.rows[r] = e.rows[r + 1]
    BY <1>1, ScrolledIs
  <2> QED
    BY <2>1, <2>2 DEF Whole
<1>2. ASSUME NEW k \in Cols PROVE f.rows[NUM_ROWS][k] = Blank
  <2>1. NUM_ROWS \in Rows /\ ~ (NUM_ROWS < NUM_ROWS)
    BY Numbers DEF Rows
  <2>2. f.rows[NUM_ROWS] = BlankRow
    BY <2>1, ScrolledIs
  <2> QED
    BY <2>2, BlankRowIs
<1> QED
  BY <1>1, <1>2 DEF Coming

\* A newline for the terminal on the screen.
LEMMA PutcNewline ==
  ASSUME NEW con \in Consoles, NEW a, a = current_active_terminal, a \in Terminals,
         NEW e, Shown(con, a, e)
  PROVE  LET n == putc(con, Newline)
         IN  n \in Consoles /\ Only(con, n, a) /\ Shown(n, a, Shows(e, Newline))
<1> DEFINE x == con.x[a]
           y == con.y[a]
           f == Shows(e, Newline)
           n == putc(con, Newline)
<1>1. /\ GoodIdeal(e) /\ Whole(con.mem, a, e) /\ Mirrors(con.mem, a) /\ x = e.x /\ y = e.y
      /\ e.rows \in [Rows -> Row] /\ x \in 0 .. NUM_COLS - 1 /\ y \in 0 .. NUM_ROWS - 1
  BY DEF Shown, GoodIdeal, Ideal
<1>2. /\ NUM_ROWS \in Nat /\ NUM_COLS \in Nat /\ x \in Nat /\ y \in Nat
      /\ x \in 0 .. NUM_COLS /\ (NUM_ROWS - 1) + 1 = NUM_ROWS /\ NUM_ROWS \in Rows
  BY <1>1, Numbers DEF Rows
<1>3. /\ GoodIdeal(f) /\ f.x = 0
      /\ y < NUM_ROWS - 1 => f.rows = e.rows /\ f.y = y + 1
      /\ y = NUM_ROWS - 1 => f.rows = Scrolled(e.rows) /\ f.y = y
  <2> HIDE DEF y
  <2> QED
    BY <1>1, ShowsNewline
<1>4. n = IF con.y[a] + 1 = NUM_ROWS THEN [scroll_up(con, con.x[a]) EXCEPT !.x[a] = 0]
          ELSE [con EXCEPT !.y[a] = @ + 1, !.x[a] = 0]
  BY DEF putc
<1> HIDE DEF f, n
<1>5. CASE y + 1 = NUM_ROWS
  <2> DEFINE s == scroll_up(con, x)
  <2>1. y = NUM_ROWS - 1
    BY <1>2, <1>5
  <2>2. Coming(con.mem, a, f) /\ \A k \in Cols : f.rows[NUM_ROWS][k] = Blank
    <3>1. e.rows \in [Rows -> Row] /\ Whole(con.mem, a, e) /\ f.rows = Scrolled(e.rows)
      BY <1>1, <1>3, <2>1
    <3> HIDE DEF s, x, y
    <3> QED
      BY <3>1, ComingIs
  <2>3. Bare(con.mem, a, x)
    <3> SUFFICES ASSUME NEW k \in Cols, k > x
                 PROVE  con.mem[Page(a) + Cell(NUM_ROWS, k)] = Blank
      BY DEF Bare
    <3>1. Behind(NUM_ROWS, k, e.x, e.y)
      BY <1>1, <1>2, <2>1 DEF Behind
    <3> QED
      BY <1>1, <1>2, <3>1 DEF GoodIdeal, Whole
  <2>4. /\ s \in Consoles /\ Only(con, s, a) /\ Whole(s.mem, a, f) /\ Mirrors(s.mem, a)
        /\ s.x[a] = 0 /\ s.y[a] = NUM_ROWS - 1
    BY <1>1, <1>2, <2>1, <2>2, <2>3, ScrollIs
  <2> HIDE DEF s
  <2>5. n = [s EXCEPT !.x[a] = 0]
    BY <1>4, <1>5 DEF s
  <2>6. n = s
    BY <2>4, <2>5 DEF Consoles
  <2> QED
    BY <1>3, <2>1, <2>4, <2>6 DEF Shown, n, f
<1>6. CASE y + 1 # NUM_ROWS
  <2>1. n = [con EXCEPT !.y[a] = @ + 1, !.x[a] = 0]
    BY <1>4, <1>6
  <2> DEFINE X == [con.x EXCEPT ![a] = 0]
             Y == [con.y EXCEPT ![a] = y + 1]
  <2>2. n = [mem |-> con.mem, x |-> X, y |-> Y]
    <3>1. n = [con EXCEPT !.x = X, !.y = Y]
      BY <2>1 DEF Consoles
    <3>2. con = [mem |-> con.mem, x |-> con.x, y |-> con.y]
      BY DEF Consoles
    <3> HIDE DEF X, Y
    <3> QED
      BY <3>1, <3>2, ConsoleXY
  <2>3. y + 1 \in Int
    BY <1>2
  <2>4. /\ n \in Consoles /\ n.mem = con.mem /\ n.x[a] = 0 /\ n.y[a] = y + 1
        /\ Only(con, n, a)
    BY <2>2, <2>3, CursorSet
  <2>5. f.rows = e.rows /\ f.y = y + 1
    BY <1>1, <1>2, <1>3, <1>6
  <2> QED
    BY <1>1, <1>3, <2>4, <2>5 DEF Shown, Whole, n, f
<1> QED
  BY <1>5, <1>6

\* A character for the terminal on the screen.
LEMMA PutcCharacter ==
  ASSUME NEW con \in Consoles, NEW a, a = current_active_terminal, a \in Terminals,
         NEW e, Shown(con, a, e), NEW c \in Chars
  PROVE  LET n == putc(con, c)
         IN  n \in Consoles /\ Only(con, n, a) /\ Shown(n, a, Shows(e, c))
<1> DEFINE x == con.x[a]
           y == con.y[a]
           r == y + 1
           k == x + 1
           w == With(e.rows, r, k, c)
           g == [rows |-> w]
           f == Shows(e, c)
           m == Store(Store(con.mem, Page(a) + Cell(r, k), c), Cell(r, k), c)
           c1 == [con EXCEPT !.mem = m]
           n == putc(con, c)
<1>1. /\ GoodIdeal(e) /\ Whole(con.mem, a, e) /\ Mirrors(con.mem, a) /\ x = e.x /\ y = e.y
      /\ e.rows \in [Rows -> Row] /\ x \in 0 .. NUM_COLS - 1 /\ y \in 0 .. NUM_ROWS - 1
  BY DEF Shown, GoodIdeal, Ideal
<1>2. /\ NUM_ROWS \in Nat /\ NUM_COLS \in Nat /\ x \in Nat /\ y \in Nat
      /\ r \in Rows /\ k \in Cols /\ NUM_COLS \in 0 .. NUM_COLS /\ c \in Shades /\ c # Newline
      /\ con.mem \in Memory
  BY <1>1, ScreenAssumption DEF Rows, Cols, Shades, Consoles
<1>3. /\ GoodIdeal(f)
      /\ k # NUM_COLS => f.rows = w /\ f.x = k /\ f.y = y
      /\ k = NUM_COLS /\ y < NUM_ROWS - 1 => f.rows = w /\ f.x = 0 /\ f.y = y + 1
      /\ k = NUM_COLS /\ y = NUM_ROWS - 1 => f.rows = Scrolled(w) /\ f.x = 0 /\ f.y = y
  <2>1. w = With(e.rows, e.y + 1, e.x + 1, c)
    BY <1>1
  <2> HIDE DEF w
  <2> QED
    BY <1>1, <2>1, ShowsCharacter
<1>4. n = IF AtEnd(con, a) THEN scroll_up([c1 EXCEPT !.x[a] = NUM_COLS], NUM_COLS)
          ELSE Advance(c1, a)
  <2>1. Position(con, a) = Cell(r, k)
    BY <1>2, PositionIs
  <2> QED
    BY <1>2, <2>1 DEF putc
<1>5. /\ m \in Memory /\ CellSet(con.mem, m, a, r, k, c) /\ Mirrors(m, a)
      /\ \A u \in Terminals : u # a => PageKept(con.mem, m, u)
  <2> HIDE DEF r, k
  <2> QED
    BY <1>1, <1>2, DoubleStore
<1>6. w \in [Rows -> Row] /\ g.rows = w
  <2>1. w \in [Rows -> Row]
    <3> HIDE DEF r, k
    <3> QED
      BY <1>1, <1>2, WithIs
  <2> HIDE DEF w
  <2> QED
    BY <2>1
<1>7. Whole(m, a, g)
  <2> HIDE DEF r, k, m, g
  <2> QED
    BY <1>1, <1>2, <1>5, <1>6, WholeWith
<1> HIDE DEF m, w, g
<1>8. c1 \in Consoles /\ c1.mem = m /\ c1.x = con.x /\ c1.y = con.y
  BY <1>5 DEF Consoles
<1> HIDE DEF c1, n, f
<1>9. Only(con, c1, a) /\ (AtEnd(c1, a) <=> AtEnd(con, a))
  BY <1>5, <1>8 DEF Only, AtEnd
<1>10. CASE AtEnd(con, a)
  <2> DEFINE c2 == [c1 EXCEPT !.x[a] = NUM_COLS]
             s == scroll_up(c2, NUM_COLS)
  <2>1. k = NUM_COLS /\ y = NUM_ROWS - 1
    BY <1>10 DEF AtEnd
  <2>2. /\ c2 \in Consoles /\ c2.mem = m /\ c2.y = con.y /\ c2.x[a] = NUM_COLS
        /\ \A u \in Terminals : u # a => c2.x[u] = con.x[u]
    BY <1>2, <1>8 DEF Consoles
  <2> HIDE DEF c2
  <2>3. Only(con, c2, a)
    BY <1>5, <2>2 DEF Only
  <2>4. f.rows = Scrolled(g.rows) /\ f.x = 0 /\ f.y = NUM_ROWS - 1
    BY <1>3, <1>6, <2>1
  <2>5. Coming(m, a, f) /\ \A j \in Cols : f.rows[NUM_ROWS][j] = Blank
    BY <1>6, <1>7, <2>4, ComingIs
  <2>6. Bare(m, a, NUM_COLS)
    BY Numbers DEF Bare, Cols
  <2>7. c2.y[a] = NUM_ROWS - 1
    BY <2>1, <2>2
  <2>8. /\ s \in Consoles /\ Only(c2, s, a) /\ Whole(s.mem, a, f) /\ Mirrors(s.mem, a)
        /\ s.x[a] = 0 /\ s.y[a] = NUM_ROWS - 1
    BY <1>2, <1>5, <2>2, <2>5, <2>6, <2>7, ScrollIs
  <2> HIDE DEF s
  <2>9. Only(con, s, a)
    BY <2>3, <2>8, OnlyTwice
  <2>10. n = s
    BY <1>4, <1>10 DEF c2, s
  <2> QED
    BY <1>3, <2>4, <2>8, <2>9, <2>10 DEF Shown, n, f
<1>11. CASE ~ AtEnd(con, a)
  <2>1. n = Advance(c1, a)
    BY <1>4, <1>11
  <2>2. c1.x[a] = x /\ c1.y[a] = y
    BY <1>8
  <2>3. /\ n \in Consoles /\ n.mem = c1.mem /\ Only(c1, n, a)
        /\ n.x[a] = NextX(c1.x[a]) /\ n.y[a] = NextY(c1.x[a], c1.y[a])
    BY <1>1, <1>8, <1>9, <1>11, <2>1, <2>2, AdvanceIs
  <2>4. f.rows = w /\ f.x = NextX(x) /\ f.y = NextY(x, y)
    <3>1. CASE k = NUM_COLS
      <4>1. y < NUM_ROWS - 1
        BY <1>1, <1>2, <1>11, <3>1 DEF AtEnd
      <4> QED
        BY <1>3, <3>1, <4>1 DEF NextX, NextY
    <3>2. CASE k # NUM_COLS
      BY <1>3, <3>2 DEF NextX, NextY
    <3> QED
      BY <3>1, <3>2
  <2>5. Only(con, n, a)
    BY <1>9, <2>3, OnlyTwice
  <2>6. Whole(n.mem, a, f) /\ Mirrors(n.mem, a)
    BY <1>5, <1>6, <1>7, <1>8, <2>3, <2>4 DEF Whole
  <2>7. n.x[a] = f.x /\ n.y[a] = f.y
    BY <2>2, <2>3, <2>4
  <2> QED
    BY <1>3, <2>3, <2>5, <2>6, <2>7 DEF Shown, n, f
<1> QED
  BY <1>10, <1>11

\* The screen is cleared.
LEMMA ClearIs ==
  ASSUME NEW con \in Consoles, NEW a, a = current_active_terminal, a \in Terminals
  PROVE  LET n == clear(con)
         IN  n \in Consoles /\ Only(con, n, a) /\ Shown(n, a, BlankTerminal)
<1> DEFINE cells == Cells \cup {Page(a) + p : p \in Cells}
           m == [k \in Addresses |-> IF k \in cells THEN Blank ELSE con.mem[k]]
           X == [con.x EXCEPT ![a] = 0]
           Y == [con.y EXCEPT ![a] = 0]
           n == clear(con)
<1>1. /\ con.mem \in Memory /\ con.x \in [Terminals -> Int] /\ con.y \in [Terminals -> Int]
      /\ con = [mem |-> con.mem, x |-> con.x, y |-> con.y]
  BY DEF Consoles
<1>2. n = [con EXCEPT !.mem = m, !.x[a] = 0, !.y[a] = 0]
  BY DEF clear
<1>3. m \in Memory
  BY <1>1 DEF Memory, Shades
<1>4. \A p \in Cells : p \in Addresses /\ Page(a) + p \in Addresses
  BY Where
<1>5. \A p \in Cells : m[p] = Blank /\ m[Page(a) + p] = Blank
  BY <1>4
<1>6. \A u \in Terminals : u # a => PageKept(con.mem, m, u)
  <2> SUFFICES ASSUME NEW u \in Terminals, u # a, NEW p \in Cells
               PROVE  m[Page(u) + p] = con.mem[Page(u) + p]
    BY DEF PageKept
  <2>1. Page(u) + p \in Addresses /\ Page(u) + p \notin cells
    BY Where
  <2> QED
    BY <2>1
<1>7. /\ X \in [Terminals -> Int] /\ Y \in [Terminals -> Int] /\ X[a] = 0 /\ Y[a] = 0
      /\ \A u \in Terminals : u # a => X[u] = con.x[u] /\ Y[u] = con.y[u]
  BY <1>1
<1> HIDE DEF m
<1>8. n = [mem |-> m, x |-> X, y |-> Y]
  <2> DEFINE b == [con EXCEPT !.mem = m]
  <2>1. b = [mem |-> m, x |-> con.x, y |-> con.y]
    BY <1>1
  <2>2. n = [b EXCEPT !.x = X, !.y = Y]
    BY <1>1, <1>2
  <2> HIDE DEF b, n, X, Y
  <2> QED
    BY <2>1, <2>2, ConsoleXY
<1> HIDE DEF X, Y, n
<1>9. n \in Consoles /\ n.mem = m /\ n.x = X /\ n.y = Y
  BY <1>3, <1>7, <1>8 DEF Consoles
<1>10. Only(con, n, a)
  BY <1>6, <1>7, <1>9 DEF Only
<1>11. Mirrors(m, a)
  BY <1>5 DEF Mirrors
<1>12. GoodIdeal(BlankTerminal) /\ BlankTerminal.x = 0 /\ BlankTerminal.y = 0
  BY BlankTerminalIs DEF BlankTerminal
<1>13. Whole(m, a, BlankTerminal)
  <2> SUFFICES ASSUME NEW r \in Rows, NEW k \in Cols
               PROVE  m[Page(a) + Cell(r, k)] = BlankTerminal.rows[r][k]
    BY DEF Whole
  <2>1. BlankTerminal.rows[r] = BlankRow
    BY DEF BlankTerminal, Rows
  <2> QED
    BY <1>5, <2>1, BlankRowIs, CellIs
<1> QED
  BY <1>7, <1>9, <1>10, <1>11, <1>12, <1>13 DEF Shown, n

\* The message of an exception, on the ideal terminal: its rounds exist.
LEMMA ShowsFaultIs ==
  ASSUME NEW start, GoodIdeal(start)
  PROVE  LET L == Len(FaultText)
         IN  \E g \in [0 .. L -> {e \in Ideal : GoodIdeal(e)}] :
                /\ ShowsFault(start) = g[L] /\ g[0] = start
                /\ \A k \in 1 .. L : g[k] = Shows(g[k - 1], FaultText[k])
<1> DEFINE L == Len(FaultText)
           S == {e \in Ideal : GoodIdeal(e)}
           Eq(f) == f = [k \in 0 .. L |-> IF k = 0 THEN start
                                          ELSE Shows(f[k - 1], FaultText[k])]
           step == [k \in Nat |-> [e \in S |-> IF k \in 1 .. L THEN Shows(e, FaultText[k])
                                               ELSE e]]
           c == CHOOSE f : Eq(f)
<1>1. L \in Nat /\ \A k \in 1 .. L : FaultText[k] \in Chars
  BY ScreenAssumption
<1>2. start \in S
  BY DEF GoodIdeal
<1>3. \A k \in 1 .. L, e \in S : Shows(e, FaultText[k]) \in S
  <2> TAKE k \in 1 .. L, e \in S
  <2> DEFINE d == FaultText[k]
  <2>1. d \in Chars /\ GoodIdeal(e)
    BY <1>1
  <2> HIDE DEF d
  <2>2. GoodIdeal(Shows(e, d))
    BY <2>1, ShowsCharacter
  <2> QED
    BY <2>2 DEF GoodIdeal, d
<1>4. \A k \in Nat, e \in S : step[k][e] \in S
  BY <1>3
<1>5. \A k \in 1 .. L, e \in S : step[k][e] = Shows(e, FaultText[k])
  BY <1>1
<1> HIDE DEF step, S, L
<1>6. \E f : Eq(f)
  <2> DEFINE base == start
  <2>1. Computed(S, base, step, L)
    <3> HIDE DEF base
    <3>1. base \in S
      BY <1>2 DEF base
    <3> QED
      BY <1>1, <1>4, <3>1, Recursion
  <2>2. PICK f \in [0 .. L -> S] :
           f[0] = start /\ \A k \in 1 .. L : f[k] = step[k][f[k - 1]]
    BY <2>1 DEF Computed
  <2>3. \A k \in 0 .. L : k # 0 => k \in 1 .. L /\ f[k - 1] \in S
    BY <1>1
  <2>4. \A k \in 0 .. L : k # 0 => f[k] = Shows(f[k - 1], FaultText[k])
    BY <1>5, <2>2, <2>3
  <2>5. f = [k \in 0 .. L |-> f[k]]
    OBVIOUS
  <2> QED
    BY <2>2, <2>4, <2>5
<1>7. Eq(c)
  <2> HIDE DEF Eq
  <2> QED
    BY <1>6
<1>8. ShowsFault(start) = c[L]
  BY DEF ShowsFault, L
<1> HIDE DEF c
<1>9. c[0] = start /\ \A k \in 1 .. L : c[k] = Shows(c[k - 1], FaultText[k])
  BY <1>1, <1>7
<1> DEFINE Good == {k \in Nat : k \in 0 .. L => c[k] \in S}
<1>10. Nat \subseteq Good
  <2>1. 0 \in Good
    BY <1>2, <1>9
  <2>2. ASSUME NEW k \in Nat, k \in Good PROVE k + 1 \in Good
    <3> SUFFICES ASSUME k + 1 \in 0 .. L PROVE c[k + 1] \in S
      OBVIOUS
    <3>1. k \in 0 .. L /\ k + 1 \in 1 .. L /\ (k + 1) - 1 = k
      BY <1>1
    <3>2. c[k] \in S
      BY <2>2, <3>1
    <3>3. c[k + 1] = Shows(c[k], FaultText[k + 1])
      BY <1>9, <3>1
    <3>4. Shows(c[k], FaultText[k + 1]) \in S
      BY <1>3, <3>1, <3>2 DEF S, L
    <3> QED
      BY <3>3, <3>4
  <2> HIDE DEF Good
  <2> QED
    BY <2>1, <2>2, AllNat
<1>11. c \in [0 .. L -> S]
  <2>1. \A k \in 0 .. L : c[k] \in S
    BY <1>1, <1>10
  <2>2. c = [k \in 0 .. L |-> c[k]]
    BY <1>7
  <2> HIDE DEF Good
  <2> QED
    BY <2>1, <2>2
<1> QED
  BY <1>8, <1>9, <1>11 DEF S, L

\* The message of an exception is shown by the terminal on the screen.
LEMMA FaultIs ==
  ASSUME NEW con \in Consoles, NEW a, a = current_active_terminal, a \in Terminals,
         NEW start, Shown(con, a, start)
  PROVE  LET n == print_fault(con)
         IN  n \in Consoles /\ Only(con, n, a) /\ Shown(n, a, ShowsFault(start))
<1> DEFINE L == Len(FaultText)
           S == {r \in Consoles : Only(con, r, a) /\ \E e \in Ideal : Shown(r, a, e)}
           Eq(f) == f = [k \in 0 .. L |-> IF k = 0 THEN con
                                          ELSE putc(f[k - 1], FaultText[k])]
           step == [k \in Nat |-> [r \in S |-> IF k \in 1 .. L THEN putc(r, FaultText[k])
                                               ELSE r]]
           c == CHOOSE f : Eq(f)
<1>1. L \in Nat /\ \A k \in 1 .. L : FaultText[k] \in Chars
  BY ScreenAssumption
<1>2. Only(con, con, a) /\ GoodIdeal(start)
  BY DEF Only, PageKept, Shown
<1>3. ASSUME NEW k \in 1 .. L, NEW r \in Consoles, Only(con, r, a), NEW e, Shown(r, a, e)
      PROVE  LET n == putc(r, FaultText[k])
             IN  n \in Consoles /\ Only(con, n, a) /\ Shown(n, a, Shows(e, FaultText[k]))
  <2> DEFINE d == FaultText[k]
             n == putc(r, d)
  <2>1. d \in Chars
    BY <1>1
  <2> HIDE DEF d
  <2>2. n \in Consoles /\ Only(r, n, a) /\ Shown(n, a, Shows(e, d))
    BY <1>3, <2>1, PutcCharacter
  <2> HIDE DEF n
  <2>3. Only(con, n, a)
    BY <1>3, <2>2, OnlyTwice
  <2> QED
    BY <2>2, <2>3 DEF n, d
<1>4. con \in S
  BY <1>2 DEF Shown, GoodIdeal
<1>5. \A k \in 1 .. L, r \in S : putc(r, FaultText[k]) \in S
  <2> TAKE k \in 1 .. L, r \in S
  <2>1. r \in Consoles /\ Only(con, r, a) /\ \E e \in Ideal : Shown(r, a, e)
    OBVIOUS
  <2>2. PICK e \in Ideal : Shown(r, a, e)
    BY <2>1
  <2> DEFINE n == putc(r, FaultText[k])
             f == Shows(e, FaultText[k])
  <2>3. n \in Consoles /\ Only(con, n, a) /\ Shown(n, a, f)
    BY <1>3, <2>1, <2>2
  <2> HIDE DEF n, f
  <2>4. f \in Ideal
    BY <2>3 DEF Shown, GoodIdeal
  <2> QED
    BY <2>3, <2>4 DEF n
<1>6. \A k \in Nat, r \in S : step[k][r] \in S
  BY <1>5
<1>7. \A k \in 1 .. L, r \in S : step[k][r] = putc(r, FaultText[k])
  BY <1>1
<1> HIDE DEF step, S, L
<1>8. \E f : Eq(f)
  <2> DEFINE base == con
  <2>1. Computed(S, base, step, L)
    <3> HIDE DEF base
    <3>1. base \in S
      BY <1>4 DEF base
    <3> QED
      BY <1>1, <1>6, <3>1, Recursion
  <2>2. PICK f \in [0 .. L -> S] :
           f[0] = con /\ \A k \in 1 .. L : f[k] = step[k][f[k - 1]]
    BY <2>1 DEF Computed
  <2>3. \A k \in 0 .. L : k # 0 => k \in 1 .. L /\ f[k - 1] \in S
    BY <1>1
  <2>4. \A k \in 0 .. L : k # 0 => f[k] = putc(f[k - 1], FaultText[k])
    BY <1>7, <2>2, <2>3
  <2>5. f = [k \in 0 .. L |-> f[k]]
    OBVIOUS
  <2> QED
    BY <2>2, <2>4, <2>5
<1>9. Eq(c)
  <2> HIDE DEF Eq
  <2> QED
    BY <1>8
<1>10. print_fault(con) = c[L]
  BY DEF print_fault, L
<1> HIDE DEF c
<1>11. c[0] = con /\ \A k \in 1 .. L : c[k] = putc(c[k - 1], FaultText[k])
  BY <1>1, <1>9
<1>12. PICK g \in [0 .. L -> {e \in Ideal : GoodIdeal(e)}] :
         /\ ShowsFault(start) = g[L] /\ g[0] = start
         /\ \A k \in 1 .. L : g[k] = Shows(g[k - 1], FaultText[k])
  BY <1>2, ShowsFaultIs DEF L
<1> DEFINE Fine(n, e) == n \in Consoles /\ Only(con, n, a) /\ Shown(n, a, e)
           Good == {k \in Nat : k \in 0 .. L => Fine(c[k], g[k])}
<1>13. Nat \subseteq Good
  <2>1. 0 \in Good
    BY <1>2, <1>11, <1>12
  <2>2. ASSUME NEW k \in Nat, k \in Good PROVE k + 1 \in Good
    <3> SUFFICES ASSUME k + 1 \in 0 .. L PROVE Fine(c[k + 1], g[k + 1])
      OBVIOUS
    <3>1. k \in 0 .. L /\ k + 1 \in 1 .. L /\ (k + 1) - 1 = k
      BY <1>1
    <3>2. Fine(c[k], g[k])
      BY <2>2, <3>1
    <3>3. /\ c[k + 1] = putc(c[k], FaultText[k + 1])
          /\ g[k + 1] = Shows(g[k], FaultText[k + 1])
      BY <1>11, <1>12, <3>1
    <3> DEFINE r == c[k]
               e == g[k]
               i == k + 1
    <3>4. i \in 1 .. L /\ r \in Consoles /\ Only(con, r, a) /\ Shown(r, a, e)
      BY <3>1, <3>2
    <3> HIDE DEF r, e, i
    <3>5. LET n == putc(r, FaultText[i])
          IN  n \in Consoles /\ Only(con, n, a) /\ Shown(n, a, Shows(e, FaultText[i]))
      BY <1>3, <3>4
    <3> QED
      BY <3>3, <3>5 DEF r, e, i
  <2> HIDE DEF Good
  <2> QED
    BY <2>1, <2>2, AllNat
<1>14. Fine(c[L], g[L])
  BY <1>1, <1>13
<1> QED
  BY <1>10, <1>12, <1>14

-----------------------------------------------------------------------------
(* The inductive invariant *)

\* Outside terminal_putc,
Settled(m, t, x, y, e) == Whole(m, t, e) /\ x = e.x /\ y = e.y

\* with a character stored and the cursor still before it,
Ends(x, y) == x + 1 = NUM_COLS /\ y = NUM_ROWS - 1

Storing(m, t, x, y, e) ==
  /\ x \in 0 .. NUM_COLS - 1 /\ y \in 0 .. NUM_ROWS - 1
  /\ Ends(x, y) => Coming(m, t, e) /\ e.x = 0 /\ e.y = NUM_ROWS - 1
  /\ ~ Ends(x, y) => Whole(m, t, e) /\ e.x = NextX(x) /\ e.y = NextY(x, y)

\* with a newline begun and the cursor a row down,
Lowered(m, t, x, y, e) ==
  /\ x \in 0 .. NUM_COLS - 1 /\ y \in 0 .. NUM_ROWS /\ e.x = 0
  /\ y = NUM_ROWS => Coming(m, t, e) /\ Bare(m, t, x) /\ e.y = NUM_ROWS - 1
  /\ y # NUM_ROWS => Whole(m, t, e) /\ e.y = y

\* with only the column of a newline left to reset,
Returning(m, t, x, y, e) ==
  /\ x \in 0 .. NUM_COLS - 1 /\ y = e.y /\ e.x = 0
  /\ Whole(m, t, e)

\* and in scroll_up with n characters of the last row left to erase.
Rolling(m, t, x, y, n, e) ==
  /\ n \in 0 .. NUM_COLS /\ x = n /\ y = NUM_ROWS - 1 /\ Bare(m, t, n)
  /\ e.x = 0 /\ e.y = NUM_ROWS - 1

Idle == {"user", "halt"}
Stored == {"video", "advance"}
Turning == {"newline", "column"}

\* The page, the cursor and the ideal terminal of t, by where its program is.
Place(m, t, x, y, l, c, n, e) ==
  /\ GoodIdeal(e)
  /\ l \in Idle => Settled(m, t, x, y, e)
  /\ l \in Stored => Storing(m, t, x, y, e)
  /\ l = "video" => c \in Chars /\ m[Page(t) + Cell(y + 1, x + 1)] = c
  /\ l = "newline" => Lowered(m, t, x, y, e)
  /\ l = "column" => Returning(m, t, x, y, e)
  /\ l = "shift" => Rolling(m, t, x, y, n, e) /\ Coming(m, t, e)
  /\ l \in {"shift_video", "erase"} => Rolling(m, t, x, y, n, e) /\ Upper(m, t, e)

\* What the screen shows of terminal a.
View(m, a, l, x, y) ==
  /\ l = "video" => \A p \in Cells : p # Cell(y + 1, x + 1) => m[p] = m[Page(a) + p]
  /\ l = "shift_video" => Lags(m, a)
  /\ l \notin {"video", "shift_video"} => Mirrors(m, a)

\* Only the terminal on the screen scrolls.
Rolls(l, x, y) ==
  l \in Scrolling \/ (l \in Stored /\ Ends(x, y)) \/ (l = "newline" /\ y = NUM_ROWS)

Types ==
  /\ mem \in Memory
  /\ screen_x \in [Terminals -> Int] /\ screen_y \in [Terminals -> Int]
  /\ current_active_terminal \in Terminals
  /\ curr_buff_pos \in [Terminals -> 0 .. BufferSize]
  /\ pc \in [Terminals -> Idle \cup Stored \cup Turning \cup Scrolling]
  /\ char \in [Terminals -> Chars \cup {Newline}]
  /\ left \in [Terminals -> 0 .. NUM_COLS]
  /\ expected \in [Terminals -> Ideal]

Placed(t) ==
  /\ Place(mem, t, screen_x[t], screen_y[t], pc[t], char[t], left[t], expected[t])
  /\ Rolls(pc[t], screen_x[t], screen_y[t]) => t = current_active_terminal

Seen == LET a == current_active_terminal IN View(mem, a, pc[a], screen_x[a], screen_y[a])

ScreenInv == Types /\ Seen /\ \A t \in Terminals : Placed(t)

\* What a page shows does not depend on the rest of the memory, nor on whether
\* an idle program is halting.
LEMMA PlaceKept ==
  ASSUME NEW m, NEW n, NEW t \in Terminals, PageKept(m, n, t),
         NEW x, NEW y, NEW l, NEW k, k = l \/ {k, l} \subseteq Idle,
         NEW c, NEW i, NEW e, Place(m, t, x, y, l, c, i, e)
  PROVE  Place(n, t, x, y, k, c, i, e)
<1>1. \A r \in Rows, j \in Cols : n[Page(t) + Cell(r, j)] = m[Page(t) + Cell(r, j)]
  BY CellIs DEF PageKept
<1>2. NUM_ROWS \in Rows /\ \A r \in Rows : r < NUM_ROWS => r + 1 \in Rows
  BY Numbers DEF Rows
<1>3. Whole(m, t, e) => Whole(n, t, e)
  BY <1>1 DEF Whole
<1>4. Coming(m, t, e) => Coming(n, t, e)
  BY <1>1, <1>2 DEF Coming
<1>5. Upper(m, t, e) => Upper(n, t, e)
  BY <1>1 DEF Upper
<1>6. Bare(m, t, i) => Bare(n, t, i)
  BY <1>1, <1>2 DEF Bare
<1>7. Settled(m, t, x, y, e) => Settled(n, t, x, y, e)
  BY <1>3 DEF Settled
<1>8. Storing(m, t, x, y, e) => Storing(n, t, x, y, e)
  BY <1>3, <1>4 DEF Storing
<1>9. Rolling(m, t, x, y, i, e) => Rolling(n, t, x, y, i, e)
  BY <1>6 DEF Rolling
<1>10. /\ Returning(m, t, x, y, e) => Returning(n, t, x, y, e)
       /\ Bare(m, t, x) => Bare(n, t, x)
  BY <1>1, <1>2, <1>3 DEF Returning, Bare
<1>11. Lowered(m, t, x, y, e) => Lowered(n, t, x, y, e)
  BY <1>3, <1>4, <1>10 DEF Lowered
<1>12. CASE k = l
  <2>1. l = "video" => n[Page(t) + Cell(y + 1, x + 1)] = c
    <3> SUFFICES ASSUME l = "video" PROVE n[Page(t) + Cell(y + 1, x + 1)] = c
      OBVIOUS
    <3>1. x \in 0 .. NUM_COLS - 1 /\ y \in 0 .. NUM_ROWS - 1
      BY DEF Place, Stored, Storing
    <3>2. y + 1 \in Rows /\ x + 1 \in Cols
      BY <3>1, Numbers DEF Rows, Cols
    <3> QED
      BY <1>1, <3>2 DEF Place
  <2> QED
    BY <1>4, <1>5, <1>7, <1>8, <1>9, <1>10, <1>11, <1>12, <2>1 DEF Place
<1>13. CASE {k, l} \subseteq Idle
  <2>1. l \in Idle /\ k \in Idle /\ k \notin Stored /\ k # "video" /\ k # "shift"
        /\ k # "newline" /\ k # "column" /\ k \notin {"shift_video", "erase"}
    BY <1>13 DEF Idle, Stored
  <2> QED
    BY <1>7, <2>1 DEF Place
<1> QED
  BY <1>12, <1>13

\* What the screen shows of a page depends on these cells only.
LEMMA ViewKept ==
  ASSUME NEW m, NEW n, NEW a \in Terminals, PageKept(m, n, a), ScreenKept(m, n),
         NEW x, NEW y, NEW l, NEW k, k = l \/ {k, l} \subseteq Idle, View(m, a, l, x, y)
  PROVE  View(n, a, k, x, y)
<1>1. \A p \in Cells : n[p] = m[p] /\ n[Page(a) + p] = m[Page(a) + p]
  BY DEF PageKept, ScreenKept
<1>2. Lags(m, a) => Lags(n, a)
  <2> SUFFICES ASSUME Lags(m, a), NEW p \in Cells
               PROVE  n[IF p < Lower THEN p + NUM_COLS ELSE p] = n[Page(a) + p]
    BY DEF Lags
  <2> DEFINE q == IF p < Lower THEN p + NUM_COLS ELSE p
  <2>1. q \in Cells
    BY LowerIs
  <2>2. m[q] = m[Page(a) + p]
    BY DEF Lags
  <2> HIDE DEF q
  <2>3. n[q] = n[Page(a) + p]
    BY <1>1, <2>1, <2>2
  <2> QED
    BY <2>3 DEF q
<1>3. Mirrors(m, a) => Mirrors(n, a)
  BY <1>1 DEF Mirrors
<1>4. CASE k = l
  BY <1>1, <1>2, <1>3, <1>4 DEF View
<1>5. CASE {k, l} \subseteq Idle
  BY <1>3, <1>5 DEF View, Idle
<1> QED
  BY <1>4, <1>5

\* A step of terminal t leaves the others' pages and programs alone.
Elsewhere(t) ==
  /\ current_active_terminal' = current_active_terminal
  /\ \A u \in Terminals : u # t =>
        /\ PageKept(mem, mem', u)
        /\ screen_x'[u] = screen_x[u] /\ screen_y'[u] = screen_y[u]
        /\ pc'[u] = pc[u] \/ {pc'[u], pc[u]} \subseteq Idle
        /\ char'[u] = char[u] /\ left'[u] = left[u] /\ expected'[u] = expected[u]

\* What there is to show of such a step.
LEMMA StepOf ==
  ASSUME ScreenInv, NEW t \in Terminals, Elsewhere(t), Types', Placed(t)',
         t = current_active_terminal => Seen',
         t # current_active_terminal => ScreenKept(mem, mem')
  PROVE  ScreenInv'
<1> DEFINE a == current_active_terminal
<1>1. a \in Terminals /\ a' = a
  BY DEF ScreenInv, Types, Elsewhere
<1>2. ASSUME NEW u \in Terminals, u # t PROVE Placed(u)'
  <2>1. /\ PageKept(mem, mem', u)
        /\ screen_x'[u] = screen_x[u] /\ screen_y'[u] = screen_y[u]
        /\ pc'[u] = pc[u] \/ {pc'[u], pc[u]} \subseteq Idle
        /\ char'[u] = char[u] /\ left'[u] = left[u] /\ expected'[u] = expected[u]
    BY <1>2 DEF Elsewhere
  <2>2. Placed(u)
    BY DEF ScreenInv
  <2>3. Place(mem', u, screen_x[u], screen_y[u], pc'[u], char[u], left[u], expected[u])
    BY <2>1, <2>2, PlaceKept DEF Placed
  <2>4. Rolls(pc'[u], screen_x[u], screen_y[u]) => Rolls(pc[u], screen_x[u], screen_y[u])
    BY <2>1 DEF Rolls, Idle, Stored, Scrolling
  <2> QED
    BY <1>1, <2>1, <2>2, <2>3, <2>4 DEF Placed
<1>3. CASE t # a
  <2>1. /\ PageKept(mem, mem', a) /\ screen_x'[a] = screen_x[a] /\ screen_y'[a] = screen_y[a]
        /\ pc'[a] = pc[a] \/ {pc'[a], pc[a]} \subseteq Idle
    BY <1>1, <1>3 DEF Elsewhere
  <2>2. View(mem, a, pc[a], screen_x[a], screen_y[a])
    BY DEF ScreenInv, Seen
  <2>3. View(mem', a, pc'[a], screen_x[a], screen_y[a])
    BY <1>1, <1>3, <2>1, <2>2, ViewKept
  <2>4. Seen'
    BY <1>1, <2>1, <2>3 DEF Seen
  <2> QED
    BY <1>2, <2>4 DEF ScreenInv
<1>4. CASE t = a
  BY <1>2, <1>4 DEF ScreenInv
<1> QED
  BY <1>3, <1>4

\* The console.
LEMMA ConsoleIs ==
  ASSUME Types
  PROVE  /\ console \in Consoles
         /\ console.mem = mem /\ console.x = screen_x /\ console.y = screen_y
BY DEF Types, console, Consoles

\* When a handler writes on the screen, it shows the ideal terminal.
LEMMA QuietConsole ==
  ASSUME ScreenInv, Quiet
  PROVE  /\ current_active_terminal \in Terminals
         /\ Shown(console, current_active_terminal, expected[current_active_terminal])
<1> DEFINE a == current_active_terminal
<1>1. a \in Terminals /\ pc[a] \in Idle
  BY DEF ScreenInv, Types, Quiet, Idle
<1>2. Placed(a) /\ Seen
  BY <1>1 DEF ScreenInv
<1>3. GoodIdeal(expected[a]) /\ Settled(mem, a, screen_x[a], screen_y[a], expected[a])
  BY <1>1, <1>2 DEF Placed, Place
<1>4. Mirrors(mem, a)
  BY <1>1, <1>2 DEF Seen, View, Idle
<1>5. console.mem = mem /\ console.x = screen_x /\ console.y = screen_y
  BY DEF console
<1> QED
  BY <1>1, <1>3, <1>4, <1>5 DEF Shown, Settled

\* The step of a handler that writes n on the console keeps the invariant.
LEMMA HandlerStep ==
  ASSUME ScreenInv, Quiet, NEW a, a = current_active_terminal,
         NEW n, n \in Consoles, Only(console, n, a), NEW e, Shown(n, a, e),
         Commit(n), Expect(a, e),
         current_active_terminal' = a, curr_buff_pos' \in [Terminals -> 0 .. BufferSize],
         char' = char, left' = left, pc' \in [Terminals -> Idle \cup Stored \cup Turning \cup Scrolling],
         \A u \in Terminals : pc'[u] = pc[u] \/ {pc'[u], pc[u]} \subseteq Idle
  PROVE  ScreenInv'
<1>1. a \in Terminals /\ Types
  BY DEF ScreenInv, Types
<1>2. console.mem = mem /\ console.x = screen_x /\ console.y = screen_y
  BY <1>1, ConsoleIs
<1>3. mem' = n.mem /\ screen_x' = n.x /\ screen_y' = n.y
  BY DEF Commit
<1>4. e \in Ideal /\ GoodIdeal(e)
  BY DEF Shown, GoodIdeal
<1>5. /\ expected' \in [Terminals -> Ideal] /\ expected'[a] = e
      /\ \A u \in Terminals : u # a => expected'[u] = expected[u]
  BY <1>1, <1>4 DEF Expect, Types
<1>6. Types'
  BY <1>1, <1>3, <1>5 DEF Types, Consoles
<1>7. Elsewhere(a)
  BY <1>1, <1>2, <1>3, <1>5 DEF Elsewhere, Only
<1>8. pc'[a] \in Idle
  BY <1>1 DEF Quiet, Idle
<1>9. Placed(a)'
  <2>1. Settled(mem', a, screen_x'[a], screen_y'[a], e)
    BY <1>3 DEF Shown, Settled
  <2>2. /\ pc'[a] \notin Stored /\ pc'[a] # "video" /\ pc'[a] # "shift"
        /\ pc'[a] # "newline" /\ pc'[a] # "column"
        /\ pc'[a] \notin {"shift_video", "erase"} /\ pc'[a] \notin Scrolling
    BY <1>8 DEF Idle, Stored, Scrolling
  <2>3. Place(mem', a, screen_x'[a], screen_y'[a], pc'[a], char'[a], left'[a], e)
    BY <1>4, <2>1, <2>2 DEF Place
  <2>4. ~ Rolls(pc'[a], screen_x'[a], screen_y'[a])
    BY <2>2 DEF Rolls
  <2> QED
    BY <1>5, <2>3, <2>4 DEF Placed
<1>10. Seen'
  <2>1. pc'[a] # "video" /\ pc'[a] # "shift_video"
    BY <1>8 DEF Idle
  <2>2. View(mem', a, pc'[a], screen_x'[a], screen_y'[a])
    BY <1>3, <2>1 DEF View, Shown
  <2> QED
    BY <2>2 DEF Seen
<1> QED
  BY <1>1, <1>6, <1>7, <1>9, <1>10, StepOf

\* The keyboard and exception handlers keep the invariant.
LEMMA HandlersInv ==
  ASSUME ScreenInv, Quiet, Handlers
  PROVE  ScreenInv'
<1> DEFINE a == current_active_terminal
           e == expected[a]
<1>1. /\ a \in Terminals /\ Shown(console, a, e) /\ Types /\ console \in Consoles
      /\ current_active_terminal \in Terminals
  BY QuietConsole, ConsoleIs DEF ScreenInv
<1>2. /\ pc \in [Terminals -> Idle \cup Stored \cup Turning \cup Scrolling]
      /\ curr_buff_pos \in [Terminals -> 0 .. BufferSize] /\ BufferSize \in Nat
  BY <1>1, Numbers DEF Types
<1>3. ASSUME NEW c \in Chars, character(c) PROVE ScreenInv'
  <2> DEFINE n == putc(console, c)
             f == Shows(e, c)
  <2>1. n \in Consoles /\ Only(console, n, a) /\ Shown(n, a, f)
    <3> HIDE DEF e
    <3> QED
      BY <1>1, PutcCharacter
  <2>2. /\ Commit(n) /\ Expect(a, f) /\ current_active_terminal' = a
        /\ char' = char /\ left' = left /\ pc' = pc
        /\ curr_buff_pos[a] < BufferSize
        /\ curr_buff_pos' = [curr_buff_pos EXCEPT ![a] = @ + 1]
    BY <1>3 DEF character, program
  <2> HIDE DEF n, f
  <2>3. curr_buff_pos' \in [Terminals -> 0 .. BufferSize]
    BY <1>1, <1>2, <2>2
  <2> QED
    BY <1>2, <2>1, <2>2, <2>3, HandlerStep
<1>4. ASSUME enter PROVE ScreenInv'
  <2> DEFINE n == putc(console, Newline)
             f == Shows(e, Newline)
  <2>1. n \in Consoles /\ Only(console, n, a) /\ Shown(n, a, f)
    <3> HIDE DEF e
    <3> QED
      BY <1>1, PutcNewline
  <2>2. /\ Commit(n) /\ Expect(a, f) /\ current_active_terminal' = a
        /\ char' = char /\ left' = left /\ pc' = pc
        /\ curr_buff_pos' = [curr_buff_pos EXCEPT ![a] = 0]
    BY <1>4 DEF enter, program
  <2> HIDE DEF n, f
  <2>3. curr_buff_pos' \in [Terminals -> 0 .. BufferSize]
    BY <1>1, <1>2, <2>2
  <2> QED
    BY <1>2, <2>1, <2>2, <2>3, HandlerStep
<1>5. ASSUME ctrl_l PROVE ScreenInv'
  <2> DEFINE n == clear(console)
             f == BlankTerminal
  <2>1. n \in Consoles /\ Only(console, n, a) /\ Shown(n, a, f)
    BY <1>1, ClearIs
  <2>2. /\ Commit(n) /\ Expect(a, f) /\ current_active_terminal' = a
        /\ char' = char /\ left' = left /\ pc' = pc
        /\ curr_buff_pos' = [curr_buff_pos EXCEPT ![a] = 0]
    BY <1>5 DEF ctrl_l, program
  <2> HIDE DEF n, f
  <2>3. curr_buff_pos' \in [Terminals -> 0 .. BufferSize]
    BY <1>1, <1>2, <2>2
  <2> QED
    BY <1>2, <2>1, <2>2, <2>3, HandlerStep
<1>6. ASSUME NEW t \in Terminals, fault(t) PROVE ScreenInv'
  <2>1. /\ current_active_terminal' = a /\ char' = char /\ left' = left
        /\ pc[t] = "user" /\ pc' = [pc EXCEPT ![t] = "halt"]
        /\ curr_buff_pos' = curr_buff_pos
        /\ \/ Commit(print_fault(clear(console))) /\ Expect(a, ShowsFault(BlankTerminal))
           \/ Commit(print_fault(console)) /\ Expect(a, ShowsFault(e))
    BY <1>6 DEF fault
  <2>2. curr_buff_pos' \in [Terminals -> 0 .. BufferSize]
    BY <1>2, <2>1
  <2>3. /\ pc' \in [Terminals -> Idle \cup Stored \cup Turning \cup Scrolling]
        /\ \A u \in Terminals : pc'[u] = pc[u] \/ {pc'[u], pc[u]} \subseteq Idle
    BY <1>2, <2>1 DEF Idle
  <2>4. CASE Commit(print_fault(clear(console))) /\ Expect(a, ShowsFault(BlankTerminal))
    <3> DEFINE b == clear(console)
               n == print_fault(b)
               f == ShowsFault(BlankTerminal)
    <3>1. b \in Consoles /\ Only(console, b, a) /\ Shown(b, a, BlankTerminal)
      BY <1>1, ClearIs
    <3> HIDE DEF b
    <3>2. n \in Consoles /\ Only(b, n, a) /\ Shown(n, a, f)
      BY <1>1, <3>1, FaultIs
    <3>3. Commit(n) /\ Expect(a, f)
      BY <2>4 DEF b
    <3> HIDE DEF n, f
    <3>4. Only(console, n, a)
      BY <3>1, <3>2, OnlyTwice
    <3> QED
      BY <2>1, <2>2, <2>3, <3>2, <3>3, <3>4, HandlerStep
  <2>5. CASE Commit(print_fault(console)) /\ Expect(a, ShowsFault(e))
    <3> DEFINE n == print_fault(console)
               f == ShowsFault(e)
    <3>1. n \in Consoles /\ Only(console, n, a) /\ Shown(n, a, f)
      <4> HIDE DEF e
      <4> QED
        BY <1>1, FaultIs
    <3>2. Commit(n) /\ Expect(a, f)
      BY <2>5
    <3> HIDE DEF n, f
    <3> QED
      BY <2>1, <2>2, <2>3, <3>1, <3>2, HandlerStep
  <2> QED
    BY <2>1, <2>4, <2>5
<1> QED
  BY <1>3, <1>4, <1>5, <1>6 DEF Handlers

\* Backspace behind the first cell keeps the invariant.
LEMMA BackspaceInv ==
  ASSUME ScreenInv, Quiet, ~ Corner, backspace
  PROVE  ScreenInv'
<1> DEFINE a == current_active_terminal
           e == expected[a]
           x == console.x[a]
           y == console.y[a]
           n == put_backspace(console, a)
           f == Erases(e)
<1>1. /\ a \in Terminals /\ Shown(console, a, e) /\ Types /\ console \in Consoles
      /\ x = screen_x[a] /\ y = screen_y[a]
  BY QuietConsole, ConsoleIs DEF ScreenInv
<1>2. /\ GoodIdeal(e) /\ Whole(console.mem, a, e) /\ Mirrors(console.mem, a)
      /\ x = e.x /\ y = e.y /\ e.rows \in [Rows -> Row]
      /\ x \in 0 .. NUM_COLS - 1 /\ y \in 0 .. NUM_ROWS - 1
  BY <1>1 DEF Shown, GoodIdeal, Ideal
<1>3. /\ x \in 0 .. NUM_COLS /\ (x > 0 \/ y > 0)
  BY <1>1, <1>2, Numbers DEF Corner
<1>4. /\ n \in Consoles /\ Only(console, n, a)
      /\ n.x[a] = BackX(x) - 1 /\ n.y[a] = BackY(x, y)
      /\ BackX(x) \in Cols /\ BackY(x, y) + 1 \in Rows
      /\ CellSet(console.mem, n.mem, a, BackY(x, y) + 1, BackX(x), Blank)
      /\ Mirrors(n.mem, a)
  <2> HIDE DEF e
  <2>1. x = console.x[a] /\ y = console.y[a] /\ y \in 0 .. NUM_ROWS - 1
    BY <1>2
  <2> HIDE DEF x, y
  <2> QED
    BY <1>1, <1>2, <1>3, <2>1, BackspaceIs
<1>5. /\ GoodIdeal(f) /\ f.x = BackX(x) - 1 /\ f.y = BackY(x, y)
      /\ f.rows = With(e.rows, BackY(x, y) + 1, BackX(x), Blank)
  <2>1. e.x > 0 \/ e.y > 0
    BY <1>2, <1>3
  <2> HIDE DEF e
  <2>2. /\ GoodIdeal(f) /\ f.x = BackX(e.x) - 1 /\ f.y = BackY(e.x, e.y)
        /\ f.rows = With(e.rows, BackY(e.x, e.y) + 1, BackX(e.x), Blank)
    BY <1>2, <2>1, ErasesIs
  <2> HIDE DEF x, y, f
  <2> QED
    BY <1>2, <2>2
<1> HIDE DEF n, f, e
<1>6. Whole(n.mem, a, f)
  <2>1. Blank \in Shades
    BY DEF Shades
  <2> HIDE DEF x, y
  <2> QED
    BY <1>2, <1>4, <1>5, <2>1, WholeWith
<1>7. Shown(n, a, f)
  BY <1>4, <1>5, <1>6 DEF Shown
<1>8. /\ Commit(n) /\ Expect(a, f) /\ current_active_terminal' = a
      /\ char' = char /\ left' = left /\ pc' = pc
      /\ curr_buff_pos[a] > 0
      /\ curr_buff_pos' = [curr_buff_pos EXCEPT ![a] = @ - 1]
  BY DEF backspace, program, n, f, e
<1>9. /\ curr_buff_pos' \in [Terminals -> 0 .. BufferSize]
      /\ pc \in [Terminals -> Idle \cup Stored \cup Turning \cup Scrolling]
  BY <1>1, <1>8, Numbers DEF Types
<1> QED
  BY <1>4, <1>7, <1>8, <1>9, HandlerStep

\* What is known of the terminal of a program.
LEMMA ProgramOf ==
  ASSUME ScreenInv, NEW t \in Terminals
  PROVE  /\ Types /\ Placed(t) /\ mem \in Memory /\ current_active_terminal \in Terminals
         /\ expected[t] \in Ideal /\ GoodIdeal(expected[t]) /\ expected[t].rows \in [Rows -> Row]
         /\ expected[t].x \in 0 .. NUM_COLS - 1 /\ expected[t].y \in 0 .. NUM_ROWS - 1
         /\ t = current_active_terminal => View(mem, t, pc[t], screen_x[t], screen_y[t])
         /\ NUM_ROWS \in Nat /\ NUM_COLS \in Nat /\ NUM_COLS > 0 /\ NUM_ROWS > 0
         /\ NUM_ROWS \in Rows /\ (NUM_ROWS - 1) + 1 = NUM_ROWS
<1>1. Types /\ Placed(t) /\ Seen
  BY DEF ScreenInv
<1>2. GoodIdeal(expected[t])
  BY <1>1 DEF Placed, Place
<1>3. /\ expected[t] \in Ideal /\ expected[t].rows \in [Rows -> Row]
      /\ expected[t].x \in 0 .. NUM_COLS - 1 /\ expected[t].y \in 0 .. NUM_ROWS - 1
  BY <1>2 DEF GoodIdeal, Ideal
<1>4. t = current_active_terminal => View(mem, t, pc[t], screen_x[t], screen_y[t])
  BY <1>1 DEF Seen
<1>5. mem \in Memory /\ current_active_terminal \in Terminals
  BY <1>1 DEF Types
<1>6. /\ NUM_ROWS \in Nat /\ NUM_COLS \in Nat /\ NUM_COLS > 0 /\ NUM_ROWS > 0
      /\ NUM_ROWS \in Rows /\ (NUM_ROWS - 1) + 1 = NUM_ROWS
  BY Numbers DEF Rows
<1> QED
  BY <1>1, <1>2, <1>3, <1>4, <1>5, <1>6, Zenon

\* A newline of a program that is shown or not in the last row.
LEMMA NewlineInv ==
  ASSUME ScreenInv, NEW t \in Terminals,
         t = current_active_terminal \/ screen_y[t] < NUM_ROWS - 1, putc_newline(t)
  PROVE  ScreenInv'
<1> DEFINE x == screen_x[t]
           y == screen_y[t]
           e == expected[t]
           f == Shows(e, Newline)
<1>1. /\ Types /\ Placed(t) /\ mem \in Memory /\ current_active_terminal \in Terminals
      /\ e \in Ideal /\ GoodIdeal(e) /\ e.rows \in [Rows -> Row]
      /\ e.x \in 0 .. NUM_COLS - 1 /\ e.y \in 0 .. NUM_ROWS - 1
      /\ t = current_active_terminal => View(mem, t, pc[t], x, y)
      /\ NUM_ROWS \in Nat /\ NUM_COLS \in Nat /\ NUM_COLS > 0 /\ NUM_ROWS > 0
      /\ NUM_ROWS \in Rows /\ (NUM_ROWS - 1) + 1 = NUM_ROWS
  BY ProgramOf
<1>2. /\ pc[t] = "user" /\ mem' = mem /\ curr_buff_pos' = curr_buff_pos
      /\ current_active_terminal' = current_active_terminal
      /\ char' = [char EXCEPT ![t] = Newline] /\ left' = left
      /\ expected' = [expected EXCEPT ![t] = f]
      /\ screen_y' = [screen_y EXCEPT ![t] = @ + 1] /\ screen_x' = screen_x
      /\ pc' = [pc EXCEPT ![t] = "newline"]
  BY DEF putc_newline, Goto, Expect
<1>3. Whole(mem, t, e) /\ x = e.x /\ y = e.y
  BY <1>1, <1>2 DEF Placed, Place, Settled, Idle
<1>4. x \in 0 .. NUM_COLS - 1 /\ y \in 0 .. NUM_ROWS - 1 /\ x \in 0 .. NUM_COLS
  <2>1. x \in 0 .. NUM_COLS - 1 /\ y \in 0 .. NUM_ROWS - 1
    BY <1>1, <1>3
  <2> QED
    BY <1>1, <2>1
<1>5. /\ GoodIdeal(f) /\ f \in Ideal /\ f.x = 0
      /\ y < NUM_ROWS - 1 => f.rows = e.rows /\ f.y = y + 1
      /\ y = NUM_ROWS - 1 => f.rows = Scrolled(e.rows) /\ f.y = y
  <2> HIDE DEF e, x, y
  <2> QED
    BY <1>1, <1>3, ShowsNewline DEF GoodIdeal
<1> HIDE DEF f
<1>6. /\ expected'[t] = f /\ char'[t] = Newline
      /\ expected' \in [Terminals -> Ideal] /\ char' \in [Terminals -> Chars \cup {Newline}]
      /\ \A u \in Terminals : u # t => expected'[u] = expected[u] /\ char'[u] = char[u]
  BY <1>1, <1>2, <1>5 DEF Types
<1>7. PageKept(mem, mem', t) /\ ScreenKept(mem, mem') /\ \A u \in Terminals : PageKept(mem, mem', u)
  BY <1>2 DEF PageKept, ScreenKept
<1>8. /\ pc'[t] = "newline" /\ pc' \in [Terminals -> Idle \cup Stored \cup Turning \cup Scrolling]
      /\ screen_y'[t] = y + 1 /\ screen_y' \in [Terminals -> Int] /\ y + 1 \in 0 .. NUM_ROWS
      /\ \A u \in Terminals : u # t => pc'[u] = pc[u] /\ screen_y'[u] = screen_y[u]
  <2>1. y + 1 \in Int /\ y + 1 \in 0 .. NUM_ROWS
    BY <1>1, <1>4
  <2>2. "newline" \in Turning
    BY DEF Turning
  <2> QED
    BY <1>1, <1>2, <2>1, <2>2 DEF Types
<1>9. Types'
  BY <1>1, <1>2, <1>6, <1>8 DEF Types
<1>10. Elsewhere(t)
  BY <1>2, <1>6, <1>7, <1>8 DEF Elsewhere
<1>11. Lowered(mem, t, x, y + 1, f)
  <2>1. CASE y + 1 = NUM_ROWS
    <3>1. y = NUM_ROWS - 1
      BY <1>1, <1>4, <2>1
    <3>2. Coming(mem, t, f)
      BY <1>1, <1>3, <1>5, <3>1, ComingIs
    <3>3. Bare(mem, t, x)
      <4> SUFFICES ASSUME NEW k \in Cols, k > x
                   PROVE  mem[Page(t) + Cell(NUM_ROWS, k)] = Blank
        BY DEF Bare
      <4>1. Behind(NUM_ROWS, k, e.x, e.y)
        BY <1>1, <1>3, <3>1 DEF Behind
      <4> QED
        BY <1>1, <1>3, <4>1 DEF GoodIdeal, Whole
    <3> QED
      BY <1>4, <1>5, <1>8, <2>1, <3>1, <3>2, <3>3 DEF Lowered
  <2>2. CASE y + 1 # NUM_ROWS
    <3>1. y < NUM_ROWS - 1
      BY <1>1, <1>4, <2>2
    <3>2. Whole(mem, t, f)
      BY <1>3, <1>5, <3>1 DEF Whole
    <3> QED
      BY <1>4, <1>5, <1>8, <2>2, <3>1, <3>2 DEF Lowered
  <2> QED
    BY <2>1, <2>2
<1>12. Place(mem', t, x, y + 1, "newline", Newline, left[t], f)
  BY <1>2, <1>5, <1>11 DEF Place, Idle, Stored
<1>13. Rolls("newline", x, y + 1) => t = current_active_terminal
  <2>1. y + 1 = NUM_ROWS => ~(y < NUM_ROWS - 1)
    BY <1>1, <1>4
  <2> QED
    BY <2>1 DEF Rolls, Stored, Scrolling
<1>14. Placed(t)'
  BY <1>2, <1>6, <1>8, <1>12, <1>13 DEF Placed
<1>15. t = current_active_terminal => Seen'
  <2> SUFFICES ASSUME t = current_active_terminal PROVE Seen'
    OBVIOUS
  <2>1. Mirrors(mem, t)
    BY <1>1, <1>2 DEF View
  <2> QED
    BY <1>2, <1>8, <2>1 DEF Seen, View
<1> QED
  BY <1>7, <1>9, <1>10, <1>14, <1>15, StepOf

\* Back on the screen, with the call of scroll_up, or on to the column.
LEMMA NewlineRowInv ==
  ASSUME ScreenInv, NEW t \in Terminals, newline_row(t)
  PROVE  ScreenInv'
<1> DEFINE x == screen_x[t]
           y == screen_y[t]
           e == expected[t]
           a == current_active_terminal
<1>1. /\ Types /\ Placed(t) /\ mem \in Memory /\ a \in Terminals
      /\ e.x \in 0 .. NUM_COLS - 1 /\ e.y \in 0 .. NUM_ROWS - 1
      /\ t = a => View(mem, t, pc[t], x, y)
      /\ NUM_ROWS \in Nat /\ NUM_COLS \in Nat /\ NUM_COLS > 0 /\ NUM_ROWS > 0
  BY ProgramOf
<1>2. /\ pc[t] = "newline" /\ mem' = mem /\ curr_buff_pos' = curr_buff_pos /\ a' = a
      /\ char' = char /\ expected' = expected /\ screen_x' = screen_x
      /\ IF y = NUM_ROWS
         THEN /\ left' = [left EXCEPT ![t] = x] /\ pc' = [pc EXCEPT ![t] = "shift"]
              /\ screen_y' = [screen_y EXCEPT ![t] = @ - 1]
         ELSE left' = left /\ pc' = [pc EXCEPT ![t] = "column"] /\ screen_y' = screen_y
  BY DEF newline_row, Goto
<1>3. Place(mem, t, x, y, "newline", char[t], left[t], e)
  BY <1>1, <1>2 DEF Placed
<1>4. GoodIdeal(e) /\ Lowered(mem, t, x, y, e)
  BY <1>3 DEF Place
<1>5. x \in 0 .. NUM_COLS - 1 /\ x \in 0 .. NUM_COLS /\ y \in 0 .. NUM_ROWS /\ e.x = 0
  <2>1. x \in 0 .. NUM_COLS - 1 /\ y \in 0 .. NUM_ROWS /\ e.x = 0
    BY <1>4 DEF Lowered
  <2> QED
    BY <1>1, <2>1
<1>6. "shift" \in Scrolling /\ "column" \in Turning
  BY DEF Scrolling, Turning
<1>7. ScreenKept(mem, mem') /\ \A u \in Terminals : PageKept(mem, mem', u)
  BY <1>2 DEF PageKept, ScreenKept
<1>8. t = a => Mirrors(mem, t)
  BY <1>1, <1>2 DEF View
<1>9. CASE y = NUM_ROWS
  <2>1. /\ left' = [left EXCEPT ![t] = x] /\ pc' = [pc EXCEPT ![t] = "shift"]
        /\ screen_y' = [screen_y EXCEPT ![t] = NUM_ROWS - 1] /\ NUM_ROWS - 1 \in Int
    BY <1>1, <1>2, <1>9
  <2>2. /\ left'[t] = x /\ pc'[t] = "shift" /\ screen_y'[t] = NUM_ROWS - 1
        /\ left' \in [Terminals -> 0 .. NUM_COLS] /\ screen_y' \in [Terminals -> Int]
        /\ pc' \in [Terminals -> Idle \cup Stored \cup Turning \cup Scrolling]
        /\ \A u \in Terminals : u # t =>
              left'[u] = left[u] /\ pc'[u] = pc[u] /\ screen_y'[u] = screen_y[u]
    BY <1>1, <1>5, <1>6, <2>1 DEF Types
  <2>3. Types'
    BY <1>1, <1>2, <2>2 DEF Types
  <2>4. Elsewhere(t)
    BY <1>2, <1>7, <2>2 DEF Elsewhere
  <2>5. Coming(mem, t, e) /\ Bare(mem, t, x) /\ e.y = NUM_ROWS - 1
    BY <1>4, <1>9 DEF Lowered
  <2>6. Rolling(mem, t, x, NUM_ROWS - 1, x, e)
    BY <1>5, <2>5 DEF Rolling
  <2>7. Place(mem, t, x, NUM_ROWS - 1, "shift", char[t], x, e)
    BY <1>4, <2>5, <2>6 DEF Place, Idle, Stored
  <2>8. t = a
    BY <1>1, <1>2, <1>9 DEF Placed, Rolls
  <2>9. Placed(t)'
    BY <1>2, <2>2, <2>7, <2>8 DEF Placed
  <2>10. Seen'
    BY <1>2, <1>8, <2>2, <2>8 DEF Seen, View
  <2> QED
    BY <1>7, <2>3, <2>4, <2>8, <2>9, <2>10, StepOf
<1>10. CASE y # NUM_ROWS
  <2>1. left' = left /\ pc' = [pc EXCEPT ![t] = "column"] /\ screen_y' = screen_y
    BY <1>2, <1>10
  <2>2. /\ pc'[t] = "column"
        /\ pc' \in [Terminals -> Idle \cup Stored \cup Turning \cup Scrolling]
        /\ \A u \in Terminals : u # t => pc'[u] = pc[u]
    BY <1>1, <1>6, <2>1 DEF Types
  <2>3. Types'
    BY <1>1, <1>2, <2>1, <2>2 DEF Types
  <2>4. Elsewhere(t)
    BY <1>2, <1>7, <2>1, <2>2 DEF Elsewhere
  <2>5. Returning(mem, t, x, y, e)
    BY <1>4, <1>5, <1>10 DEF Lowered, Returning
  <2>6. Place(mem, t, x, y, "column", char[t], left[t], e)
    BY <1>4, <2>5 DEF Place, Idle, Stored
  <2>7. ~ Rolls("column", x, y)
    BY DEF Rolls, Stored, Scrolling
  <2>8. Placed(t)'
    BY <1>2, <2>1, <2>2, <2>6, <2>7 DEF Placed
  <2>9. t = a => Seen'
    BY <1>2, <1>8, <2>2 DEF Seen, View
  <2> QED
    BY <1>7, <2>3, <2>4, <2>8, <2>9, StepOf
<1> QED
  BY <1>9, <1>10

\* The column is reset.
LEMMA NewlineColumnInv ==
  ASSUME ScreenInv, NEW t \in Terminals, newline_column(t)
  PROVE  ScreenInv'
<1> DEFINE x == screen_x[t]
           y == screen_y[t]
           e == expected[t]
           a == current_active_terminal
<1>1. /\ Types /\ Placed(t) /\ a \in Terminals
      /\ t = a => View(mem, t, pc[t], x, y)
  BY ProgramOf
<1>2. /\ pc[t] = "column" /\ mem' = mem /\ curr_buff_pos' = curr_buff_pos /\ a' = a
      /\ char' = char /\ expected' = expected /\ left' = left /\ screen_y' = screen_y
      /\ screen_x' = [screen_x EXCEPT ![t] = 0] /\ pc' = [pc EXCEPT ![t] = "user"]
  BY DEF newline_column, Goto
<1>3. Place(mem, t, x, y, "column", char[t], left[t], e)
  BY <1>1, <1>2 DEF Placed
<1>4. GoodIdeal(e) /\ Returning(mem, t, x, y, e)
  BY <1>3 DEF Place
<1>5. /\ pc'[t] = "user" /\ pc' \in [Terminals -> Idle \cup Stored \cup Turning \cup Scrolling]
      /\ screen_x'[t] = 0 /\ screen_x' \in [Terminals -> Int]
      /\ \A u \in Terminals : u # t => pc'[u] = pc[u] /\ screen_x'[u] = screen_x[u]
  BY <1>1, <1>2 DEF Types, Idle
<1>6. Types'
  BY <1>1, <1>2, <1>5 DEF Types
<1>7. Elsewhere(t) /\ ScreenKept(mem, mem')
  BY <1>2, <1>5 DEF Elsewhere, PageKept, ScreenKept
<1>8. Place(mem, t, 0, y, "user", char[t], left[t], e)
  BY <1>4 DEF Place, Returning, Settled, Idle, Stored
<1>9. ~ Rolls("user", 0, y)
  BY DEF Rolls, Stored, Scrolling
<1>10. Placed(t)'
  BY <1>2, <1>5, <1>8, <1>9 DEF Placed
<1>11. t = a => Seen'
  BY <1>1, <1>2, <1>5 DEF Seen, View
<1> QED
  BY <1>6, <1>7, <1>10, <1>11, StepOf

\* The first store of another character.
LEMMA PageInv ==
  ASSUME ScreenInv, NEW t \in Terminals,
         t = current_active_terminal \/ screen_y[t] < NUM_ROWS - 1,
         NEW c \in Chars, putc_page(t, c)
  PROVE  ScreenInv'
<1> DEFINE x == screen_x[t]
           y == screen_y[t]
           e == expected[t]
           f == Shows(e, c)
           w == With(e.rows, y + 1, x + 1, c)
           g == [rows |-> w]
           m == Store(mem, Page(t) + Cell(y + 1, x + 1), c)
<1>1. /\ Types /\ Placed(t) /\ mem \in Memory /\ current_active_terminal \in Terminals
      /\ e \in Ideal /\ GoodIdeal(e) /\ e.rows \in [Rows -> Row]
      /\ e.x \in 0 .. NUM_COLS - 1 /\ e.y \in 0 .. NUM_ROWS - 1
      /\ t = current_active_terminal => View(mem, t, pc[t], x, y)
      /\ NUM_ROWS \in Nat /\ NUM_COLS \in Nat /\ NUM_COLS > 0 /\ NUM_ROWS > 0
      /\ NUM_ROWS \in Rows /\ (NUM_ROWS - 1) + 1 = NUM_ROWS
  BY ProgramOf
<1>2. /\ pc[t] = "user" /\ curr_buff_pos' = curr_buff_pos
      /\ current_active_terminal' = current_active_terminal
      /\ screen_x' = screen_x /\ screen_y' = screen_y /\ left' = left
      /\ char' = [char EXCEPT ![t] = c]
      /\ expected' = [expected EXCEPT ![t] = f]
      /\ pc' = [pc EXCEPT ![t] = "video"]
      /\ mem' = Store(mem, Page(t) + Position(console, t), c)
  BY DEF putc_page, Goto, Expect
<1>3. Whole(mem, t, e) /\ x = e.x /\ y = e.y
  BY <1>1, <1>2 DEF Placed, Place, Settled, Idle
<1>4. /\ x \in 0 .. NUM_COLS - 1 /\ y \in 0 .. NUM_ROWS - 1 /\ x \in Nat /\ y \in Nat
      /\ y + 1 \in Rows /\ x + 1 \in Cols /\ c \in Shades
  <2>1. x \in 0 .. NUM_COLS - 1 /\ y \in 0 .. NUM_ROWS - 1
    BY <1>1, <1>3
  <2> HIDE DEF x, y
  <2> QED
    BY <1>1, <2>1 DEF Rows, Cols, Shades
<1>5. mem' = m
  <2>1. Position(console, t) = Cell(y + 1, x + 1)
    BY <1>1, <1>4, ConsoleIs, PositionIs
  <2> QED
    BY <1>2, <2>1
<1>6. /\ GoodIdeal(f) /\ f \in Ideal
      /\ x + 1 # NUM_COLS => f.rows = w /\ f.x = x + 1 /\ f.y = y
      /\ x + 1 = NUM_COLS /\ y < NUM_ROWS - 1 => f.rows = w /\ f.x = 0 /\ f.y = y + 1
      /\ x + 1 = NUM_COLS /\ y = NUM_ROWS - 1 => f.rows = Scrolled(w) /\ f.x = 0 /\ f.y = y
  <2>1. w = With(e.rows, e.y + 1, e.x + 1, c)
    BY <1>3
  <2> HIDE DEF w, e, x, y
  <2> QED
    BY <1>1, <1>3, <2>1, ShowsCharacter DEF GoodIdeal
<1>7. /\ m \in Memory /\ ScreenKept(mem, m) /\ CellSet(mem, m, t, y + 1, x + 1, c)
      /\ \A u \in Terminals : u # t => PageKept(mem, m, u)
  <2> HIDE DEF x, y
  <2> QED
    BY <1>1, <1>4, StoreIs
<1>8. w \in [Rows -> Row] /\ g.rows = w
  <2>1. w \in [Rows -> Row]
    <3> HIDE DEF x, y, e
    <3> QED
      BY <1>1, <1>4, WithIs
  <2> HIDE DEF w
  <2> QED
    BY <2>1
<1>9. Whole(m, t, g)
  <2> HIDE DEF x, y, e, m, g
  <2> QED
    BY <1>1, <1>3, <1>4, <1>7, <1>8, WholeWith
<1> HIDE DEF m, w, g, f
<1>10. /\ expected'[t] = f /\ char'[t] = c /\ pc'[t] = "video"
       /\ expected' \in [Terminals -> Ideal] /\ char' \in [Terminals -> Chars \cup {Newline}]
       /\ pc' \in [Terminals -> Idle \cup Stored \cup Turning \cup Scrolling]
       /\ \A u \in Terminals : u # t => /\ expected'[u] = expected[u] /\ char'[u] = char[u]
                                        /\ pc'[u] = pc[u]
  BY <1>1, <1>2, <1>6 DEF Types, Stored
<1>11. Types'
  BY <1>1, <1>2, <1>5, <1>7, <1>10 DEF Types
<1>12. Elsewhere(t)
  BY <1>2, <1>5, <1>7, <1>10 DEF Elsewhere
<1>13. Storing(m, t, x, y, f)
  <2>1. CASE Ends(x, y)
    <3>1. f.rows = Scrolled(g.rows) /\ f.x = 0 /\ f.y = NUM_ROWS - 1
      BY <1>6, <1>8, <2>1 DEF Ends
    <3>2. Coming(m, t, f)
      BY <1>8, <1>9, <3>1, ComingIs
    <3> QED
      BY <1>4, <2>1, <3>1, <3>2 DEF Storing
  <2>2. CASE ~ Ends(x, y)
    <3>1. f.rows = w /\ f.x = NextX(x) /\ f.y = NextY(x, y)
      <4>1. CASE x + 1 = NUM_COLS
        <5>1. y < NUM_ROWS - 1
          BY <1>1, <1>4, <2>2, <4>1 DEF Ends
        <5> QED
          BY <1>6, <4>1, <5>1 DEF NextX, NextY
      <4>2. CASE x + 1 # NUM_COLS
        BY <1>6, <4>2 DEF NextX, NextY
      <4> QED
        BY <4>1, <4>2
    <3>2. Whole(m, t, f)
      BY <1>8, <1>9, <3>1 DEF Whole
    <3> QED
      BY <1>4, <2>2, <3>1, <3>2 DEF Storing
  <2> QED
    BY <2>1, <2>2
<1>14. Place(m, t, x, y, "video", c, left[t], f)
  BY <1>6, <1>7, <1>13 DEF Place, Idle, Stored, CellSet
<1>15. Rolls("video", x, y) => t = current_active_terminal
  BY <1>1, <1>4 DEF Rolls, Scrolling, Ends
<1>16. Placed(t)'
  BY <1>2, <1>5, <1>10, <1>14, <1>15 DEF Placed
<1>17. ASSUME t = current_active_terminal PROVE Seen'
  <2>1. Mirrors(mem, t)
    BY <1>1, <1>2, <1>17 DEF View
  <2>2. ASSUME NEW p \in Cells, p # Cell(y + 1, x + 1) PROVE m[p] = m[Page(t) + p]
    <3>1. m[Page(t) + p] = mem[Page(t) + p]
      <4> DEFINE q == Cell(y + 1, x + 1)
      <4>1. q \in Cells
        BY <1>4, CellIs
      <4>2. m = Store(mem, Page(t) + q, c)
        BY DEF m
      <4> HIDE DEF q
      <4>3. \A r \in Cells : r # q => m[Page(t) + r] = mem[Page(t) + r]
        BY <1>1, <1>4, <4>1, <4>2, PageStore
      <4> QED
        BY <2>2, <4>3 DEF q
    <3> QED
      BY <1>7, <2>1, <3>1 DEF ScreenKept, Mirrors
  <2>3. View(m, t, "video", x, y)
    BY <2>2 DEF View
  <2> QED
    BY <1>2, <1>5, <1>10, <1>17, <2>3 DEF Seen
<1> QED
  BY <1>5, <1>7, <1>11, <1>12, <1>16, <1>17, StepOf

\* A step of a program that writes to memory and goes on.
LEMMA MoveOn ==
  ASSUME ScreenInv, NEW t \in Terminals, NEW l \in Idle \cup Stored \cup Turning \cup Scrolling,
         pc' = [pc EXCEPT ![t] = l], mem' \in Memory,
         screen_x' = screen_x, screen_y' = screen_y, char' = char, left' = left,
         expected' = expected, current_active_terminal' = current_active_terminal,
         curr_buff_pos' = curr_buff_pos,
         \A u \in Terminals : u # t => PageKept(mem, mem', u),
         Place(mem', t, screen_x[t], screen_y[t], l, char[t], left[t], expected[t]),
         Rolls(l, screen_x[t], screen_y[t]) => t = current_active_terminal,
         t = current_active_terminal => View(mem', t, l, screen_x[t], screen_y[t]),
         t # current_active_terminal => ScreenKept(mem, mem')
  PROVE  ScreenInv'
<1>1. Types
  BY DEF ScreenInv
<1>2. /\ pc'[t] = l /\ pc' \in [Terminals -> Idle \cup Stored \cup Turning \cup Scrolling]
      /\ \A u \in Terminals : u # t => pc'[u] = pc[u]
  BY <1>1 DEF Types
<1>3. Types'
  BY <1>1, <1>2 DEF Types
<1>4. Elsewhere(t)
  BY <1>2 DEF Elsewhere
<1>5. Placed(t)'
  BY <1>2 DEF Placed
<1>6. t = current_active_terminal => Seen'
  BY <1>2 DEF Seen
<1> QED
  BY <1>3, <1>4, <1>5, <1>6, StepOf

\* The store on the screen.
LEMMA VideoInv ==
  ASSUME ScreenInv, NEW t \in Terminals, putc_video(t)
  PROVE  ScreenInv'
<1> DEFINE x == screen_x[t]
           y == screen_y[t]
           e == expected[t]
           a == current_active_terminal
           q == Cell(y + 1, x + 1)
<1>1. /\ Types /\ Placed(t) /\ mem \in Memory
      /\ t = a => View(mem, t, pc[t], x, y)
      /\ NUM_ROWS \in Nat /\ NUM_COLS \in Nat
  BY ProgramOf
<1>2. /\ pc[t] = "video" /\ curr_buff_pos' = curr_buff_pos /\ a' = a
      /\ screen_x' = screen_x /\ screen_y' = screen_y /\ left' = left
      /\ char' = char /\ expected' = expected /\ pc' = [pc EXCEPT ![t] = "advance"]
      /\ mem' = IF a = t THEN Store(mem, Position(console, t), char[t]) ELSE mem
  BY DEF putc_video, Goto
<1>3. /\ Place(mem, t, x, y, "video", char[t], left[t], e)
      /\ Rolls("video", x, y) => t = a
  BY <1>1, <1>2 DEF Placed
<1>4. /\ GoodIdeal(e) /\ Storing(mem, t, x, y, e) /\ char[t] \in Chars
      /\ mem[Page(t) + q] = char[t]
  BY <1>3 DEF Place, Stored
<1>5. /\ x \in 0 .. NUM_COLS - 1 /\ y \in 0 .. NUM_ROWS - 1 /\ x \in Nat /\ y \in Nat
      /\ y + 1 \in Rows /\ x + 1 \in Cols
  <2>1. x \in 0 .. NUM_COLS - 1 /\ y \in 0 .. NUM_ROWS - 1
    BY <1>4 DEF Storing
  <2> HIDE DEF x, y
  <2> QED
    BY <1>1, <2>1 DEF Rows, Cols
<1>6. q \in Cells /\ char[t] \in Shades
  BY <1>4, <1>5, CellIs DEF Shades
<1>7. Position(console, t) = q
  BY <1>1, <1>5, ConsoleIs, PositionIs
<1>8. Place(mem, t, x, y, "advance", char[t], left[t], e)
  BY <1>4 DEF Place, Stored, Idle
<1>9. Rolls("advance", x, y) => t = a
  BY <1>3 DEF Rolls, Stored, Scrolling
<1>10. "advance" \in Idle \cup Stored \cup Turning \cup Scrolling
  BY DEF Stored
<1> HIDE DEF q
<1>11. CASE t = a
  <2>1. mem' = Store(mem, q, char[t])
    BY <1>2, <1>7, <1>11
  <2>2. /\ mem' \in Memory /\ (\A u \in Terminals : PageKept(mem, mem', u))
        /\ mem'[q] = char[t] /\ \A p \in Cells : p # q => mem'[p] = mem[p]
    BY <1>1, <1>6, <2>1, ScreenStore
  <2>3. Place(mem', t, x, y, "advance", char[t], left[t], e)
    BY <1>8, <2>2, PlaceKept
  <2>4. Mirrors(mem', t)
    <3> SUFFICES ASSUME NEW p \in Cells PROVE mem'[p] = mem'[Page(t) + p]
      BY DEF Mirrors
    <3>1. mem'[Page(t) + p] = mem[Page(t) + p]
      BY <2>2 DEF PageKept
    <3>2. CASE p = q
      BY <1>4, <2>2, <3>1, <3>2 DEF q
    <3>3. CASE p # q
      <4>1. mem[p] = mem[Page(t) + p]
        BY <1>1, <1>2, <1>11, <3>3 DEF View, q
      <4> QED
        BY <2>2, <3>1, <3>3, <4>1
    <3> QED
      BY <3>2, <3>3
  <2>5. View(mem', t, "advance", x, y)
    BY <2>4 DEF View
  <2> QED
    BY <1>2, <1>9, <1>10, <1>11, <2>2, <2>3, <2>5, MoveOn
<1>12. CASE t # a
  <2>1. mem' = mem
    BY <1>2, <1>12
  <2>2. ScreenKept(mem, mem') /\ \A u \in Terminals : PageKept(mem, mem', u)
    BY <2>1 DEF ScreenKept, PageKept
  <2> QED
    BY <1>1, <1>2, <1>8, <1>9, <1>10, <1>12, <2>1, <2>2, MoveOn
<1> QED
  BY <1>11, <1>12

\* The first move of scroll_up.
LEMMA ShiftPageInv ==
  ASSUME ScreenInv, NEW t \in Terminals, shift_page(t)
  PROVE  ScreenInv'
<1> DEFINE x == screen_x[t]
           y == screen_y[t]
           e == expected[t]
           n == left[t]
           a == current_active_terminal
<1>1. /\ Types /\ Placed(t) /\ mem \in Memory
      /\ t = a => View(mem, t, pc[t], x, y)
      /\ NUM_ROWS \in Nat /\ NUM_COLS \in Nat
  BY ProgramOf
<1>2. /\ pc[t] = "shift" /\ curr_buff_pos' = curr_buff_pos /\ a' = a
      /\ screen_x' = screen_x /\ screen_y' = screen_y /\ left' = left
      /\ char' = char /\ expected' = expected /\ pc' = [pc EXCEPT ![t] = "shift_video"]
      /\ mem' = Shift(mem, Page(t))
  BY DEF shift_page, Goto
<1>3. t = a /\ Place(mem, t, x, y, "shift", char[t], n, e)
  BY <1>1, <1>2 DEF Placed, Rolls, Scrolling
<1>4. GoodIdeal(e) /\ Rolling(mem, t, x, y, n, e) /\ Coming(mem, t, e)
  BY <1>3 DEF Place
<1>5. Mirrors(mem, t)
  BY <1>1, <1>2, <1>3 DEF View
<1>6. n \in Nat /\ Bare(mem, t, n)
  BY <1>1, <1>4 DEF Rolling
<1> HIDE DEF e, n
<1>7. /\ mem' \in Memory /\ Upper(mem', t, e) /\ Bare(mem', t, n) /\ Lags(mem', t)
      /\ \A u \in Terminals : u # t => PageKept(mem, mem', u)
  BY <1>1, <1>2, <1>4, <1>5, <1>6, PageShifted
<1>8. Rolling(mem', t, x, y, n, e)
  BY <1>4, <1>7 DEF Rolling
<1>9. Place(mem', t, x, y, "shift_video", char[t], n, e)
  BY <1>4, <1>7, <1>8 DEF Place, Idle, Stored
<1>10. View(mem', t, "shift_video", x, y)
  BY <1>7 DEF View
<1>11. "shift_video" \in Idle \cup Stored \cup Turning \cup Scrolling
  BY DEF Scrolling
<1> QED
  BY <1>2, <1>3, <1>7, <1>9, <1>10, <1>11, MoveOn DEF e, n

\* The second one.
LEMMA ShiftVideoInv ==
  ASSUME ScreenInv, NEW t \in Terminals, shift_video(t)
  PROVE  ScreenInv'
<1> DEFINE x == screen_x[t]
           y == screen_y[t]
           e == expected[t]
           n == left[t]
           a == current_active_terminal
<1>1. /\ Types /\ Placed(t) /\ mem \in Memory
      /\ t = a => View(mem, t, pc[t], x, y)
  BY ProgramOf
<1>2. t = a /\ pc[t] = "shift_video" /\ Place(mem, t, x, y, "shift_video", char[t], n, e)
  BY <1>1 DEF shift_video, Placed, Rolls, Scrolling
<1>3. /\ curr_buff_pos' = curr_buff_pos /\ a' = a
      /\ screen_x' = screen_x /\ screen_y' = screen_y /\ left' = left
      /\ char' = char /\ expected' = expected /\ pc' = [pc EXCEPT ![t] = "erase"]
      /\ mem' = Shift(mem, 0)
  BY <1>2 DEF shift_video, Goto
<1>4. GoodIdeal(e) /\ Rolling(mem, t, x, y, n, e) /\ Upper(mem, t, e)
  BY <1>2 DEF Place
<1>5. Lags(mem, t)
  BY <1>1, <1>2 DEF View
<1>6. mem' \in Memory /\ (\A u \in Terminals : PageKept(mem, mem', u)) /\ Mirrors(mem', t)
  BY <1>1, <1>3, <1>5, ScreenShifted
<1>7. Place(mem, t, x, y, "erase", char[t], n, e)
  BY <1>4 DEF Place, Idle, Stored
<1>8. Place(mem', t, x, y, "erase", char[t], n, e)
  BY <1>6, <1>7, PlaceKept
<1>9. View(mem', t, "erase", x, y)
  BY <1>6 DEF View
<1>10. "erase" \in Idle \cup Stored \cup Turning \cup Scrolling
  BY DEF Scrolling
<1> QED
  BY <1>2, <1>3, <1>6, <1>8, <1>9, <1>10, MoveOn

\* The cursor of a program moves on, or scroll_up begins.
LEMMA AdvanceInv ==
  ASSUME ScreenInv, NEW t \in Terminals, putc_advance(t)
  PROVE  ScreenInv'
<1> DEFINE x == screen_x[t]
           y == screen_y[t]
           e == expected[t]
           a == current_active_terminal
<1>1. /\ Types /\ Placed(t) /\ mem \in Memory
      /\ t = a => View(mem, t, pc[t], x, y)
      /\ NUM_ROWS \in Nat /\ NUM_COLS \in Nat /\ NUM_COLS > 0
  BY ProgramOf
<1>2. /\ pc[t] = "advance" /\ curr_buff_pos' = curr_buff_pos /\ a' = a
      /\ expected' = expected
      /\ IF AtEnd(console, t)
         THEN /\ screen_x' = [screen_x EXCEPT ![t] = @ + 1]
              /\ left' = [left EXCEPT ![t] = NUM_COLS]
              /\ pc' = [pc EXCEPT ![t] = "shift"] /\ mem' = mem /\ screen_y' = screen_y
              /\ char' = char
         ELSE /\ Commit(Advance(console, t))
              /\ pc' = [pc EXCEPT ![t] = "user"] /\ left' = left
              /\ char' = [char EXCEPT ![t] = Newline]
  BY DEF putc_advance, Goto
<1>3. /\ Place(mem, t, x, y, "advance", char[t], left[t], e)
      /\ Rolls("advance", x, y) => t = a
  BY <1>1, <1>2 DEF Placed
<1>4. GoodIdeal(e) /\ Storing(mem, t, x, y, e)
  BY <1>3 DEF Place, Stored
<1>5. x \in 0 .. NUM_COLS - 1 /\ y \in 0 .. NUM_ROWS - 1
  BY <1>4 DEF Storing
<1>6. /\ console \in Consoles /\ console.mem = mem
      /\ console.x = screen_x /\ console.y = screen_y
  BY <1>1, ConsoleIs
<1>7. AtEnd(console, t) <=> Ends(x, y)
  BY <1>6 DEF AtEnd, Ends
<1>8. t = a => Mirrors(mem, t)
  BY <1>1, <1>2 DEF View
<1>9. CASE AtEnd(console, t)
  <2>1. /\ Ends(x, y) /\ Coming(mem, t, e) /\ e.x = 0 /\ e.y = NUM_ROWS - 1
        /\ x + 1 = NUM_COLS /\ y = NUM_ROWS - 1
    BY <1>4, <1>7, <1>9 DEF Storing, Ends
  <2>2. t = a
    BY <1>3, <2>1 DEF Rolls, Stored
  <2>3. /\ screen_x' = [screen_x EXCEPT ![t] = @ + 1]
        /\ left' = [left EXCEPT ![t] = NUM_COLS]
        /\ pc' = [pc EXCEPT ![t] = "shift"] /\ mem' = mem /\ screen_y' = screen_y
        /\ char' = char
    BY <1>2, <1>9
  <2>4. /\ screen_x'[t] = NUM_COLS /\ left'[t] = NUM_COLS /\ pc'[t] = "shift"
        /\ screen_x' \in [Terminals -> Int] /\ left' \in [Terminals -> 0 .. NUM_COLS]
        /\ pc' \in [Terminals -> Idle \cup Stored \cup Turning \cup Scrolling]
        /\ \A u \in Terminals : u # t => /\ screen_x'[u] = screen_x[u]
                                         /\ left'[u] = left[u] /\ pc'[u] = pc[u]
    <3>1. "shift" \in Idle \cup Stored \cup Turning \cup Scrolling /\ NUM_COLS \in 0 .. NUM_COLS
      BY <1>1 DEF Scrolling
    <3>2. screen_x \in [Terminals -> Int] /\ screen_x[t] + 1 = NUM_COLS /\ NUM_COLS \in Int
      BY <1>1, <2>1 DEF Types
    <3> QED
      BY <1>1, <2>3, <3>1, <3>2 DEF Types
  <2>5. Types'
    BY <1>1, <1>2, <2>3, <2>4 DEF Types
  <2>6. Elsewhere(t)
    BY <1>2, <2>3, <2>4 DEF Elsewhere, PageKept
  <2>7. Rolling(mem, t, NUM_COLS, y, NUM_COLS, e)
    BY <1>1, <2>1 DEF Rolling, Bare, Cols
  <2>8. Place(mem, t, NUM_COLS, y, "shift", char[t], NUM_COLS, e)
    BY <1>4, <2>1, <2>7 DEF Place, Idle, Stored
  <2>9. Placed(t)'
    BY <1>2, <2>2, <2>3, <2>4, <2>8 DEF Placed
  <2>10. Seen'
    BY <1>2, <1>8, <2>2, <2>3, <2>4 DEF Seen, View
  <2> QED
    BY <2>2, <2>5, <2>6, <2>9, <2>10, StepOf
<1>10. CASE ~ AtEnd(console, t)
  <2> DEFINE o == Advance(console, t)
  <2>1. Whole(mem, t, e) /\ e.x = NextX(x) /\ e.y = NextY(x, y)
    BY <1>4, <1>7, <1>10 DEF Storing
  <2>2. /\ o \in Consoles /\ o.mem = console.mem /\ Only(console, o, t)
        /\ o.x[t] = NextX(console.x[t]) /\ o.y[t] = NextY(console.x[t], console.y[t])
    BY <1>5, <1>6, <1>10, AdvanceIs
  <2> HIDE DEF o
  <2>3. /\ mem' = o.mem /\ screen_x' = o.x /\ screen_y' = o.y
        /\ pc' = [pc EXCEPT ![t] = "user"] /\ left' = left
        /\ char' = [char EXCEPT ![t] = Newline]
    BY <1>2, <1>10 DEF Commit, o
  <2>4. /\ mem' = mem /\ screen_x'[t] = e.x /\ screen_y'[t] = e.y
        /\ screen_x' \in [Terminals -> Int] /\ screen_y' \in [Terminals -> Int]
        /\ \A u \in Terminals : u # t => /\ screen_x'[u] = screen_x[u]
                                         /\ screen_y'[u] = screen_y[u]
    BY <1>6, <2>1, <2>2, <2>3 DEF Consoles, Only
  <2>5. /\ pc'[t] = "user" /\ pc' \in [Terminals -> Idle \cup Stored \cup Turning \cup Scrolling]
        /\ char'[t] = Newline /\ char' \in [Terminals -> Chars \cup {Newline}]
        /\ \A u \in Terminals : u # t => pc'[u] = pc[u] /\ char'[u] = char[u]
    BY <1>1, <2>3 DEF Types, Idle
  <2>6. Types'
    BY <1>1, <1>2, <2>3, <2>4, <2>5 DEF Types
  <2>7. Elsewhere(t)
    BY <1>2, <2>3, <2>4, <2>5 DEF Elsewhere, PageKept
  <2>8. Place(mem, t, e.x, e.y, "user", Newline, left[t], e)
    BY <1>4, <2>1 DEF Place, Settled, Idle, Stored
  <2>9. ~ Rolls("user", e.x, e.y)
    BY DEF Rolls, Stored, Scrolling
  <2>10. Placed(t)'
    BY <1>2, <2>3, <2>4, <2>5, <2>8, <2>9 DEF Placed
  <2>11. t = a => Seen'
    BY <1>2, <1>8, <2>4, <2>5 DEF Seen, View
  <2>12. ScreenKept(mem, mem')
    BY <2>4 DEF ScreenKept
  <2> QED
    BY <2>6, <2>7, <2>10, <2>11, <2>12, StepOf
<1> QED
  BY <1>9, <1>10

\* scroll_up erases a cell of the last row.
LEMMA EraseInv ==
  ASSUME ScreenInv, NEW t \in Terminals, erase(t)
  PROVE  ScreenInv'
<1> DEFINE x == screen_x[t]
           y == screen_y[t]
           e == expected[t]
           n == left[t]
           a == current_active_terminal
           o == put_backspace(console, t)
<1>1. /\ Types /\ Placed(t) /\ mem \in Memory /\ a \in Terminals
      /\ t = a => View(mem, t, pc[t], x, y)
      /\ NUM_ROWS \in Nat /\ NUM_COLS \in Nat /\ NUM_COLS > 0 /\ NUM_ROWS > 0
      /\ NUM_ROWS \in Rows /\ (NUM_ROWS - 1) + 1 = NUM_ROWS
  BY ProgramOf
<1>2. /\ pc[t] = "erase" /\ n > 0 /\ curr_buff_pos' = curr_buff_pos /\ a' = a
      /\ char' = char /\ expected' = expected /\ pc' = pc
      /\ left' = [left EXCEPT ![t] = @ - 1]
      /\ mem' = o.mem /\ screen_x' = o.x /\ screen_y' = o.y
  BY DEF erase, Commit
<1>3. t = a /\ Place(mem, t, x, y, "erase", char[t], n, e)
  BY <1>1, <1>2 DEF Placed, Rolls, Scrolling
<1>4. GoodIdeal(e) /\ Rolling(mem, t, x, y, n, e) /\ Upper(mem, t, e)
  BY <1>3 DEF Place
<1>5. Mirrors(mem, t)
  BY <1>1, <1>2, <1>3 DEF View
<1>6. /\ n \in 0 .. NUM_COLS /\ n \in Nat /\ x = n /\ y = NUM_ROWS - 1 /\ Bare(mem, t, n)
      /\ e.x = 0 /\ e.y = NUM_ROWS - 1
  BY <1>1, <1>4 DEF Rolling
<1>7. /\ console \in Consoles /\ console.mem = mem
      /\ console.x = screen_x /\ console.y = screen_y
  BY <1>1, ConsoleIs
<1>8. BackX(x) = n /\ BackY(x, y) = NUM_ROWS - 1
  BY <1>2, <1>6 DEF BackX, BackY
<1>9. /\ o \in Consoles /\ Only(console, o, t)
      /\ o.x[t] = n - 1 /\ o.y[t] = NUM_ROWS - 1
      /\ CellSet(mem, o.mem, t, NUM_ROWS, n, Blank) /\ Mirrors(o.mem, t)
  <2>1. /\ x = console.x[t] /\ y = console.y[t] /\ x \in 0 .. NUM_COLS
        /\ y \in 0 .. NUM_ROWS - 1 /\ x > 0
        /\ t = current_active_terminal /\ t \in Terminals
    BY <1>1, <1>2, <1>3, <1>6, <1>7
  <2> HIDE DEF x, y, o
  <2>3. o = put_backspace(console, t)
    BY DEF o
  <2>2. /\ o \in Consoles /\ Only(console, o, t)
        /\ o.x[t] = BackX(x) - 1 /\ o.y[t] = BackY(x, y)
        /\ CellSet(console.mem, o.mem, t, BackY(x, y) + 1, BackX(x), Blank)
        /\ Mirrors(console.mem, t) => Mirrors(o.mem, t)
    BY <1>7, <2>1, <2>3, BackspaceIs
  <2> QED
    BY <1>1, <1>5, <1>7, <1>8, <2>2
<1> HIDE DEF o
<1>10. /\ left'[t] = n - 1 /\ left' \in [Terminals -> 0 .. NUM_COLS]
       /\ n - 1 \in 0 .. NUM_COLS
       /\ \A u \in Terminals : u # t => left'[u] = left[u]
  <2>1. n - 1 \in 0 .. NUM_COLS
    BY <1>1, <1>2, <1>6
  <2> QED
    BY <1>1, <1>2, <2>1 DEF Types
<1>11. Types'
  BY <1>1, <1>2, <1>9, <1>10 DEF Types, Consoles
<1>12. Elsewhere(t)
  BY <1>2, <1>7, <1>9, <1>10 DEF Elsewhere, Only
<1>13. Upper(o.mem, t, e)
  <2> SUFFICES ASSUME NEW r \in Rows, NEW j \in Cols, r < NUM_ROWS
               PROVE  o.mem[Page(t) + Cell(r, j)] = e.rows[r][j]
    BY DEF Upper
  <2>1. r # NUM_ROWS
    BY <1>1
  <2> QED
    BY <1>4, <1>9, <2>1 DEF Upper, CellSet
<1>14. Bare(o.mem, t, n - 1)
  <2> SUFFICES ASSUME NEW j \in Cols, j > n - 1
               PROVE  o.mem[Page(t) + Cell(NUM_ROWS, j)] = Blank
    BY DEF Bare
  <2>1. j = n \/ j > n
    BY <1>1, <1>6 DEF Cols
  <2>2. mem[Page(t) + Cell(NUM_ROWS, j)] = Blank \/ j = n
    BY <1>6, <2>1 DEF Bare
  <2> QED
    BY <1>1, <1>9, <2>2 DEF CellSet
<1>15. Place(o.mem, t, n - 1, NUM_ROWS - 1, "erase", char[t], n - 1, e)
  <2>1. Rolling(o.mem, t, n - 1, NUM_ROWS - 1, n - 1, e)
    BY <1>6, <1>10, <1>14 DEF Rolling
  <2> QED
    BY <1>4, <1>13, <2>1 DEF Place, Idle, Stored
<1>16. Placed(t)'
  BY <1>2, <1>3, <1>9, <1>10, <1>15 DEF Placed
<1>17. Seen'
  BY <1>2, <1>3, <1>9 DEF Seen, View
<1> QED
  BY <1>3, <1>11, <1>12, <1>16, <1>17, StepOf

\* The end of scroll_up.
LEMMA ScrolledInv ==
  ASSUME ScreenInv, NEW t \in Terminals, scrolled(t)
  PROVE  ScreenInv'
<1> DEFINE x == screen_x[t]
           y == screen_y[t]
           e == expected[t]
           a == current_active_terminal
<1>1. /\ Types /\ Placed(t) /\ mem \in Memory /\ a \in Terminals
      /\ t = a => View(mem, t, pc[t], x, y)
      /\ NUM_ROWS \in Nat /\ NUM_COLS \in Nat /\ NUM_COLS > 0 /\ NUM_ROWS > 0
      /\ NUM_ROWS \in Rows
  BY ProgramOf
<1>2. /\ pc[t] = "erase" /\ left[t] = 0 /\ curr_buff_pos' = curr_buff_pos /\ a' = a
      /\ char' = [char EXCEPT ![t] = Newline] /\ expected' = expected
      /\ pc' = [pc EXCEPT ![t] = IF char[t] = Newline THEN "column" ELSE "user"]
      /\ left' = left /\ mem' = mem /\ screen_x' = screen_x
      /\ screen_y' = [screen_y EXCEPT ![t] = NUM_ROWS - 1]
  BY DEF scrolled, Goto
<1>3. t = a /\ Place(mem, t, x, y, "erase", char[t], 0, e)
  BY <1>1, <1>2 DEF Placed, Rolls, Scrolling
<1>4. GoodIdeal(e) /\ Rolling(mem, t, x, y, 0, e) /\ Upper(mem, t, e)
  BY <1>3 DEF Place
<1>5. Mirrors(mem, t)
  BY <1>1, <1>2, <1>3 DEF View
<1>6. x = 0 /\ Bare(mem, t, 0) /\ e.x = 0 /\ e.y = NUM_ROWS - 1
  BY <1>4 DEF Rolling
<1>7. /\ screen_y'[t] = NUM_ROWS - 1 /\ screen_y' \in [Terminals -> Int]
      /\ char'[t] = Newline /\ char' \in [Terminals -> Chars \cup {Newline}]
      /\ \A u \in Terminals : u # t => char'[u] = char[u] /\ screen_y'[u] = screen_y[u]
  <2>1. NUM_ROWS - 1 \in Int
    BY <1>1
  <2> QED
    BY <1>1, <1>2, <2>1 DEF Types
<1> DEFINE l == IF char[t] = Newline THEN "column" ELSE "user"
<1>8. /\ pc'[t] = l /\ l \in {"user", "column"}
      /\ pc' \in [Terminals -> Idle \cup Stored \cup Turning \cup Scrolling]
      /\ \A u \in Terminals : u # t => pc'[u] = pc[u]
  <2>1. l \in {"user", "column"} /\ pc' = [pc EXCEPT ![t] = l]
    BY <1>2
  <2>2. l \in Idle \cup Stored \cup Turning \cup Scrolling
    BY <2>1 DEF Idle, Turning
  <2> HIDE DEF l
  <2> QED
    BY <1>1, <2>1, <2>2 DEF Types
<1> HIDE DEF l
<1>9. Types'
  BY <1>1, <1>2, <1>7, <1>8 DEF Types
<1>10. Elsewhere(t)
  BY <1>2, <1>7, <1>8 DEF Elsewhere, PageKept
<1>11. Whole(mem, t, e)
  <2> SUFFICES ASSUME NEW r \in Rows, NEW k \in Cols
               PROVE  mem[Page(t) + Cell(r, k)] = e.rows[r][k]
    BY DEF Whole
  <2>1. CASE r < NUM_ROWS
    BY <1>4, <2>1 DEF Upper
  <2>2. CASE ~ (r < NUM_ROWS)
    <3>1. r = NUM_ROWS /\ k > 0
      BY <1>1, <2>2 DEF Rows, Cols
    <3>2. Behind(NUM_ROWS, k, e.x, e.y)
      BY <1>1, <1>6, <3>1 DEF Behind
    <3> QED
      BY <1>1, <1>4, <1>6, <3>1, <3>2 DEF Bare, GoodIdeal
  <2> QED
    BY <2>1, <2>2
<1>12. Place(mem, t, 0, NUM_ROWS - 1, l, Newline, 0, e)
  <2>1. Settled(mem, t, 0, NUM_ROWS - 1, e)
    BY <1>6, <1>11 DEF Settled
  <2>2. Returning(mem, t, 0, NUM_ROWS - 1, e)
    BY <1>1, <1>6, <1>11 DEF Returning
  <2> QED
    BY <1>4, <1>8, <2>1, <2>2 DEF Place, Idle, Stored
<1>13. Placed(t)'
  BY <1>2, <1>3, <1>6, <1>7, <1>8, <1>12 DEF Placed
<1>14. Seen'
  BY <1>2, <1>3, <1>5, <1>8 DEF Seen, View
<1> QED
  BY <1>3, <1>9, <1>10, <1>13, <1>14, StepOf

\* halt empties the line.
LEMMA ClearBufferInv ==
  ASSUME ScreenInv, NEW t \in Terminals, clear_buffer(t)
  PROVE  ScreenInv'
<1> DEFINE x == screen_x[t]
           y == screen_y[t]
           e == expected[t]
           a == current_active_terminal
<1>1. /\ Types /\ Placed(t) /\ a \in Terminals
      /\ t = a => View(mem, t, pc[t], x, y)
  BY ProgramOf
<1>2. /\ pc[t] \in Idle /\ a' = a /\ char' = char /\ expected' = expected
      /\ pc' = [pc EXCEPT ![t] = "user"] /\ left' = left /\ mem' = mem
      /\ screen_x' = screen_x /\ screen_y' = screen_y
      /\ curr_buff_pos' = [curr_buff_pos EXCEPT ![t] = 0]
  BY DEF clear_buffer, shown, Idle
<1>3. /\ pc'[t] = "user" /\ pc' \in [Terminals -> Idle \cup Stored \cup Turning \cup Scrolling]
      /\ \A u \in Terminals : u # t => pc'[u] = pc[u]
      /\ curr_buff_pos' \in [Terminals -> 0 .. BufferSize]
  BY <1>1, <1>2, Numbers DEF Types, Idle
<1>4. Types'
  BY <1>1, <1>2, <1>3 DEF Types
<1>5. Elsewhere(t)
  BY <1>2, <1>3 DEF Elsewhere, PageKept
<1>6. Place(mem, t, x, y, "user", char[t], left[t], e)
  BY <1>1, <1>2 DEF Placed, Place, Idle, Stored
<1>7. ~ Rolls("user", x, y)
  BY DEF Rolls, Stored, Scrolling
<1>8. Placed(t)'
  BY <1>2, <1>3, <1>6, <1>7 DEF Placed
<1>9. t = a => Seen'
  BY <1>1, <1>2, <1>3 DEF Seen, View, Idle
<1>10. ScreenKept(mem, mem')
  BY <1>2 DEF ScreenKept
<1> QED
  BY <1>4, <1>5, <1>8, <1>9, <1>10, StepOf

\* So does a read of a clicked row.
LEMMA ReadRowInv ==
  ASSUME ScreenInv, NEW t \in Terminals, read_row(t)
  PROVE  ScreenInv'
<1>1. /\ mem' = mem /\ screen_x' = screen_x /\ screen_y' = screen_y
      /\ current_active_terminal' = current_active_terminal
      /\ pc' = pc /\ char' = char /\ left' = left /\ expected' = expected
      /\ curr_buff_pos' = [curr_buff_pos EXCEPT ![current_active_terminal] = 0]
  BY DEF read_row, shown, program
<1>2. curr_buff_pos' \in [Terminals -> 0 .. BufferSize]
  BY <1>1, Numbers DEF ScreenInv, Types
<1>3. Types'
  BY <1>1, <1>2 DEF ScreenInv, Types
<1>4. Seen'
  BY <1>1 DEF ScreenInv, Seen
<1>5. \A u \in Terminals : Placed(u)'
  BY <1>1 DEF ScreenInv, Placed
<1> QED
  BY <1>3, <1>4, <1>5 DEF ScreenInv

\* The switch shows the page of another terminal.
LEMMA SwitchInv ==
  ASSUME ScreenInv, NEW t \in Terminals, StillSwitch(t)
  PROVE  ScreenInv'
<1>1. /\ Types /\ current_active_terminal' = t
      /\ screen_x' = screen_x /\ screen_y' = screen_y /\ curr_buff_pos' = curr_buff_pos
      /\ pc' = pc /\ char' = char /\ left' = left /\ expected' = expected
      /\ mem' = [k \in Addresses |-> IF k \in Cells THEN mem[Page(t) + k] ELSE mem[k]]
      /\ \A u \in Terminals : ~ Scrolls(u)
  BY DEF ScreenInv, StillSwitch, change_video_mem, program
<1>2. console.mem = mem /\ console.x = screen_x /\ console.y = screen_y /\ mem \in Memory
  BY <1>1, ConsoleIs DEF Types
<1>3. \A p \in Cells : p \in Addresses /\ Page(t) + p \in Addresses
  BY Where
<1>4. \A u \in Terminals, p \in Cells : Page(u) + p \in Addresses /\ Page(u) + p \notin Cells
  BY Where
<1>5. mem' \in Memory
  BY <1>1, <1>2, <1>3 DEF Memory
<1>6. \A u \in Terminals : PageKept(mem, mem', u)
  BY <1>1, <1>4 DEF PageKept
<1>7. Mirrors(mem', t)
  BY <1>1, <1>3, <1>4 DEF Mirrors
<1>8. \A u \in Terminals : ~ Rolls(pc[u], screen_x[u], screen_y[u])
  BY <1>1, <1>2 DEF Scrolls, Rolls, AtEnd, Ends, Stored
<1>9. ASSUME NEW u \in Terminals PROVE Placed(u)'
  <2>1. Place(mem, u, screen_x[u], screen_y[u], pc[u], char[u], left[u], expected[u])
    BY DEF ScreenInv, Placed
  <2>2. Place(mem', u, screen_x[u], screen_y[u], pc[u], char[u], left[u], expected[u])
    BY <1>6, <2>1, PlaceKept
  <2> QED
    BY <1>1, <1>8, <2>2 DEF Placed
<1>10. Types'
  BY <1>1, <1>5 DEF Types
<1>11. Seen'
  <2>1. pc[t] \notin Scrolling
    BY <1>8 DEF Rolls
  <2>2. View(mem', t, pc[t], screen_x[t], screen_y[t])
    BY <1>7, <2>1 DEF View, Mirrors, Scrolling
  <2> QED
    BY <1>1, <2>2 DEF Seen
<1> QED
  BY <1>9, <1>10, <1>11 DEF ScreenInv

-----------------------------------------------------------------------------
(* Theorems *)

\* At boot everything is blank.
LEMMA InitInv == ASSUME Init PROVE ScreenInv
<1>1. /\ NUM_ROWS \in Nat /\ NUM_ROWS > 0 /\ NUM_COLS \in Nat /\ NUM_COLS > 0
      /\ NumTerminals \in Nat /\ NumTerminals > 0 /\ BufferSize \in Nat
  BY Numbers
<1>2. /\ \A p \in Cells : p \in Addresses
      /\ \A t \in Terminals, p \in Cells : Page(t) + p \in Addresses
  BY Where
<1>3. GoodIdeal(BlankTerminal) /\ BlankTerminal \in Ideal
  BY BlankTerminalIs DEF GoodIdeal
<1>4. mem \in Memory /\ \A k \in Addresses : mem[k] = Blank
  BY DEF Init, Memory, Shades
<1>5. Types
  BY <1>1, <1>3, <1>4 DEF Init, Types, Idle, Terminals
<1>6. ASSUME NEW t \in Terminals PROVE Placed(t)
  <2>1. Whole(mem, t, BlankTerminal)
    <3> SUFFICES ASSUME NEW r \in Rows, NEW k \in Cols
                 PROVE  mem[Page(t) + Cell(r, k)] = BlankTerminal.rows[r][k]
      BY DEF Whole
    <3>1. BlankTerminal.rows[r] = BlankRow
      BY DEF BlankTerminal, Rows
    <3> QED
      BY <1>2, <1>4, <3>1, BlankRowIs, CellIs
  <2>2. Settled(mem, t, 0, 0, BlankTerminal)
    BY <2>1 DEF Settled, BlankTerminal
  <2>3. Place(mem, t, 0, 0, "user", Newline, 0, BlankTerminal)
    BY <1>3, <2>2 DEF Place, Idle, Stored
  <2>4. ~ Rolls("user", 0, 0)
    BY DEF Rolls, Stored, Scrolling
  <2> QED
    BY <2>3, <2>4 DEF Placed, Init
<1>7. Seen
  <2>1. current_active_terminal \in Terminals /\ pc[current_active_terminal] = "user"
    BY <1>1 DEF Init, Terminals
  <2>2. Mirrors(mem, current_active_terminal)
    BY <1>2, <1>4, <2>1 DEF Mirrors
  <2> QED
    BY <2>1, <2>2 DEF Seen, View
<1> QED
  BY <1>5, <1>6, <1>7 DEF ScreenInv

\* A step that changes nothing.
LEMMA StutterInv == ASSUME ScreenInv, UNCHANGED vars PROVE ScreenInv'
<1>1. /\ mem' = mem /\ screen_x' = screen_x /\ screen_y' = screen_y
      /\ current_active_terminal' = current_active_terminal /\ curr_buff_pos' = curr_buff_pos
      /\ pc' = pc /\ char' = char /\ left' = left /\ expected' = expected
  BY DEF vars, shown, program
<1>2. Types'
  BY <1>1 DEF ScreenInv, Types
<1>3. Seen'
  BY <1>1 DEF ScreenInv, Seen
<1>4. \A t \in Terminals : Placed(t)'
  BY <1>1 DEF ScreenInv, Placed
<1> QED
  BY <1>2, <1>3, <1>4 DEF ScreenInv

\* Every step keeps the invariant.
LEMMA NextInv == ASSUME ScreenInv, NextCalm PROVE ScreenInv'
<1>1. CASE Quiet /\ Handlers
  BY <1>1, HandlersInv
<1>2. CASE Quiet /\ ~ Corner /\ backspace
  BY <1>2, BackspaceInv
<1>3. ASSUME NEW t \in Terminals, StillSwitch(t) PROVE ScreenInv'
  BY <1>3, SwitchInv
<1>4. ASSUME NEW t \in Terminals, ShownCall(t) PROVE ScreenInv'
  <2>1. t = current_active_terminal \/ screen_y[t] < NUM_ROWS - 1
    BY <1>4 DEF ShownCall
  <2>2. CASE putc_newline(t)
    BY <2>1, <2>2, NewlineInv
  <2>3. ASSUME NEW c \in Chars, putc_page(t, c) PROVE ScreenInv'
    BY <2>1, <2>3, PageInv
  <2> QED
    BY <1>4, <2>2, <2>3 DEF ShownCall, Calls
<1>5. ASSUME NEW t \in Terminals, Inside(t) PROVE ScreenInv'
  BY <1>5, VideoInv, AdvanceInv, ShiftPageInv, ShiftVideoInv, EraseInv, ScrolledInv,
     ClearBufferInv, ReadRowInv, NewlineRowInv, NewlineColumnInv DEF Inside
<1> QED
  BY <1>1, <1>2, <1>3, <1>4, <1>5 DEF NextCalm

\* The invariant holds: the page of every terminal, and the screen, are where the
\* program of the terminal has got to in terminal_putc and scroll_up.
THEOREM ScreenInvariant == CalmSpec => []ScreenInv
<1>1. Init => ScreenInv
  BY InitInv
<1>2. ScreenInv /\ [NextCalm]_vars => ScreenInv'
  BY NextInv, StutterInv
<1> QED
  BY <1>1, <1>2, PTL DEF CalmSpec

\* The cursor stays on the screen: before scroll_up is over at most one column, and
\* within a newline one row, behind it.
THEOREM TypesHold == CalmSpec => []TypeOK
<1>1. ScreenInv => TypeOK
  <2> SUFFICES ASSUME ScreenInv PROVE TypeOK
    OBVIOUS
  <2>1. Types
    BY DEF ScreenInv
  <2>2. ASSUME NEW t \in Terminals
        PROVE  screen_x[t] \in 0 .. NUM_COLS /\ screen_y[t] \in 0 .. NUM_ROWS
    <3> DEFINE x == screen_x[t]
               y == screen_y[t]
               e == expected[t]
    <3>1. /\ Placed(t) /\ NUM_ROWS \in Nat /\ NUM_ROWS > 0 /\ NUM_COLS \in Nat
          /\ e.x \in 0 .. NUM_COLS - 1 /\ e.y \in 0 .. NUM_ROWS - 1
      BY ProgramOf
    <3>2. Place(mem, t, x, y, pc[t], char[t], left[t], e)
      BY <3>1 DEF Placed
    <3>3. pc[t] \in Idle \cup Stored \cup Turning \cup Scrolling
      BY <2>1 DEF Types
    <3>4. CASE pc[t] \in Idle
      BY <3>1, <3>2, <3>4 DEF Place, Settled
    <3>5. CASE pc[t] \in Stored
      BY <3>1, <3>2, <3>5 DEF Place, Storing
    <3>6. CASE pc[t] \in Scrolling
      <4>1. Rolling(mem, t, x, y, left[t], e)
        BY <3>2, <3>6 DEF Place, Scrolling
      <4> QED
        BY <3>1, <4>1 DEF Rolling
    <3>7. CASE pc[t] \in Turning
      <4>1. Lowered(mem, t, x, y, e) \/ Returning(mem, t, x, y, e)
        BY <3>2, <3>7 DEF Place, Turning
      <4> QED
        BY <3>1, <4>1 DEF Lowered, Returning
    <3> QED
      BY <3>3, <3>4, <3>5, <3>6, <3>7
  <2>3. /\ screen_x \in [Terminals -> 0 .. NUM_COLS]
        /\ screen_y \in [Terminals -> 0 .. NUM_ROWS]
    BY <2>1, <2>2 DEF Types
  <2> QED
    BY <2>1, <2>3 DEF TypeOK, Types, Memory, Shades, Idle, Stored, Turning, Scrolling
<1> QED
  BY <1>1, ScreenInvariant, PTL

\* The screen shows the page of the terminal that is on it.
THEOREM MirrorHolds == CalmSpec => []Mirror
<1>1. ScreenInv => Mirror
  <2> SUFFICES ASSUME ScreenInv,
                      pc[current_active_terminal] \notin {"video", "shift_video"}
               PROVE  CellsFrom(0) = CellsFrom(Page(current_active_terminal))
    BY DEF Mirror
  <2>1. Mirrors(mem, current_active_terminal)
    BY DEF ScreenInv, Seen, View
  <2>2. \A p \in Cells : 0 + p = p
    BY LowerIs
  <2> QED
    BY <2>1, <2>2 DEF CellsFrom, Mirrors
<1> QED
  BY <1>1, ScreenInvariant, PTL

\* A terminal whose program is not in terminal_putc shows what an ideal one would.
THEOREM FaithfulHolds == CalmSpec => []Faithful
<1>1. ScreenInv => Faithful
  <2> SUFFICES ASSUME ScreenInv, NEW t \in Terminals, pc[t] \in {"user", "halt"}
               PROVE  /\ \A r \in 1 .. NUM_ROWS, k \in 1 .. NUM_COLS :
                            mem[Page(t) + NUM_COLS * (r - 1) + k - 1] = expected[t].rows[r][k]
                      /\ <<screen_x[t], screen_y[t]>> = <<expected[t].x, expected[t].y>>
    BY DEF Faithful
  <2>1. Settled(mem, t, screen_x[t], screen_y[t], expected[t])
    BY DEF ScreenInv, Placed, Place, Idle
  <2>2. ASSUME NEW r \in 1 .. NUM_ROWS, NEW k \in 1 .. NUM_COLS
        PROVE  mem[Page(t) + NUM_COLS * (r - 1) + k - 1] = expected[t].rows[r][k]
    <3> DEFINE B == Page(t)
               d == NUM_COLS * (r - 1)
    <3>1. r \in Rows /\ k \in Cols /\ k \in Int /\ Cell(r, k) = d + k - 1
      BY DEF Rows, Cols, Cell
    <3>2. B \in Int
      BY Numbers DEF Page, Terminals
    <3>3. d \in Int
      BY Numbers
    <3>4. mem[B + Cell(r, k)] = expected[t].rows[r][k]
      BY <2>1, <3>1 DEF Settled, Whole
    <3> HIDE DEF B, d
    <3>5. B + Cell(r, k) = B + d + k - 1
      BY <3>1, <3>2, <3>3
    <3> QED
      BY <3>4, <3>5 DEF B, d
  <2> QED
    BY <2>1, <2>2 DEF Settled
<1> QED
  BY <1>1, ScreenInvariant, PTL
=============================================================================
