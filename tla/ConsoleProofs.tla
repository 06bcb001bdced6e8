--------------------------- MODULE ConsoleProofs ---------------------------
(***************************************************************************)
(* The line of the console stays within its buffer, the drivers are called *)
(* for the words that the screen shows, and the numbers that debug_printf  *)
(* prints read as the numbers they are: for every size of the line, any    *)
(* keys, every width of a word, and every room for digits that suffices.   *)
(***************************************************************************)
EXTENDS Console, FiniteSetTheorems, SequenceTheorems, WellFoundedInduction,
        TLAPS
(* Induction over the natural numbers, for a set.                           *)
LEMMA Induction ==
    ASSUME NEW S, 0 \in S, \A n \in Nat : n \in S => n + 1 \in S
    PROVE  \A n \in Nat : n \in S
  <1> DEFINE Missing == Nat \ S
  <1>1. SUFFICES ASSUME Missing # {} PROVE FALSE
    OBVIOUS
  <1>2. PICK x \in Missing : \A y \in Missing : ~(<<y, x>> \in {ss \in Nat \X Nat : ss[1] < ss[2]})
    <2>1. IsWellFoundedOn({ss \in Nat \X Nat : ss[1] < ss[2]}, Nat)
      BY NatLessThanWellFounded DEF OpToRel
    <2> QED
     BY <2>1, <1>1, WFMin
  <1>3. \A y \in Missing : ~(y < x)
    BY <1>2
  <1>4. x # 0 /\ x - 1 \in Nat /\ x - 1 < x
    OBVIOUS
  <1>5. x - 1 \in S
    BY <1>3, <1>4
  <1> QED
    BY <1>4, <1>5

(* How often the largest number is halved until it is zero.                 *)
HalvedTo(h, n) ==
    /\ h \in [0 .. n -> Nat]
    /\ h[0] = Word - 1
    /\ \A k \in 1 .. n : h[k] = h[k - 1] \div 2
Halves(h) == HalvedTo(h, BufLen - 1) /\ h[BufLen - 1] = 0

LEMMA HalvesExist == \E h : Halves(h)
  <1> DEFINE Has == {n \in Nat : \E h : HalvedTo(h, n)}
  <1> USE FormatAssumption
  <1>1. 0 \in Has
    <2> DEFINE h == [k \in 0 .. 0 |-> Word - 1]
    <2>1. HalvedTo(h, 0)
      BY DEF HalvedTo
    <2> QED
      BY <2>1
  <1>2. ASSUME NEW n \in Nat, n \in Has
        PROVE  n + 1 \in Has
    <2>1. PICK h : HalvedTo(h, n)
      BY <1>2
    <2> DEFINE g == [k \in 0 .. n + 1 |-> IF k <= n THEN h[k] ELSE h[n] \div 2]
    <2>2. h[n] \div 2 \in Nat
      BY <2>1 DEF HalvedTo
    <2>3. g \in [0 .. n + 1 -> Nat]
      BY <2>1, <2>2 DEF HalvedTo
    <2>4. g[0] = Word - 1
      BY <2>1 DEF HalvedTo
    <2>5. \A k \in 1 .. n + 1 : g[k] = g[k - 1] \div 2
      <3> TAKE k \in 1 .. n + 1
      <3>1. CASE k <= n
        <4>1. g[k] = h[k] /\ g[k - 1] = h[k - 1]
          BY <3>1
        <4>2. h[k] = h[k - 1] \div 2
          BY <2>1, <3>1 DEF HalvedTo
        <4> QED
          BY <4>1, <4>2
      <3>2. CASE k = n + 1
        <4>1. g[k] = h[n] \div 2
          BY <3>2
        <4>2. g[k - 1] = h[n]
          BY <3>2
        <4> QED
          BY <4>1, <4>2
      <3> QED
        BY <3>1, <3>2
    <2> HIDE DEF g
    <2>6. HalvedTo(g, n + 1)
      BY <2>3, <2>4, <2>5 DEF HalvedTo
    <2> QED
      BY <2>6
  <1>3. \A n \in Nat : n \in Has
    <2> HIDE DEF Has
    <2> QED
      BY <1>1, <1>2, Induction
  <1>4. PICK h : HalvedTo(h, BufLen - 1)
    BY <1>3
  <1> DEFINE f == CHOOSE f : f = [k \in 0 .. BufLen - 1 |->
                                    IF k = 0 THEN Word - 1 ELSE f[k - 1] \div 2]
  <1>5. h = [k \in 0 .. BufLen - 1 |-> IF k = 0 THEN Word - 1 ELSE h[k - 1] \div 2]
    <2>1. \A k \in 0 .. BufLen - 1 : h[k] = IF k = 0 THEN Word - 1 ELSE h[k - 1] \div 2
      <3>1. h[0] = Word - 1
        BY <1>4 DEF HalvedTo
      <3>2. \A k \in 1 .. BufLen - 1 : h[k] = h[k - 1] \div 2
        BY <1>4 DEF HalvedTo
      <3> QED
        BY <3>1, <3>2
    <2>2. h \in [0 .. BufLen - 1 -> Nat]
      BY <1>4 DEF HalvedTo
    <2> QED
      BY <2>1, <2>2
  <1>6. f = [k \in 0 .. BufLen - 1 |-> IF k = 0 THEN Word - 1 ELSE f[k - 1] \div 2]
    BY <1>5
  <1>7. f[BufLen - 1] = 0
    BY RoomAssumption
  <1> HIDE DEF f
  <1>8. HalvedTo(f, BufLen - 1)
    <2>1. f[0] = Word - 1
      BY <1>6
    <2>2. \A k \in 1 .. BufLen - 1 : f[k] = f[k - 1] \div 2
      BY <1>6
    <2> DEFINE Same == {n \in Nat : n <= BufLen - 1 => f[n] \in Nat}
    <2>3. 0 \in Same
      BY <2>1
    <2>4. ASSUME NEW n \in Nat, n \in Same
          PROVE  n + 1 \in Same
      <3>1. ASSUME n + 1 <= BufLen - 1
            PROVE  f[n + 1] \in Nat
        <4>1. f[n + 1] = f[(n + 1) - 1] \div 2
          BY <2>2, <3>1
        <4>2. f[n] \in Nat /\ (n + 1) - 1 = n
          BY <2>4, <3>1
        <4> QED
          BY <4>1, <4>2
      <3> QED
        BY <3>1
    <2>5. \A n \in Nat : n \in Same
      <3> HIDE DEF Same
      <3> QED
        BY <2>3, <2>4, Induction
    <2>6. f \in [0 .. BufLen - 1 -> Nat]
      <3>1. \A k \in 0 .. BufLen - 1 : f[k] \in Nat
        BY <2>5
      <3>2. f = [k \in 0 .. BufLen - 1 |-> f[k]]
        BY <1>6
      <3> QED
        BY <3>1, <3>2
    <2> QED
      BY <2>1, <2>2, <2>6 DEF HalvedTo
  <1> QED
    BY <1>7, <1>8 DEF Halves
----------------------------------------------------------------------------
(* The digits of the conversions are the first of the table.                *)
Letters == {Characters[d] : d \in 0 .. 15}

LEMMA DigitOf ==
    ASSUME NEW d \in 0 .. 15
    PROVE  Digit(Characters[d]) = d /\ Characters[d] # "-"
  <1>1. \A j, k \in 1 .. 16 : Map[j] = Map[k] => j = k
    BY DEF Map
  <1>2. Characters[d] = Map[d + 1] /\ d + 1 \in 1 .. 16
    BY DEF Characters
  <1> DEFINE c == CHOOSE k \in 1 .. 16 : Map[k] = Characters[d]
  <1>3. c \in 1 .. 16 /\ Map[c] = Characters[d]
    BY <1>2
  <1>4. c = d + 1
    BY <1>1, <1>2, <1>3
  <1>5. Digit(Characters[d]) = c - 1
    BY DEF Digit
  <1>6. Characters[d] # "-"
    BY DEF Characters, Map
  <1> HIDE DEF c
  <1>7. Digit(Characters[d]) = d
    BY <1>4, <1>5
  <1> QED
    BY <1>6, <1>7

(* NumberIn, whose fold runs over the sets of positions: it[s] is the       *)
(* number that the characters at s make.                                    *)
Folded(it, text, radix, n) ==
    it = [s \in SUBSET (1 .. n) |->
             IF s = {} THEN 0 ELSE it[s \ {Max(s)}] * radix + Digit(text[Max(s)])]

LEMMA MaxIs ==
    ASSUME NEW n \in Nat, NEW s \in SUBSET (1 .. n + 1), n + 1 \in s
    PROVE  Max(s) = n + 1 /\ s \ {Max(s)} \in SUBSET (1 .. n)
  <1>1. \A y \in s : n + 1 >= y
    OBVIOUS
  <1>2. Max(s) \in s /\ \A y \in s : Max(s) >= y
    BY <1>1 DEF Max
  <1>3. PICK m : m = Max(s)
    OBVIOUS
  <1>4. m \in s /\ m \in 1 .. n + 1 /\ m >= n + 1
    BY <1>2, <1>3
  <1>5. m = n + 1
    BY <1>4
  <1>6. s \ {n + 1} \in SUBSET (1 .. n)
    OBVIOUS
  <1> QED
    BY <1>3, <1>5, <1>6

(* There is such a fold.                                                    *)
LEMMA FoldedExists ==
    ASSUME NEW text, NEW radix
    PROVE  \A n \in Nat : \E it : Folded(it, text, radix, n)
  <1> DEFINE Has == {n \in Nat : \E it : Folded(it, text, radix, n)}
             after(it, s) == IF s = {} THEN 0
                             ELSE it[s \ {Max(s)}] * radix + Digit(text[Max(s)])
  <1>1. 0 \in Has
    <2> DEFINE it == [s \in SUBSET (1 .. 0) |-> 0]
    <2>1. \A s \in SUBSET (1 .. 0) : s = {}
      OBVIOUS
    <2>2. Folded(it, text, radix, 0)
      BY <2>1 DEF Folded
    <2> QED
      BY <2>2
  <1>2. ASSUME NEW n \in Nat, n \in Has
        PROVE  n + 1 \in Has
    <2>1. PICK it : Folded(it, text, radix, n)
      BY <1>2
    <2> DEFINE g == [s \in SUBSET (1 .. n + 1) |->
                        IF n + 1 \in s THEN after(it, s) ELSE it[s]]
    <2>2. \A s \in SUBSET (1 .. n + 1) : g[s] = after(g, s)
      <3> TAKE s \in SUBSET (1 .. n + 1)
      <3>1. CASE n + 1 \in s
        <4>1. s \ {Max(s)} \in SUBSET (1 .. n)
          BY <3>1, MaxIs
        <4>2. n + 1 \notin s \ {Max(s)} /\ s \ {Max(s)} \in SUBSET (1 .. n + 1)
          BY <4>1
        <4>3. g[s \ {Max(s)}] = it[s \ {Max(s)}]
          BY <4>2
        <4>4. g[s] = after(it, s)
          BY <3>1
        <4> HIDE DEF g
        <4> QED
          BY <4>3, <4>4
      <3>2. CASE n + 1 \notin s
        <4>1. s \in SUBSET (1 .. n)
          BY <3>2
        <4>2. g[s] = it[s]
          BY <3>2
        <4>3. it[s] = after(it, s)
          BY <2>1, <4>1 DEF Folded
        <4>4. g[s \ {Max(s)}] = it[s \ {Max(s)}]
          <5>1. s \ {Max(s)} \in SUBSET (1 .. n + 1) /\ n + 1 \notin s \ {Max(s)}
            BY <3>2
          <5> QED
            BY <5>1
        <4> HIDE DEF g
        <4> QED
          BY <4>2, <4>3, <4>4
      <3> QED
        BY <3>1, <3>2
    <2>3. g = [s \in SUBSET (1 .. n + 1) |-> g[s]]
      OBVIOUS
    <2> HIDE DEF g
    <2>4. Folded(g, text, radix, n + 1)
      BY <2>2, <2>3 DEF Folded
    <2> QED
      BY <2>4
  <1> HIDE DEF Has
  <1>3. \A n \in Nat : n \in Has
    BY <1>1, <1>2, Induction
  <1> QED
    BY <1>3 DEF Has

(* p[k] is the number that the first k characters make.                     *)
Sums(p, text, radix) ==
    /\ p \in [0 .. Len(text) -> Nat]
    /\ p[0] = 0
    /\ \A k \in 1 .. Len(text) : p[k] = p[k - 1] * radix + Digit(text[k])

(* The fold at the beginnings of the text.                                  *)
LEMMA FoldedBeginning ==
    ASSUME NEW it, NEW text, NEW radix, NEW n \in Nat, Folded(it, text, radix, n)
    PROVE  /\ it[1 .. 0] = 0
           /\ \A k \in 1 .. n : it[1 .. k] = it[1 .. (k - 1)] * radix + Digit(text[k])
  <1>1. it[1 .. 0] = 0
    <2>1. 1 .. 0 = {} /\ 1 .. 0 \in SUBSET (1 .. n)
      OBVIOUS
    <2> QED
      BY <2>1 DEF Folded
  <1>2. ASSUME NEW k \in 1 .. n
        PROVE  it[1 .. k] = it[1 .. (k - 1)] * radix + Digit(text[k])
    <2>1. 1 .. k \in SUBSET (1 .. n) /\ 1 .. k # {} /\ k - 1 \in Nat
          /\ 1 .. k \in SUBSET (1 .. (k - 1) + 1) /\ (k - 1) + 1 \in 1 .. k
      OBVIOUS
    <2>2. Max(1 .. k) = (k - 1) + 1
      BY <2>1, MaxIs
    <2>3. Max(1 .. k) = k /\ (1 .. k) \ {k} = 1 .. (k - 1)
      BY <2>2
    <2>4. it[1 .. k] = it[(1 .. k) \ {Max(1 .. k)}] * radix + Digit(text[Max(1 .. k)])
      BY <2>1 DEF Folded
    <2> QED
      BY <2>3, <2>4
  <1> QED
    BY <1>1, <1>2

LEMMA NumberIs ==
    ASSUME NEW T, NEW text \in Seq(T), NEW radix, NEW p, Sums(p, text, radix)
    PROVE  NumberIn(text, radix) = p[Len(text)]
  <1> DEFINE n == Len(text)
             f == CHOOSE it : it = [s \in SUBSET DOMAIN text |->
                     IF s = {} THEN 0 ELSE it[s \ {Max(s)}] * radix + Digit(text[Max(s)])]
  <1>1. NumberIn(text, radix) = f[DOMAIN text]
    BY DEF NumberIn, FoldLeft, MapThenFoldSet
  <1>2. n \in Nat /\ DOMAIN text = 1 .. n
    OBVIOUS
  <1>3. f = CHOOSE it : Folded(it, text, radix, n)
    BY <1>2 DEF Folded
  <1> HIDE DEF f, n
  <1>4. Folded(f, text, radix, n)
    BY <1>2, <1>3, FoldedExists
  <1>5. /\ f[1 .. 0] = 0
        /\ \A k \in 1 .. n : f[1 .. k] = f[1 .. (k - 1)] * radix + Digit(text[k])
    BY <1>2, <1>4, FoldedBeginning
  <1> DEFINE Same == {k \in Nat : k <= n => f[1 .. k] = p[k]}
  <1>6. 0 \in Same
    BY <1>5 DEF Sums
  <1>7. ASSUME NEW k \in Nat, k \in Same
        PROVE  k + 1 \in Same
    <2>1. ASSUME k + 1 <= n
          PROVE  f[1 .. (k + 1)] = p[k + 1]
      <3>1. k + 1 \in 1 .. n /\ (k + 1) - 1 = k
        BY <1>2, <2>1
      <3>2. f[1 .. (k + 1)] = f[1 .. k] * radix + Digit(text[k + 1])
        BY <1>5, <3>1
      <3>3. p[k + 1] = p[k] * radix + Digit(text[k + 1])
        BY <3>1 DEF Sums, n
      <3>4. f[1 .. k] = p[k]
        BY <1>2, <1>7, <2>1
      <3> QED
        BY <3>2, <3>3, <3>4
    <2> QED
      BY <2>1
  <1> HIDE DEF Same
  <1>8. \A k \in Nat : k \in Same
    BY <1>6, <1>7, Induction
  <1>9. f[1 .. n] = p[n]
    BY <1>2, <1>8 DEF Same
  <1> QED
    BY <1>1, <1>2, <1>9 DEF n

LEMMA SumsExist ==
    ASSUME NEW text \in Seq(Letters), NEW radix \in Nat
    PROVE  \E p : Sums(p, text, radix)
  <1> DEFINE n == Len(text)
  <1>1. n \in Nat
    OBVIOUS
  <1>2. \A k \in 1 .. n : Digit(text[k]) \in Nat
    <2> TAKE k \in 1 .. n
    <2>1. text[k] \in Letters
      OBVIOUS
    <2>2. PICK d \in 0 .. 15 : text[k] = Characters[d]
      BY <2>1 DEF Letters
    <2>3. Digit(Characters[d]) = d
      BY DigitOf
    <2> QED
      BY <2>2, <2>3
  <1>3. PICK it : Folded(it, text, radix, n)
    BY <1>1, FoldedExists
  <1>4. /\ it[1 .. 0] = 0
        /\ \A k \in 1 .. n : it[1 .. k] = it[1 .. (k - 1)] * radix + Digit(text[k])
    BY <1>1, <1>3, FoldedBeginning
  <1> HIDE DEF n
  <1> DEFINE p == [k \in 0 .. n |-> it[1 .. k]]
             Counts == {k \in Nat : k <= n => it[1 .. k] \in Nat}
  <1>5. 0 \in Counts
    BY <1>4
  <1>6. ASSUME NEW k \in Nat, k \in Counts
        PROVE  k + 1 \in Counts
    <2>1. ASSUME k + 1 <= n
          PROVE  it[1 .. (k + 1)] \in Nat
      <3>1. k + 1 \in 1 .. n /\ (k + 1) - 1 = k
        BY <1>1, <2>1
      <3>2. it[1 .. (k + 1)] = it[1 .. k] * radix + Digit(text[k + 1])
        BY <1>4, <3>1
      <3>3. it[1 .. k] \in Nat
        BY <1>1, <1>6, <2>1
      <3>4. Digit(text[k + 1]) \in Nat
        BY <1>2, <3>1
      <3> QED
        BY <3>2, <3>3, <3>4
    <2> QED
      BY <2>1
  <1> HIDE DEF Counts
  <1>7. \A k \in Nat : k \in Counts
    BY <1>5, <1>6, Induction
  <1>8. \A k \in 0 .. n : it[1 .. k] \in Nat
    BY <1>7, <1>1 DEF Counts
  <1>9. p \in [0 .. n -> Nat]
    BY <1>8
  <1>10. p[0] = 0
    BY <1>1, <1>4
  <1>11. \A k \in 1 .. n : p[k] = p[k - 1] * radix + Digit(text[k])
    <2> TAKE k \in 1 .. n
    <2>1. p[k] = it[1 .. k] /\ p[k - 1] = it[1 .. (k - 1)]
      BY <1>1
    <2> QED
      BY <1>4, <2>1
  <1> HIDE DEF p
  <1> QED
    BY <1>9, <1>10, <1>11 DEF Sums, n

LEMMA LetterDigit ==
    ASSUME NEW c \in Letters
    PROVE  Digit(c) \in Nat /\ c # "-"
  <1>1. PICK d \in 0 .. 15 : c = Characters[d]
    BY DEF Letters
  <1>2. Digit(Characters[d]) = d /\ Characters[d] # "-"
    BY DigitOf
  <1> QED
    BY <1>1, <1>2

LEMMA NumberNone ==
    ASSUME NEW c \in Letters, NEW radix \in Nat
    PROVE  NumberIn(<<c>>, radix) = Digit(c)
  <1> DEFINE p == [k \in 0 .. 1 |-> IF k = 0 THEN 0 ELSE Digit(c)]
  <1>1. Digit(c) \in Nat
    BY LetterDigit
  <1>2. <<c>> \in Seq(Letters) /\ Len(<<c>>) = 1 /\ <<c>>[1] = c
    OBVIOUS
  <1>3. p \in [0 .. 1 -> Nat] /\ p[0] = 0 /\ p[1] = Digit(c)
    BY <1>1
  <1> HIDE DEF p
  <1>4. 0 * radix + Digit(c) = Digit(c)
    BY <1>1
  <1>5. \A k \in 1 .. 1 : p[k] = p[k - 1] * radix + Digit(<<c>>[k])
    BY <1>2, <1>3, <1>4
  <1>6. Sums(p, <<c>>, radix)
    BY <1>2, <1>3, <1>5 DEF Sums
  <1>7. NumberIn(<<c>>, radix) = p[Len(<<c>>)]
    BY <1>2, <1>6, NumberIs
  <1> QED
    BY <1>2, <1>3, <1>7

LEMMA NumberAppend ==
    ASSUME NEW text \in Seq(Letters), NEW c \in Letters, NEW radix \in Nat
    PROVE  /\ NumberIn(text, radix) \in Nat
           /\ NumberIn(Append(text, c), radix) = NumberIn(text, radix) * radix + Digit(c)
  <1> DEFINE n == Len(text)
             all == Append(text, c)
  <1>1. n \in Nat /\ all \in Seq(Letters) /\ Len(all) = n + 1
        /\ (\A k \in 1 .. n : all[k] = text[k]) /\ all[n + 1] = c
    OBVIOUS
  <1>2. Digit(c) \in Nat
    BY LetterDigit
  <1>3. PICK p : Sums(p, text, radix)
    BY SumsExist
  <1>4. NumberIn(text, radix) = p[n]
    BY <1>3, NumberIs
  <1>5. p \in [0 .. n -> Nat] /\ p[0] = 0
        /\ \A k \in 1 .. n : p[k] = p[k - 1] * radix + Digit(text[k])
    BY <1>3 DEF Sums
  <1> HIDE DEF n, all
  <1> DEFINE last == p[n] * radix + Digit(c)
             q == [k \in 0 .. n + 1 |-> IF k <= n THEN p[k] ELSE last]
  <1>6. p[n] \in Nat
    BY <1>1, <1>5
  <1>7. last \in Nat
    BY <1>2, <1>6
  <1> HIDE DEF last
  <1>8. q \in [0 .. n + 1 -> Nat] /\ q[0] = 0 /\ q[n + 1] = last
        /\ \A k \in 0 .. n : q[k] = p[k]
    BY <1>1, <1>5, <1>7
  <1> HIDE DEF q
  <1>9. \A k \in 1 .. n + 1 : q[k] = q[k - 1] * radix + Digit(all[k])
    <2> TAKE k \in 1 .. n + 1
    <2>1. CASE k \in 1 .. n
      <3>1. q[k] = p[k] /\ q[k - 1] = p[k - 1] /\ all[k] = text[k]
        BY <1>1, <1>8, <2>1
      <3> QED
        BY <1>5, <2>1, <3>1
    <2>2. CASE k = n + 1
      <3>1. k - 1 = n
        BY <1>1, <2>2
      <3>2. q[n + 1] = q[n] * radix + Digit(all[n + 1])
        <4>1. q[n] = p[n]
          BY <1>1, <1>8
        <4> QED
          BY <1>1, <1>8, <4>1 DEF last
      <3> QED
        BY <2>2, <3>1, <3>2
    <2> QED
      BY <1>1, <2>1, <2>2
  <1>10. Sums(q, all, radix)
    BY <1>1, <1>8, <1>9 DEF Sums
  <1>11. NumberIn(all, radix) = q[n + 1]
    BY <1>1, <1>10, NumberIs
  <1> QED
    BY <1>4, <1>6, <1>8, <1>11 DEF last, all

(* Zeros in front change nothing.                                           *)
LEMMA NumberPadded ==
    ASSUME NEW text \in Seq(Letters), NEW z \in Nat, NEW radix \in Nat
    PROVE  /\ Len(Padding(z, "0") \o text) = z + Len(text)
           /\ NumberIn(Padding(z, "0") \o text, radix) = NumberIn(text, radix)
  <1> DEFINE n == Len(text)
             zeros == Padding(z, "0")
             all == zeros \o text
  <1>1. "0" \in Letters /\ Digit("0") = 0
    <2>1. Characters[0] = "0"
      BY DEF Characters, Map
    <2>2. Digit(Characters[0]) = 0
      BY DigitOf
    <2> QED
      BY <2>1, <2>2 DEF Letters
  <1>2. zeros \in Seq(Letters) /\ Len(zeros) = z /\ \A k \in 1 .. z : zeros[k] = "0"
    BY <1>1 DEF Padding
  <1> HIDE DEF zeros
  <1>3. n \in Nat /\ all \in Seq(Letters) /\ Len(all) = z + n
        /\ (\A k \in 1 .. z : all[k] = "0")
        /\ \A k \in 1 .. n : all[z + k] = text[k]
    BY <1>2
  <1>4. PICK p : Sums(p, text, radix)
    BY SumsExist
  <1>5. NumberIn(text, radix) = p[n]
    BY <1>4, NumberIs
  <1>6. p \in [0 .. n -> Nat] /\ p[0] = 0
        /\ \A k \in 1 .. n : p[k] = p[k - 1] * radix + Digit(text[k])
    BY <1>4 DEF Sums
  <1> HIDE DEF n, all
  <1> DEFINE q == [k \in 0 .. z + n |-> IF k <= z THEN 0 ELSE p[k - z]]
  <1>7. q \in [0 .. z + n -> Nat] /\ q[0] = 0
        /\ (\A k \in 0 .. z : q[k] = 0) /\ \A k \in 0 .. n : q[z + k] = p[k]
    BY <1>3, <1>6
  <1> HIDE DEF q
  <1>8. \A k \in 1 .. z + n : q[k] = q[k - 1] * radix + Digit(all[k])
    <2> TAKE k \in 1 .. z + n
    <2>1. CASE k <= z
      <3>1. q[k] = 0 /\ q[k - 1] = 0 /\ all[k] = "0"
        BY <1>3, <1>7, <2>1
      <3> QED
        BY <1>1, <3>1
    <2>2. CASE k > z
      <3>1. PICK j \in 1 .. n : k = z + j
        <4>1. k - z \in 1 .. n /\ k = z + (k - z)
          BY <1>3, <2>2
        <4> QED
          BY <4>1
      <3>2. q[z + j] = p[j] /\ q[z + (j - 1)] = p[j - 1] /\ all[z + j] = text[j]
        BY <1>3, <1>7
      <3>3. k - 1 = z + (j - 1)
        BY <3>1, <1>3
      <3>4. p[j] = p[j - 1] * radix + Digit(text[j])
        BY <1>6
      <3> QED
        BY <3>1, <3>2, <3>3, <3>4
    <2> QED
      BY <1>3, <2>1, <2>2
  <1>9. Sums(q, all, radix)
    BY <1>3, <1>7, <1>8 DEF Sums
  <1>10. NumberIn(all, radix) = q[z + n]
    BY <1>3, <1>9, NumberIs
  <1>11. q[z + n] = p[n]
    BY <1>3, <1>7
  <1> QED
    BY <1>3, <1>5, <1>10, <1>11 DEF n, all, zeros
----------------------------------------------------------------------------
(* Digits, as far as a buffer with that much room goes.                     *)
Converts(f, radix, room, map) ==
    f = [r \in 1 .. room |->
            [v \in Nat |->
                IF v \div radix = 0 \/ r = 1 THEN <<map[v % radix]>>
                ELSE Append(f[r - 1][v \div radix], map[v % radix])]]

LEMMA ConvertsExists ==
    ASSUME NEW radix \in {2, 10, 16}, NEW map
    PROVE  \A n \in Nat : \E f : Converts(f, radix, n, map)
  <1> DEFINE Has == {n \in Nat : \E f : Converts(f, radix, n, map)}
             after(f, r) ==
                [v \in Nat |-> IF v \div radix = 0 \/ r = 1 THEN <<map[v % radix]>>
                               ELSE Append(f[r - 1][v \div radix], map[v % radix])]
  <1>1. 0 \in Has
    <2> DEFINE f == [r \in 1 .. 0 |-> <<>>]
    <2>1. f = [r \in 1 .. 0 |-> after(f, r)]
      OBVIOUS
    <2>2. Converts(f, radix, 0, map)
      BY <2>1 DEF Converts
    <2> QED
      BY <2>2
  <1>2. ASSUME NEW n \in Nat, n \in Has
        PROVE  n + 1 \in Has
    <2>1. PICK f : Converts(f, radix, n, map)
      BY <1>2
    <2> DEFINE g == [r \in 1 .. n + 1 |-> IF r <= n THEN f[r] ELSE after(f, r)]
    <2>2. \A r \in 1 .. n + 1 : g[r] = after(g, r)
      <3> TAKE r \in 1 .. n + 1
      <3>1. g[r] = after(f, r)
        <4>1. CASE r <= n
          <5>1. g[r] = f[r]
            BY <4>1
          <5>2. r \in 1 .. n
            BY <4>1
          <5>3. f[r] = after(f, r)
            BY <2>1, <5>2 DEF Converts
          <5> QED
            BY <5>1, <5>3
        <4>2. CASE ~(r <= n)
          BY <4>2
        <4> QED
          BY <4>1, <4>2
      <3>2. r # 1 => g[r - 1] = f[r - 1]
        OBVIOUS
      <3> HIDE DEF g
      <3>3. after(g, r) = after(f, r)
        BY <3>2
      <3> QED
        BY <3>1, <3>3
    <2>3. g = [r \in 1 .. n + 1 |-> g[r]]
      OBVIOUS
    <2> HIDE DEF g
    <2>4. g = [r \in 1 .. n + 1 |-> after(g, r)]
      BY <2>2, <2>3
    <2>5. Converts(g, radix, n + 1, map)
      BY <2>4 DEF Converts
    <2> QED
      BY <2>5
  <1> HIDE DEF Has
  <1>3. \A n \in Nat : n \in Has
    BY <1>1, <1>2, Induction
  <1> QED
    BY <1>3 DEF Has

(* Whatever the table, the text is made of it and not empty.                *)
LEMMA DigitsText ==
    ASSUME NEW radix \in {2, 10, 16}, NEW v \in Nat, NEW map, NEW S,
           \A d \in 0 .. 15 : map[d] \in S
    PROVE  LET text == Digits(v, radix, BufLen - 1, map)
           IN  text \in Seq(S) /\ text # <<>>
  <1> DEFINE m == BufLen - 1
  <1>1. m \in Nat /\ m > 1
    BY FormatAssumption
  <1> DEFINE f == CHOOSE f : f = [r \in 1 .. m |->
                      [w \in Nat |->
                         IF w \div radix = 0 \/ r = 1 THEN <<map[w % radix]>>
                         ELSE Append(f[r - 1][w \div radix], map[w % radix])]]
  <1>2. Digits(v, radix, m, map) = f[m][v]
    BY DEF Digits
  <1>3. f = CHOOSE g : Converts(g, radix, m, map)
    BY DEF Converts
  <1> HIDE DEF f
  <1>4. Converts(f, radix, m, map)
    BY <1>1, <1>3, ConvertsExists
  <1> HIDE DEF m
  <1>5. \A w \in Nat, r \in 1 .. m :
           f[r][w] = IF w \div radix = 0 \/ r = 1 THEN <<map[w % radix]>>
                     ELSE Append(f[r - 1][w \div radix], map[w % radix])
    <2> TAKE w \in Nat, r \in 1 .. m
    <2>1. f[r] = [x \in Nat |->
                    IF x \div radix = 0 \/ r = 1 THEN <<map[x % radix]>>
                    ELSE Append(f[r - 1][x \div radix], map[x % radix])]
      BY <1>4 DEF Converts
    <2> QED
      BY <2>1
  <1>6. \A w \in Nat : w \div radix \in Nat /\ map[w % radix] \in S
    <2> TAKE w \in Nat
    <2>1. w \div radix \in Nat /\ w % radix \in 0 .. 15
      <3>1. CASE radix = 2
        BY <3>1
      <3>2. CASE radix = 10
        BY <3>2
      <3>3. CASE radix = 16
        BY <3>3
      <3> QED
        BY <3>1, <3>2, <3>3
    <2> QED
      BY <2>1
  <1> DEFINE Good == {n \in Nat : n \in 1 .. m =>
                         \A w \in Nat : f[n][w] \in Seq(S) /\ f[n][w] # <<>>}
  <1>7. 0 \in Good
    OBVIOUS
  <1>8. ASSUME NEW n \in Nat, n \in Good
        PROVE  n + 1 \in Good
    <2>1. ASSUME n + 1 \in 1 .. m, NEW w \in Nat
          PROVE  f[n + 1][w] \in Seq(S) /\ f[n + 1][w] # <<>>
      <3>1. PICK c \in S : c = map[w % radix]
        BY <1>6
      <3>2. CASE w \div radix = 0 \/ n + 1 = 1
        <4>1. f[n + 1][w] = <<c>>
          BY <1>5, <2>1, <3>1, <3>2
        <4> QED
          BY <4>1
      <3>3. CASE ~(w \div radix = 0 \/ n + 1 = 1)
        <4>1. n \in 1 .. m /\ (n + 1) - 1 = n
          BY <1>1, <2>1, <3>3
        <4>2. f[n + 1][w] = Append(f[n][w \div radix], c)
          BY <1>5, <2>1, <3>1, <3>3, <4>1
        <4>3. PICK text \in Seq(S) : text = f[n][w \div radix]
          BY <1>6, <1>8, <4>1
        <4>4. Append(text, c) \in Seq(S) /\ Append(text, c) # <<>>
          BY AppendProperties
        <4> QED
          BY <4>2, <4>3, <4>4
      <3> QED
        BY <3>2, <3>3
    <2> QED
      BY <2>1
  <1> HIDE DEF Good
  <1>9. \A n \in Nat : n \in Good
    BY <1>7, <1>8, Induction
  <1>10. m \in 1 .. m
    BY <1>1
  <1>11. f[m][v] \in Seq(S) /\ f[m][v] # <<>>
    BY <1>9, <1>10 DEF Good
  <1> QED
    BY <1>2, <1>11 DEF m

(* What is written reads as the value.                                      *)
Exact(text, v, radix, length) ==
    /\ text \in Seq(Letters) /\ Len(text) \in 1 .. length
    /\ NumberIn(text, radix) = v

LEMMA OneDigit ==
    ASSUME NEW v \in Nat, NEW radix \in {2, 10, 16}, NEW length \in Nat \ {0}, v \div radix = 0
    PROVE  Exact(<<Characters[v % radix]>>, v, radix, length)
  <1>1. v % radix = v /\ v \in 0 .. 15
    <2>1. CASE radix = 2
      BY <2>1
    <2>2. CASE radix = 10
      BY <2>2
    <2>3. CASE radix = 16
      BY <2>3
    <2> QED
      BY <2>1, <2>2, <2>3
  <1>2. Characters[v] \in Letters /\ Digit(Characters[v]) = v
    BY <1>1, DigitOf DEF Letters
  <1>3. NumberIn(<<Characters[v]>>, radix) = v
    BY <1>2, NumberNone
  <1>4. <<Characters[v]>> \in Seq(Letters) /\ Len(<<Characters[v]>>) \in 1 .. length
    BY <1>2
  <1> QED
    BY <1>1, <1>3, <1>4 DEF Exact

LEMMA NextDigit ==
    ASSUME NEW v \in Nat, NEW radix \in {2, 10, 16}, NEW length \in Nat, NEW text,
           Exact(text, v \div radix, radix, length)
    PROVE  Exact(Append(text, Characters[v % radix]), v, radix, length + 1)
  <1> DEFINE c == Characters[v % radix]
  <1>1. v % radix \in 0 .. 15 /\ (v \div radix) * radix + (v % radix) = v
    <2>1. CASE radix = 2
      BY <2>1
    <2>2. CASE radix = 10
      BY <2>2
    <2>3. CASE radix = 16
      BY <2>3
    <2> QED
      BY <2>1, <2>2, <2>3
  <1>2. c \in Letters /\ Digit(c) = v % radix
    BY <1>1, DigitOf DEF Letters
  <1> HIDE DEF c
  <1>3. text \in Seq(Letters) /\ Len(text) \in 1 .. length
    BY DEF Exact
  <1>4. NumberIn(text, radix) = v \div radix
    BY DEF Exact
  <1>5. NumberIn(Append(text, c), radix) = NumberIn(text, radix) * radix + Digit(c)
    BY <1>2, <1>3, NumberAppend
  <1>6. NumberIn(Append(text, c), radix) = (v \div radix) * radix + (v % radix)
    BY <1>2, <1>4, <1>5
  <1>7. Append(text, c) \in Seq(Letters) /\ Len(Append(text, c)) \in 1 .. length + 1
    BY <1>2, <1>3
  <1> QED
    BY <1>1, <1>6, <1>7 DEF Exact, c

(* A number that is zero after j halvings needs no more than j digits.      *)
LEMMA DigitsExact ==
    ASSUME NEW radix \in {2, 10, 16}, NEW h, Halves(h),
           NEW j \in 1 .. BufLen - 1, NEW v \in 0 .. h[BufLen - 1 - j]
    PROVE  Exact(Digits(v, radix, BufLen - 1, Characters), v, radix, j)
  <1> DEFINE m == BufLen - 1
  <1>1. m \in Nat /\ m > 1
    BY FormatAssumption
  <1>2. h \in [0 .. m -> Nat] /\ h[m] = 0 /\ \A k \in 1 .. m : h[k] = h[k - 1] \div 2
    BY DEF Halves, HalvedTo
  <1> DEFINE f == CHOOSE f : f = [r \in 1 .. m |->
                      [w \in Nat |->
                         IF w \div radix = 0 \/ r = 1 THEN <<Characters[w % radix]>>
                         ELSE Append(f[r - 1][w \div radix], Characters[w % radix])]]
  <1>3. Digits(v, radix, m, Characters) = f[m][v]
    BY DEF Digits
  <1>4. f = CHOOSE g : Converts(g, radix, m, Characters)
    BY DEF Converts
  <1> HIDE DEF f
  <1>5. Converts(f, radix, m, Characters)
    BY <1>1, <1>4, ConvertsExists
  <1> HIDE DEF m
  <1>6. \A w \in Nat, r \in 1 .. m :
           f[r][w] = IF w \div radix = 0 \/ r = 1 THEN <<Characters[w % radix]>>
                     ELSE Append(f[r - 1][w \div radix], Characters[w % radix])
    <2> TAKE w \in Nat, r \in 1 .. m
    <2>1. f[r] = [x \in Nat |->
                    IF x \div radix = 0 \/ r = 1 THEN <<Characters[x % radix]>>
                    ELSE Append(f[r - 1][x \div radix], Characters[x % radix])]
      BY <1>5 DEF Converts
    <2> QED
      BY <2>1
  <1> DEFINE Right == {n \in Nat : n \in 1 .. m =>
                          \A w \in 0 .. h[m - n], r \in n .. m : Exact(f[r][w], w, radix, n)}
  <1>7. 0 \in Right
    OBVIOUS
  <1>8. ASSUME NEW n \in Nat, n \in Right
        PROVE  n + 1 \in Right
    <2>1. ASSUME n + 1 \in 1 .. m, NEW w \in 0 .. h[m - (n + 1)], NEW r \in n + 1 .. m
          PROVE  Exact(f[r][w], w, radix, n + 1)
      <3>1. /\ m - (n + 1) \in 0 .. m /\ m - n \in 1 .. m /\ (m - n) - 1 = m - (n + 1)
            /\ r \in 1 .. m /\ (r = 1 => n = 0)
        BY <1>1, <2>1
      <3>2. h[m - (n + 1)] \in Nat /\ h[m - n] = h[m - (n + 1)] \div 2
        BY <1>2, <3>1
      <3>3. w \in Nat /\ w \div radix \in Nat /\ w \div radix <= h[m - n]
        <4>1. PICK b \in Nat : b = h[m - (n + 1)]
          BY <3>2
        <4>2. w \in 0 .. b /\ h[m - n] = b \div 2
          BY <3>2, <4>1
        <4>3. w \div radix <= b \div 2
          <5>1. CASE radix = 2
            BY <4>2, <5>1
          <5>2. CASE radix = 10
            BY <4>2, <5>2
          <5>3. CASE radix = 16
            BY <4>2, <5>3
          <5> QED
            BY <5>1, <5>2, <5>3
        <4> QED
          BY <4>2, <4>3
      <3>4. CASE w \div radix = 0
        <4>1. f[r][w] = <<Characters[w % radix]>>
          BY <1>6, <3>1, <3>3, <3>4
        <4>2. n + 1 \in Nat \ {0}
          OBVIOUS
        <4>3. Exact(<<Characters[w % radix]>>, w, radix, n + 1)
          BY <3>3, <3>4, <4>2, OneDigit
        <4> QED
          BY <4>1, <4>3
      <3>5. CASE w \div radix # 0
        <4>1. n # 0
          <5>1. n = 0 => h[m - n] = 0
            BY <1>1, <1>2
          <5>2. h[m - n] # 0
            BY <3>2, <3>3, <3>5
          <5> QED
            BY <5>1, <5>2
        <4>2. r # 1 /\ r - 1 \in n .. m /\ n \in 1 .. m
          BY <1>1, <2>1, <3>1, <4>1
        <4>3. w \div radix \in 0 .. h[m - n]
          BY <3>2, <3>3
        <4>4. Exact(f[r - 1][w \div radix], w \div radix, radix, n)
          BY <1>8, <4>2, <4>3
        <4>5. f[r][w] = Append(f[r - 1][w \div radix], Characters[w % radix])
          BY <1>6, <3>1, <3>3, <3>5, <4>2
        <4> QED
          BY <3>3, <4>4, <4>5, NextDigit
      <3> QED
        BY <3>4, <3>5
    <2> QED
      BY <2>1
  <1> HIDE DEF Right
  <1>9. \A n \in Nat : n \in Right
    BY <1>7, <1>8, Induction
  <1>10. j \in Nat /\ j \in 1 .. m /\ m \in j .. m /\ v \in 0 .. h[m - j]
    BY <1>1 DEF m
  <1>11. Exact(f[m][v], v, radix, j)
    BY <1>9, <1>10 DEF Right
  <1> QED
    BY <1>3, <1>11 DEF m
----------------------------------------------------------------------------
(* debug_printf: it[s] is the state after the characters of fmt at s.       *)
Start(args) ==
    [state |-> "copy", charpad |-> " ", numpad |-> 0, args |-> args, out |-> <<>>]

Stepped(it, fmt, args, w, n) ==
    it = [s \in SUBSET (1 .. n) |->
             IF s = {} THEN Start(args) ELSE Step(it[s \ {Max(s)}], fmt[Max(s)], w)]

LEMMA SteppedExists ==
    ASSUME NEW fmt, NEW args, NEW w
    PROVE  \A n \in Nat : \E it : Stepped(it, fmt, args, w, n)
  <1> DEFINE Has == {n \in Nat : \E it : Stepped(it, fmt, args, w, n)}
             after(it, s) == IF s = {} THEN Start(args)
                             ELSE Step(it[s \ {Max(s)}], fmt[Max(s)], w)
  <1>1. 0 \in Has
    <2> DEFINE it == [s \in SUBSET (1 .. 0) |-> Start(args)]
    <2>1. \A s \in SUBSET (1 .. 0) : s = {}
      OBVIOUS
    <2>2. Stepped(it, fmt, args, w, 0)
      BY <2>1 DEF Stepped
    <2> QED
      BY <2>2
  <1>2. ASSUME NEW n \in Nat, n \in Has
        PROVE  n + 1 \in Has
    <2>1. PICK it : Stepped(it, fmt, args, w, n)
      BY <1>2
    <2> DEFINE g == [s \in SUBSET (1 .. n + 1) |->
                        IF n + 1 \in s THEN after(it, s) ELSE it[s]]
    <2>2. \A s \in SUBSET (1 .. n + 1) : g[s] = after(g, s)
      <3> TAKE s \in SUBSET (1 .. n + 1)
      <3>1. CASE n + 1 \in s
        <4>1. s \ {Max(s)} \in SUBSET (1 .. n)
          BY <3>1, MaxIs
        <4>2. n + 1 \notin s \ {Max(s)} /\ s \ {Max(s)} \in SUBSET (1 .. n + 1)
          BY <4>1
        <4>3. g[s \ {Max(s)}] = it[s \ {Max(s)}]
          BY <4>2
        <4>4. g[s] = after(it, s)
          BY <3>1
        <4> HIDE DEF g
        <4> QED
          BY <4>3, <4>4
      <3>2. CASE n + 1 \notin s
        <4>1. s \in SUBSET (1 .. n)
          BY <3>2
        <4>2. g[s] = it[s]
          BY <3>2
        <4>3. it[s] = after(it, s)
          BY <2>1, <4>1 DEF Stepped
        <4>4. g[s \ {Max(s)}] = it[s \ {Max(s)}]
          <5>1. s \ {Max(s)} \in SUBSET (1 .. n + 1) /\ n + 1 \notin s \ {Max(s)}
            BY <3>2
          <5> QED
            BY <5>1
        <4> HIDE DEF g
        <4> QED
          BY <4>2, <4>3, <4>4
      <3> QED
        BY <3>1, <3>2
    <2>3. g = [s \in SUBSET (1 .. n + 1) |-> g[s]]
      OBVIOUS
    <2> HIDE DEF g
    <2>4. Stepped(g, fmt, args, w, n + 1)
      BY <2>2, <2>3 DEF Stepped
    <2> QED
      BY <2>4
  <1> HIDE DEF Has
  <1>3. \A n \in Nat : n \in Has
    BY <1>1, <1>2, Induction
  <1> QED
    BY <1>3 DEF Has

LEMMA Beginning ==
    ASSUME NEW n \in Nat, NEW k \in 1 .. n
    PROVE  /\ 1 .. k \in SUBSET (1 .. n) /\ 1 .. k # {} /\ k - 1 \in Nat
           /\ 1 .. k \in SUBSET (1 .. (k - 1) + 1) /\ (k - 1) + 1 \in 1 .. k
           /\ (k - 1) + 1 = k /\ (1 .. k) \ {k} = 1 .. (k - 1)
  OBVIOUS

(* p[k] is the state after k characters.                                    *)
FormatRun(p, fmt, args, w, n) ==
    /\ n = Len(fmt)
    /\ p[0] = Start(args)
    /\ \A k \in 1 .. n : p[k] = Step(p[k - 1], fmt[k], w)

LEMMA PrintedIs ==
    ASSUME NEW T, NEW fmt \in Seq(T), NEW args, NEW w, NEW p, NEW n \in Nat,
           FormatRun(p, fmt, args, w, n)
    PROVE  debug_printf(fmt, args, w) = p[n].out
  <1> USE DEF FormatRun
  <1> DEFINE f == CHOOSE it : it = [s \in SUBSET DOMAIN fmt |->
                     IF s = {} THEN Start(args) ELSE Step(it[s \ {Max(s)}], fmt[Max(s)], w)]
  <1>1. debug_printf(fmt, args, w) = f[DOMAIN fmt].out
    BY DEF debug_printf, FoldLeft, MapThenFoldSet, Start
  <1>2. DOMAIN fmt = 1 .. n
    OBVIOUS
  <1>3. f = CHOOSE it : Stepped(it, fmt, args, w, n)
    BY <1>2 DEF Stepped
  <1> HIDE DEF f
  <1>4. Stepped(f, fmt, args, w, n)
    BY <1>3, SteppedExists
  <1>5. f[1 .. 0] = Start(args)
    <2>1. 1 .. 0 = {} /\ 1 .. 0 \in SUBSET (1 .. n)
      OBVIOUS
    <2> QED
      BY <1>4, <2>1 DEF Stepped
  <1>6. ASSUME NEW k \in 1 .. n
        PROVE  f[1 .. k] = Step(f[1 .. (k - 1)], fmt[k], w)
    <2>1. /\ 1 .. k \in SUBSET (1 .. n) /\ 1 .. k # {} /\ k - 1 \in Nat
          /\ 1 .. k \in SUBSET (1 .. (k - 1) + 1) /\ (k - 1) + 1 \in 1 .. k
          /\ (k - 1) + 1 = k /\ (1 .. k) \ {k} = 1 .. (k - 1)
      BY Beginning
    <2>2. Max(1 .. k) = (k - 1) + 1
      BY <2>1, MaxIs
    <2>3. Max(1 .. k) = k /\ (1 .. k) \ {k} = 1 .. (k - 1)
      BY <2>1, <2>2
    <2>4. f[1 .. k] = Step(f[(1 .. k) \ {Max(1 .. k)}], fmt[Max(1 .. k)], w)
      BY <1>4, <2>1 DEF Stepped
    <2> QED
      BY <2>3, <2>4
  <1> DEFINE Same == {k \in Nat : k <= n => f[1 .. k] = p[k]}
  <1>7. 0 \in Same
    BY <1>5
  <1>8. ASSUME NEW k \in Nat, k \in Same
        PROVE  k + 1 \in Same
    <2>1. ASSUME k + 1 <= n
          PROVE  f[1 .. (k + 1)] = p[k + 1]
      <3>1. k + 1 \in 1 .. n /\ (k + 1) - 1 = k
        BY <2>1
      <3>2. f[1 .. (k + 1)] = Step(f[1 .. k], fmt[k + 1], w)
        BY <1>6, <3>1
      <3>3. p[k + 1] = Step(p[k], fmt[k + 1], w)
        BY <3>1
      <3>4. f[1 .. k] = p[k]
        BY <1>8, <2>1
      <3> QED
        BY <3>2, <3>3, <3>4
    <2> QED
      BY <2>1
  <1> HIDE DEF Same
  <1>9. \A k \in Nat : k \in Same
    BY <1>7, <1>8, Induction
  <1>10. f[1 .. n] = p[n]
    BY <1>9 DEF Same
  <1> QED
    BY <1>1, <1>2, <1>10

(* What a conversion adds to an empty output, without and with padding.     *)
LEMMA ConvertPlain ==
    ASSUME NEW st, NEW c \in {"b", "d"}, NEW w, NEW T, NEW text \in Seq(T),
           text = Converted(c, st.args, w), st.out = <<>>, st.numpad = 0
    PROVE  Convert(st, c, w).out = text
  <1> DEFINE pads == Width(st, c) - Len(text)
             pad == IF c = "p" THEN "0" ELSE st.charpad
             padding == Padding(IF pads > 0 THEN pads ELSE 0, pad)
  <1>1. Len(text) \in Nat
    OBVIOUS
  <1>2. Convert(st, c, w).out = (st.out \o padding) \o text
    BY DEF Convert
  <1>3. Width(st, c) = 0
    BY DEF Width
  <1>4. ~(pads > 0)
    BY <1>1, <1>3
  <1> HIDE DEF pads, pad
  <1>5. padding = <<>>
    BY <1>4 DEF Padding
  <1> HIDE DEF padding
  <1>6. Convert(st, c, w).out = (<<>> \o <<>>) \o text
    BY <1>2, <1>5
  <1>7. (<<>> \o <<>>) \o text = text
    OBVIOUS
  <1> QED
    BY <1>6, <1>7

(* A format of a % and a letter prints the number as it is.                 *)
LEMMA PlainFormat ==
    ASSUME NEW c \in {"b", "d"}, NEW v, NEW w, NEW T, Converted(c, <<v>>, w) \in Seq(T)
    PROVE  debug_printf(<<"%", c>>, <<v>>, w) = Converted(c, <<v>>, w)
  <1> DEFINE text == Converted(c, <<v>>, w)
             s0 == Start(<<v>>)
             s1 == [s0 EXCEPT !.state = "format", !.numpad = 0]
             s2 == Convert(s1, c, w)
             p == [k \in 0 .. 2 |-> IF k = 0 THEN s0 ELSE IF k = 1 THEN s1 ELSE s2]
  <1>1. Step(s0, "%", w) = s1
    BY DEF Step, Start
  <1>2. Step(s1, c, w) = s2
    BY DEF Step, Start
  <1>3. s1.args = <<v>> /\ s1.out = <<>> /\ s1.numpad = 0
    BY DEF Start
  <1>4. s2.out = text
    <2>1. text = Converted(c, s1.args, w)
      BY <1>3
    <2> HIDE DEF s1
    <2> QED
      BY <1>3, <2>1, ConvertPlain
  <1> HIDE DEF text, s0, s1, s2
  <1>5. p[0] = s0 /\ p[1] = s1 /\ p[2] = s2
    OBVIOUS
  <1> HIDE DEF p
  <1> DEFINE fmt == <<"%", c>>
  <1>6. fmt \in Seq({"%", "b", "d"}) /\ Len(fmt) = 1 + 1 /\ fmt[1] = "%" /\ fmt[2] = c
    OBVIOUS
  <1> HIDE DEF fmt
  <1>7. \A k \in 1 .. 2 : p[k] = Step(p[k - 1], fmt[k], w)
    <2>1. p[1] = Step(p[1 - 1], fmt[1], w)
      BY <1>1, <1>5, <1>6
    <2>2. p[2] = Step(p[2 - 1], fmt[2], w)
      BY <1>2, <1>5, <1>6
    <2> QED
      BY <2>1, <2>2
  <1>8. PICK n \in Nat : n = 2
    OBVIOUS
  <1> DEFINE Chars == {"%", "b", "d"}
  <1>9. fmt \in Seq(Chars) /\ n = Len(fmt)
    BY <1>6, <1>8
  <1> HIDE DEF Chars
  <1>10. \A k \in 1 .. n : p[k] = Step(p[k - 1], fmt[k], w)
    BY <1>7, <1>8
  <1>11. p[0] = Start(<<v>>)
    BY <1>5 DEF s0
  <1>12. debug_printf(fmt, <<v>>, w) = p[n].out
    <2>1. FormatRun(p, fmt, <<v>>, w, n)
      BY <1>11, <1>9, <1>10 DEF FormatRun
    <2> QED
      BY <1>9, <2>1, PrintedIs
  <1> QED
    BY <1>4, <1>5, <1>8, <1>12 DEF fmt, text

Padded(out, text, width) ==
    \E z \in Nat : out = Padding(z, "0") \o text /\ z + Len(text) >= width

LEMMA ConvertPadded ==
    ASSUME NEW c \in {"u", "x"}, NEW width \in Nat, NEW st, NEW w,
           NEW text \in Seq(Letters), text = Converted(c, st.args, w),
           st.out = <<>>, st.numpad = width, st.charpad = "0"
    PROVE  Padded(Convert(st, c, w).out, text, width)
  <1> DEFINE pads == Width(st, c) - Len(text)
             z == IF pads > 0 THEN pads ELSE 0
  <1>1. Len(text) \in Nat
    OBVIOUS
  <1>2. Convert(st, c, w).out = (st.out \o Padding(z, "0")) \o text
    BY DEF Convert
  <1>3. Width(st, c) = width
    BY DEF Width
  <1>4. z \in Nat /\ z + Len(text) >= width
    <2>1. PICK len \in Nat : len = Len(text)
      BY <1>1
    <2>2. z = IF width - len > 0 THEN width - len ELSE 0
      BY <1>3, <2>1
    <2> HIDE DEF z
    <2>3. z \in Nat /\ z + len >= width
      BY <2>2
    <2> QED
      BY <2>1, <2>3
  <1> HIDE DEF z
  <1>5. "0" \in Letters
    <2>1. Characters[0] = "0"
      BY DEF Characters, Map
    <2> QED
      BY <2>1 DEF Letters
  <1>6. PICK padding \in Seq(Letters) : padding = Padding(z, "0")
    <2>1. [k \in 1 .. z |-> "0"] \in Seq(Letters)
      BY <1>4, <1>5
    <2> QED
      BY <2>1 DEF Padding
  <1>7. Convert(st, c, w).out = (<<>> \o padding) \o text
    BY <1>2, <1>6
  <1>8. (<<>> \o padding) \o text = padding \o text
    OBVIOUS
  <1> QED
    BY <1>4, <1>6, <1>7, <1>8 DEF Padded

(* The format of the programs that pad with zeros.                          *)
LEMMA PaddedFormat ==
    ASSUME NEW c \in {"u", "x"}, NEW numeral \in {"2", "5"},
           NEW width \in {2, 5}, width = IF numeral = "2" THEN 2 ELSE 5,
           NEW v, NEW w, Converted(c, <<v>>, w) \in Seq(Letters)
    PROVE  LET text == Converted(c, <<v>>, w)
           IN  \E z \in Nat :
                  /\ debug_printf(<<"%", "0", numeral, c>>, <<v>>, w)
                        = Padding(z, "0") \o text
                  /\ z + Len(text) >= width
  <1> DEFINE text == Converted(c, <<v>>, w)
             s0 == Start(<<v>>)
             s1 == [s0 EXCEPT !.state = "format", !.numpad = 0]
             s2 == [s1 EXCEPT !.state = "padding", !.charpad = "0"]
             s3 == [s2 EXCEPT !.numpad = width]
             s4 == Convert(s3, c, w)
             p == [k \in 0 .. 4 |-> IF k = 0 THEN s0 ELSE IF k = 1 THEN s1
                                    ELSE IF k = 2 THEN s2 ELSE IF k = 3 THEN s3 ELSE s4]
  <1>1. numeral \in Numerals /\ c \notin Numerals /\ Digit(numeral) = width
    <2>1. Map[3] = "2" /\ Map[6] = "5" /\ \A k \in 1 .. 10 : Map[k] # "u" /\ Map[k] # "x"
      BY DEF Map
    <2>2. Characters[2] = "2" /\ Characters[5] = "5"
      BY DEF Characters, Map
    <2>3. Digit(Characters[2]) = 2 /\ Digit(Characters[5]) = 5
      BY DigitOf
    <2>4. numeral \in Numerals /\ c \notin Numerals
      BY <2>1 DEF Numerals
    <2>5. Digit(numeral) = width
      BY <2>2, <2>3
    <2> QED
      BY <2>4, <2>5
  <1>2. Step(s0, "%", w) = s1
    BY DEF Step, Start
  <1>3. Step(s1, "0", w) = s2
    BY DEF Step, Start
  <1>4. Step(s2, numeral, w) = s3
    <2>1. s2.state = "padding" /\ s2.numpad = 0
      BY DEF Start
    <2>2. Step(s2, numeral, w) = [s2 EXCEPT !.numpad = 0 * 10 + Digit(numeral)]
      <3> HIDE DEF s2
      <3> QED
        BY <1>1, <2>1 DEF Step
    <2>3. 0 * 10 + Digit(numeral) = width
      BY <1>1
    <2> HIDE DEF s2
    <2> QED
      BY <2>2, <2>3
  <1>5. s3.state = "padding" /\ s3.args = <<v>> /\ s3.out = <<>>
        /\ s3.numpad = width /\ s3.charpad = "0"
    BY DEF Start
  <1>6. Step(s3, c, w) = s4
    <2> HIDE DEF s3
    <2> QED
      BY <1>1, <1>5 DEF Step
  <1>7. PICK z \in Nat : s4.out = Padding(z, "0") \o text /\ z + Len(text) >= width
    <2>1. text = Converted(c, s3.args, w)
      BY <1>5
    <2>2. width \in Nat
      OBVIOUS
    <2> HIDE DEF s3, text
    <2>3. text \in Seq(Letters)
      BY DEF text
    <2>4. Padded(s4.out, text, width)
      BY <1>5, <2>1, <2>2, <2>3, ConvertPadded
    <2> QED
      BY <2>4 DEF Padded
  <1> HIDE DEF text, s0, s1, s2, s3, s4
  <1>8. p[0] = s0 /\ p[1] = s1 /\ p[2] = s2 /\ p[3] = s3 /\ p[4] = s4
    OBVIOUS
  <1> HIDE DEF p
  <1> DEFINE fmt == <<"%", "0", numeral, c>>
             Chars == {"%", "0", numeral, c}
  <1>9. fmt \in Seq(Chars) /\ Len(fmt) = 3 + 1
        /\ fmt[1] = "%" /\ fmt[2] = "0" /\ fmt[3] = numeral /\ fmt[4] = c
    OBVIOUS
  <1> HIDE DEF fmt, Chars
  <1>10. \A k \in 1 .. 4 : p[k] = Step(p[k - 1], fmt[k], w)
    <2>1. p[1] = Step(p[1 - 1], fmt[1], w)
      BY <1>2, <1>8, <1>9
    <2>2. p[2] = Step(p[2 - 1], fmt[2], w)
      BY <1>3, <1>8, <1>9
    <2>3. p[3] = Step(p[3 - 1], fmt[3], w)
      BY <1>4, <1>8, <1>9
    <2>4. p[4] = Step(p[4 - 1], fmt[4], w)
      BY <1>6, <1>8, <1>9
    <2> QED
      BY <2>1, <2>2, <2>3, <2>4
  <1>11. PICK n \in Nat : n = 4
    OBVIOUS
  <1>12. FormatRun(p, fmt, <<v>>, w, n)
    <2>1. n = Len(fmt)
      BY <1>9, <1>11
    <2>2. p[0] = Start(<<v>>)
      BY <1>8 DEF s0
    <2>3. \A k \in 1 .. n : p[k] = Step(p[k - 1], fmt[k], w)
      BY <1>10, <1>11
    <2> QED
      BY <2>1, <2>2, <2>3 DEF FormatRun
  <1>13. debug_printf(fmt, <<v>>, w) = p[n].out
    BY <1>9, <1>12, PrintedIs
  <1> QED
    BY <1>7, <1>8, <1>11, <1>13 DEF fmt, text
----------------------------------------------------------------------------
(* The conversions of a 32-bit number.                                      *)
LEMMA UnsignedExact ==
    ASSUME NEW v \in 0 .. Word - 1, NEW radix \in {2, 10, 16}
    PROVE  /\ format32_unsigned(v, radix) \in Seq(Letters)
           /\ format32_unsigned(v, radix) # <<>>
           /\ NumberIn(format32_unsigned(v, radix), radix) = v
  <1>1. PICK h : Halves(h)
    BY HalvesExist
  <1> DEFINE j == BufLen - 1
             text == format32_unsigned(v, radix)
  <1>2. j \in 1 .. BufLen - 1 /\ BufLen - 1 - j = 0
    BY FormatAssumption
  <1>3. v \in 0 .. h[BufLen - 1 - j]
    BY <1>1, <1>2 DEF Halves, HalvedTo
  <1> HIDE DEF j
  <1>4. Exact(text, v, radix, j)
    BY <1>1, <1>2, <1>3, DigitsExact DEF format32_unsigned
  <1> HIDE DEF text
  <1>5. text \in Seq(Letters) /\ Len(text) \in 1 .. j /\ NumberIn(text, radix) = v
    BY <1>4 DEF Exact
  <1>6. text # <<>>
    BY <1>2, <1>5
  <1> QED
    BY <1>5, <1>6 DEF text

LEMMA SignFront ==
    ASSUME NEW S, NEW text \in Seq(S), NEW c
    PROVE  Head(<<c>> \o text) = c /\ Tail(<<c>> \o text) = text /\ <<c>> \o text # <<>>
  OBVIOUS

LEMMA SignedExact ==
    ASSUME NEW v \in 0 .. Word - 1, NEW w
    PROVE  LET text == format32_signed(v, 10, w)
           IN  /\ \E S : text \in Seq(S)
               /\ text # <<>>
               /\ v # MostNegative => SignedNumberIn(text, 10) = Signed(v)
  <1> DEFINE text == format32_signed(v, 10, w)
  <1>1. PICK half \in Nat : Word = 2 * half /\ half > 0
    <2>1. Word = 2 * (Word \div 2) /\ Word \div 2 \in Nat /\ Word \div 2 > 0
      BY FormatAssumption
    <2> QED
      BY <2>1
  <1>2. MostNegative = half
    BY <1>1 DEF MostNegative
  <1>3. CASE v < half
    <2>1. Signed(v) = v /\ v >= 0
      BY <1>2, <1>3 DEF Signed
    <2>2. text = format32_unsigned(v, 10)
      BY <2>1 DEF format32_signed
    <2>3. text \in Seq(Letters) /\ text # <<>> /\ NumberIn(text, 10) = v
      BY <2>2, UnsignedExact
    <2> HIDE DEF text
    <2>4. Head(text) # "-"
      <3>1. Head(text) \in Letters
        BY <2>3
      <3> QED
        BY <3>1, LetterDigit
    <2>5. SignedNumberIn(text, 10) = v
      BY <2>3, <2>4 DEF SignedNumberIn
    <2> QED
      BY <2>1, <2>3, <2>5 DEF text
  <1>4. CASE v >= half
    <2>1. Signed(v) = v - Word /\ -Signed(v) = Word - v /\ Word - v \in 1 .. half
          /\ ~(Signed(v) >= 0)
      BY <1>1, <1>2, <1>4 DEF Signed
    <2> DEFINE map == IF v = MostNegative /\ w THEN Outside ELSE Characters
               digits == Digits(Word - v, 10, BufLen - 1, map)
    <2>2. text = IF Len(digits) < BufLen - 1 THEN <<"-">> \o digits ELSE digits
      BY <2>1 DEF format32_signed
    <2>3. PICK S : digits \in Seq(S) /\ digits # <<>> /\ "-" \in S
      <3> DEFINE S0 == {map[d] : d \in 0 .. 15} \union {"-"}
      <3>1. \A d \in 0 .. 15 : map[d] \in S0
        OBVIOUS
      <3>2. Word - v \in Nat
        BY <1>1, <2>1
      <3>3. "-" \in S0
        OBVIOUS
      <3> HIDE DEF S0, map
      <3>4. digits \in Seq(S0) /\ digits # <<>>
        BY <3>1, <3>2, DigitsText
      <3> QED
        BY <3>3, <3>4
    <2>4. ASSUME v # MostNegative
          PROVE  SignedNumberIn(text, 10) = Signed(v)
      <3>1. PICK h : Halves(h)
        BY HalvesExist
      <3> DEFINE j == BufLen - 2
      <3>2. j \in 1 .. BufLen - 1 /\ BufLen - 1 - j = 1 /\ j < BufLen - 1
        BY FormatAssumption
      <3>3. h[1] = half - 1
        <4>1. 1 \in 1 .. BufLen - 1
          BY FormatAssumption
        <4>2. h[1] = h[1 - 1] \div 2
          BY <3>1, <4>1 DEF Halves, HalvedTo
        <4>3. h[0] = Word - 1
          BY <3>1 DEF Halves, HalvedTo
        <4>4. (Word - 1) \div 2 = half - 1
          BY <1>1
        <4> QED
          BY <4>2, <4>3, <4>4
      <3>4. Word - v \in 0 .. h[BufLen - 1 - j]
        BY <1>1, <1>2, <1>4, <2>1, <2>4, <3>2, <3>3
      <3>5. map = Characters
        BY <2>4
      <3> HIDE DEF j
      <3>6. Exact(Digits(Word - v, 10, BufLen - 1, Characters), Word - v, 10, j)
        BY <3>1, <3>2, <3>4, DigitsExact
      <3>7. Exact(digits, Word - v, 10, j)
        BY <3>5, <3>6
      <3> HIDE DEF digits, text
      <3>8. Len(digits) \in 1 .. j /\ NumberIn(digits, 10) = Word - v
        BY <3>7 DEF Exact
      <3>9. text = <<"-">> \o digits
        <4>1. Len(digits) < BufLen - 1
          BY <3>2, <3>8, FormatAssumption DEF j
        <4> QED
          BY <2>2, <4>1
      <3>10. Head(text) = "-" /\ Tail(text) = digits
        BY <2>3, <3>9, SignFront
      <3>11. SignedNumberIn(text, 10) = -(Word - v)
        BY <3>8, <3>10 DEF SignedNumberIn
      <3>12. -(Word - v) = v - Word
        BY <1>1
      <3> QED
        BY <2>1, <3>11, <3>12
    <2> HIDE DEF digits
    <2>5. text \in Seq(S) /\ text # <<>>
      <3>1. <<"-">> \o digits \in Seq(S) /\ <<"-">> \o digits # <<>>
        BY <2>3
      <3> HIDE DEF text
      <3> QED
        BY <2>2, <2>3, <3>1
    <2> QED
      BY <2>4, <2>5
  <1> QED
    BY <1>1, <1>3, <1>4

(* What a program prints reads as the number it was given.                  *)
Right(conversion, v, text) == text # <<>> /\ ReadsAs(text, conversion, v)

LEMMA PrintsExact ==
    ASSUME NEW conversion \in {"b", "d", "u", "x"}, NEW v \in 0 .. Word - 1
    PROVE  Right(conversion, v, Text(conversion, v))
  <1>1. /\ Formats["d"] = <<"%", "d">> /\ Formats["b"] = <<"%", "b">>
        /\ Formats["u"] = <<"%", "0", "5", "u">> /\ Formats["x"] = <<"%", "0", "2", "x">>
    BY DEF Formats
  <1> DEFINE text == Text(conversion, v)
  <1>2. text = debug_printf(Formats[conversion], <<v>>, wraps)
    BY DEF Text
  <1> HIDE DEF text
  <1>3. CASE conversion = "d"
    <2>1. Converted("d", <<v>>, wraps) = format32_signed(v, 10, wraps)
      BY DEF Converted
    <2>2. PICK S : format32_signed(v, 10, wraps) \in Seq(S)
      BY SignedExact
    <2>3. text = format32_signed(v, 10, wraps)
      BY <1>1, <1>2, <1>3, <2>1, <2>2, PlainFormat
    <2>4. text # <<>> /\ (v # MostNegative => SignedNumberIn(text, 10) = Signed(v))
      BY <2>3, SignedExact
    <2>5. Right("d", v, text)
      BY <2>4 DEF Right, ReadsAs
    <2> QED
      BY <1>3, <2>5 DEF text
  <1>4. CASE conversion = "b"
    <2>1. Converted("b", <<v>>, wraps) = format32_unsigned(v, 2)
      BY DEF Converted
    <2>2. format32_unsigned(v, 2) \in Seq(Letters) /\ format32_unsigned(v, 2) # <<>>
          /\ NumberIn(format32_unsigned(v, 2), 2) = v
      BY UnsignedExact
    <2>3. text = format32_unsigned(v, 2)
      BY <1>1, <1>2, <1>4, <2>1, <2>2, PlainFormat
    <2>4. Right("b", v, text)
      BY <2>2, <2>3 DEF Right, ReadsAs
    <2> QED
      BY <1>4, <2>4 DEF text
  <1>5. CASE conversion = "u"
    <2> DEFINE digits == format32_unsigned(v, 10)
    <2>1. Converted("u", <<v>>, wraps) = digits
      BY DEF Converted
    <2>2. digits \in Seq(Letters) /\ digits # <<>> /\ NumberIn(digits, 10) = v
      BY UnsignedExact
    <2> HIDE DEF digits
    <2>3. PICK z \in Nat : text = Padding(z, "0") \o digits /\ z + Len(digits) >= 5
      <3>1. Converted("u", <<v>>, wraps) \in Seq(Letters)
        BY <2>1, <2>2
      <3>2. text = debug_printf(<<"%", "0", "5", "u">>, <<v>>, wraps)
        BY <1>1, <1>2, <1>5
      <3> QED
        BY <2>1, <3>1, <3>2, PaddedFormat
    <2>4. Len(text) = z + Len(digits) /\ NumberIn(text, 10) = NumberIn(digits, 10)
      BY <2>2, <2>3, NumberPadded
    <2>5. Len(text) >= 5 /\ NumberIn(text, 10) = v
      BY <2>2, <2>3, <2>4
    <2>6. text # <<>>
      BY <2>5
    <2>7. Right("u", v, text)
      BY <2>5, <2>6 DEF Right, ReadsAs
    <2> QED
      BY <1>5, <2>7 DEF text
  <1>6. CASE conversion = "x"
    <2> DEFINE digits == format32_unsigned(v, 16)
    <2>1. Converted("x", <<v>>, wraps) = digits
      BY DEF Converted
    <2>2. digits \in Seq(Letters) /\ digits # <<>> /\ NumberIn(digits, 16) = v
      BY UnsignedExact
    <2> HIDE DEF digits
    <2>3. PICK z \in Nat : text = Padding(z, "0") \o digits /\ z + Len(digits) >= 2
      <3>1. Converted("x", <<v>>, wraps) \in Seq(Letters)
        BY <2>1, <2>2
      <3>2. text = debug_printf(<<"%", "0", "2", "x">>, <<v>>, wraps)
        BY <1>1, <1>2, <1>6
      <3> QED
        BY <2>1, <3>1, <3>2, PaddedFormat
    <2>4. Len(text) = z + Len(digits) /\ NumberIn(text, 16) = NumberIn(digits, 16)
      BY <2>2, <2>3, NumberPadded
    <2>5. Len(text) >= 2 /\ NumberIn(text, 16) = v
      BY <2>2, <2>3, <2>4
    <2>6. text # <<>>
      BY <2>5
    <2>7. Right("x", v, text)
      BY <2>5, <2>6 DEF Right, ReadsAs
    <2> QED
      BY <1>6, <2>7 DEF text
  <1> QED
    BY <1>3, <1>4, <1>5, <1>6

(* A line of numbers, each of them right.                                   *)
RightOne(p) == p.conversion # "unpassed" => Right(p.conversion, p.value, p.text)
RightAll(all) == \A k \in DOMAIN all : RightOne(all[k])

LEMMA ShownIsRight ==
    ASSUME NEW conversion \in {"b", "d", "u", "x"}, NEW v \in 0 .. Word - 1
    PROVE  RightOne(Shown(conversion, v))
  <1>1. Right(conversion, v, Text(conversion, v))
    BY PrintsExact
  <1> QED
    BY <1>1 DEF RightOne, Shown

LEMMA EachIsRight ==
    ASSUME NEW conversion \in {"b", "d", "u", "x"}, NEW values,
           \A k \in DOMAIN values : values[k] \in 0 .. Word - 1
    PROVE  RightAll(Each(conversion, values))
  <1>1. DOMAIN Each(conversion, values) = DOMAIN values
    BY DEF Each
  <1>2. ASSUME NEW k \in DOMAIN values
        PROVE  RightOne(Each(conversion, values)[k])
    <2>1. Each(conversion, values)[k] = Shown(conversion, values[k])
      BY DEF Each
    <2> QED
      BY <2>1, ShownIsRight
  <1> QED
    BY <1>1, <1>2 DEF RightAll

LEMMA OneIsRight ==
    ASSUME NEW conversion \in {"b", "d", "u", "x"}, NEW v \in 0 .. Word - 1
    PROVE  RightAll(Each(conversion, <<v>>))
  <1> DEFINE values == <<v>>
  <1>1. \A k \in DOMAIN values : values[k] \in 0 .. Word - 1
    OBVIOUS
  <1> HIDE DEF values
  <1>2. RightAll(Each(conversion, values))
    BY <1>1, EachIsRight
  <1> QED
    BY <1>2 DEF values

LEMMA NoneIsRight == RightAll(<<>>)
  BY DEF RightAll

LEMMA SeveralAreRight ==
    ASSUME NEW a, NEW b, NEW c, RightOne(a), RightOne(b), RightOne(c)
    PROVE  RightAll(<<a>>) /\ RightAll(<<a, b>>) /\ RightAll(<<a, b, c>>)
  BY DEF RightAll

LEMMA BytesFit ==
    /\ \A string : Byte(string) \in 0 .. Word - 1
    /\ \A n \in Data : n \in 0 .. Word - 1
    /\ \A n \in 0 .. Addresses - 1 : n \in 0 .. Word - 1
    /\ {0, 1} \subseteq 0 .. Word - 1
  <1>1. PICK values \in Nat : values = ByteValues /\ values > 0 /\ values <= Word
    BY ConsoleAssumption, FormatAssumption
  <1>2. ASSUME NEW string
        PROVE  Byte(string) \in 0 .. Word - 1
    <2>1. Number(string) \in Nat
      BY ConsoleAssumption DEF Number
    <2>2. PICK n \in Nat : n = Number(string)
      BY <2>1
    <2>3. n % values \in 0 .. values - 1
      BY <1>1
    <2>4. Byte(string) = n % values
      BY <1>1, <2>2 DEF Byte
    <2> QED
      BY <1>1, <2>3, <2>4, FormatAssumption
  <1>3. \A n \in Data : n \in 0 .. Word - 1
    BY <1>1, ConsoleAssumption, FormatAssumption
  <1>4. \A n \in 0 .. Addresses - 1 : n \in 0 .. Word - 1
    BY <1>1, ConsoleAssumption, FormatAssumption
  <1>5. {0, 1} \subseteq 0 .. Word - 1
    BY FormatAssumption
  <1> QED
    BY <1>2, <1>3, <1>4, <1>5
----------------------------------------------------------------------------
(* The programs, step by step.                                              *)
PrintedRight == RightAll(printed)

LEMMA PrintedStep == PrintedRight /\ [Next]_vars => PrintedRight'
  <1> SUFFICES ASSUME PrintedRight, [Next]_vars
               PROVE  PrintedRight'
    OBVIOUS
  <1>1. ASSUME UNCHANGED printed
        PROVE  PrintedRight'
    BY <1>1 DEF PrintedRight
  <1>2. ASSUME NEW all, RightAll(all), printed' = all
        PROVE  PrintedRight'
    BY <1>2 DEF PrintedRight
  <1>3. CASE Prompt
    BY <1>2, <1>3, NoneIsRight DEF Prompt
  <1>4. CASE RunTime
    <2>1. PICK t \in Times : printed' = Each("d", <<t>>)
      BY <1>4 DEF RunTime
    <2>2. t \in 0 .. Word - 1
      BY ConsoleAssumption
    <2> QED
      BY <1>2, <2>1, <2>2, OneIsRight
  <1>5. CASE RunProbe
    <2>1. PICK ret \in Results : printed' = Each("d", <<ret>>)
      BY <1>5 DEF RunProbe
    <2>2. ret \in 0 .. Word - 1
      BY ConsoleAssumption
    <2> QED
      BY <1>2, <2>1, <2>2, OneIsRight
  <1>6. CASE RunRead
    <2>1. PICK n : \E bytes \in [1 .. n -> Data] : printed' = Each("x", bytes)
      BY <1>6 DEF RunRead
    <2>2. PICK bytes \in [1 .. n -> Data] : printed' = Each("x", bytes)
      BY <2>1
    <2>3. \A k \in DOMAIN bytes : bytes[k] \in 0 .. Word - 1
      BY BytesFit
    <2> QED
      BY <1>2, <2>2, <2>3, EachIsRight
  <1>7. CASE RunI2C
    <2>1. CASE RunScan
      <3>1. PICK n : \E found \in [1 .. n -> 0 .. Addresses - 1] : printed' = Each("x", found)
        BY <2>1 DEF RunScan
      <3>2. PICK found \in [1 .. n -> 0 .. Addresses - 1] : printed' = Each("x", found)
        BY <3>1
      <3>3. \A k \in DOMAIN found : found[k] \in 0 .. Word - 1
        BY BytesFit
      <3> QED
        BY <1>2, <3>2, <3>3, EachIsRight
    <2>2. CASE RunDetect
      <3>1. ASSUME NEW ret \in Results, NEW found,
                   printed' = <<Shown("d", ret), Unpassed(Byte(StringAt(argv[2])), found)>>
            PROVE  PrintedRight'
        <4>1. RightOne(Shown("d", ret))
          BY ConsoleAssumption, ShownIsRight
        <4>2. RightOne(Unpassed(Byte(StringAt(argv[2])), found))
          BY DEF RightOne, Unpassed
        <4> QED
          BY <1>2, <3>1, <4>1, <4>2, SeveralAreRight
      <3>2. ASSUME printed' = <<Shown("d", 0), Shown("x", Byte(StringAt(argv[2])))>>
            PROVE  PrintedRight'
        <4>1. RightOne(Shown("d", 0)) /\ RightOne(Shown("x", Byte(StringAt(argv[2]))))
          BY BytesFit, ShownIsRight
        <4> QED
          BY <1>2, <3>2, <4>1, SeveralAreRight
      <3> QED
        BY <2>2, <3>1, <3>2 DEF RunDetect
    <2>3. CASE RunRegister
      <3>1. ASSUME NEW ret \in Results, printed' = <<Shown("d", ret)>>
            PROVE  PrintedRight'
        <4>1. RightOne(Shown("d", ret))
          BY ConsoleAssumption, ShownIsRight
        <4> QED
          BY <1>2, <3>1, <4>1, SeveralAreRight
      <3>2. ASSUME NEW data \in Data,
                   printed' = <<Shown("d", 0), Shown("x", Byte(StringAt(argv[3]))),
                                Shown("x", data)>>
            PROVE  PrintedRight'
        <4>1. /\ RightOne(Shown("d", 0)) /\ RightOne(Shown("x", Byte(StringAt(argv[3]))))
              /\ RightOne(Shown("x", data))
          BY BytesFit, ShownIsRight
        <4> QED
          BY <1>2, <3>2, <4>1, SeveralAreRight
      <3> QED
        BY <2>3, <3>1, <3>2 DEF RunRegister
    <2> QED
      BY <1>1, <1>7, <2>1, <2>2, <2>3 DEF RunI2C
  <1>8. CASE Loop
    <2>1. ASSUME NEW uval \in [1 .. 5 -> Readings], printed' = Each("u", uval)
          PROVE  PrintedRight'
      <3>1. \A k \in DOMAIN uval : uval[k] \in 0 .. Word - 1
        BY ConsoleAssumption
      <3> QED
        BY <1>2, <2>1, <3>1, EachIsRight
    <2>2. ASSUME NEW state \in [1 .. 4 -> {0, 1}], printed' = Each("b", state)
          PROVE  PrintedRight'
      <3>1. \A k \in DOMAIN state : state[k] \in 0 .. Word - 1
        BY BytesFit
      <3> QED
        BY <1>2, <2>2, <3>1, EachIsRight
    <2> QED
      BY <1>8, <2>1, <2>2 DEF Loop
  <1>9. CASE GetErase \/ GetCharacter \/ GetNewline \/ Tokenize
    BY <1>1, <1>9 DEF GetErase, GetCharacter, GetNewline, Tokenize, effects
  <1>10. CASE RunQuick \/ RunLoop \/ RunServer
    BY <1>1, <1>10 DEF RunQuick, RunLoop, RunServer
  <1>11. CASE UNCHANGED vars
    BY <1>1, <1>11 DEF vars, effects
  <1> QED
    BY <1>3, <1>4, <1>5, <1>6, <1>7, <1>8, <1>9, <1>10, <1>11 DEF Next

(* Every number on the screen - times, results, registers, addresses, data, *)
(* in decimal, binary and hexadecimal - reads as the number it stands for,  *)
(* with its sign and padded, for every width of a word and whatever the     *)
(* drivers return; the most negative one and the one whose argument is not  *)
(* passed are excepted.                                                     *)
THEOREM PrintsNumbers == Spec => []NumbersPrinted
  <1>1. Init => PrintedRight
    BY NoneIsRight DEF Init, PrintedRight
  <1>2. PrintedRight => NumbersPrinted
    BY DEF PrintedRight, RightAll, RightOne, Right, NumbersPrinted
  <1> QED
    BY <1>1, <1>2, PrintedStep, PTL DEF Spec

(* The line ends within its buffer.                                         *)
LineInv ==
    /\ pc \in {"prompt", "gets", "tokenize", "dispatch", "loop", "rpc"}
    /\ i \in Places
    /\ buf = [p \in Places |-> buf[p]]
    /\ pc \in {"tokenize", "dispatch"} => \E p \in Places : buf[p] = NUL

LEMMA LineStep == LineInv /\ [Next]_vars => LineInv'
  <1> SUFFICES ASSUME LineInv, [Next]_vars
               PROVE  LineInv'
    OBVIOUS
  <1> USE DEF LineInv, Places
  <1>1. CASE Prompt
    BY <1>1, ConsoleAssumption DEF Prompt
  <1>2. CASE GetErase
    <2>1. pc' = "gets" /\ buf' = buf
      BY <1>2 DEF GetErase
    <2>2. i' = i \/ (i # 0 /\ i' = i - 1)
      BY <1>2 DEF GetErase
    <2>3. i' \in Places
      BY <2>2, ConsoleAssumption
    <2> QED
      BY <2>1, <2>3
  <1>3. CASE GetCharacter
    <2>1. pc' = "gets"
      BY <1>3 DEF GetCharacter
    <2>2. i' \in Places
      BY <1>3, ConsoleAssumption DEF GetCharacter, Fits
    <2>3. buf' = [p \in Places |-> buf'[p]]
      <3>1. buf' = buf \/ buf' = [buf EXCEPT ![i] = Head(typed)]
        BY <1>3 DEF GetCharacter
      <3> QED
        BY <3>1
    <2> QED
      BY <2>1, <2>2, <2>3
  <1>4. CASE GetNewline
    <2>1. buf'[i] = NUL /\ i' = i /\ pc' = "tokenize"
      BY <1>4 DEF GetNewline
    <2>2. buf' = [p \in Places |-> buf'[p]]
      BY <1>4 DEF GetNewline
    <2> QED
      BY <2>1, <2>2
  <1>5. CASE Tokenize
    <2>1. PICK p \in Places : buf[p] = NUL
      BY <1>5 DEF Tokenize
    <2>2. buf' = [q \in Places |-> IF CutAfter(q) THEN NUL ELSE buf[q]]
      BY <1>5 DEF Tokenize
    <2>3. buf'[p] = NUL /\ buf' = [q \in Places |-> buf'[q]]
      BY <2>1, <2>2
    <2>4. i' = i /\ pc' = "dispatch"
      BY <1>5 DEF Tokenize
    <2> QED
      BY <2>3, <2>4
  <1>6. CASE RunQuick \/ RunTime \/ RunProbe \/ RunRead \/ RunI2C \/ RunLoop \/ RunServer
    BY <1>6 DEF RunQuick, RunTime, RunProbe, RunRead, RunI2C, RunLoop, RunServer,
                Dispatched, line
  <1>7. CASE Loop
    BY <1>7 DEF Loop, line
  <1>8. CASE UNCHANGED vars
    BY <1>8 DEF vars, line
  <1> QED
    BY <1>1, <1>2, <1>3, <1>4, <1>5, <1>6, <1>7, <1>8 DEF Next

(* Whatever is typed, and however much of it, the line and its end stay     *)
(* within the buffer, for every size of it.                                 *)
THEOREM LineStaysInBuffer == Spec => []LineInBuffer
  <1>1. Init => LineInv
    BY ConsoleAssumption DEF Init, LineInv, Places
  <1>2. LineInv => LineInBuffer
    BY DEF LineInv, LineInBuffer
  <1> QED
    BY <1>1, <1>2, LineStep, PTL DEF Spec
----------------------------------------------------------------------------
(* What is dispatched is what the screen shows.                             *)

(* The words w, with the last of them longer by a character.                *)
Extend(w, c) == Append(Front(w), Append(Last(w), c))

(* The words of the first k characters of a text, for each k up to n.       *)
Grows(words, text, n) ==
    words = [k \in 0 .. n |->
        IF k = 0 THEN <<>>
        ELSE LET before == words[k - 1]
             IN  IF text[k] = Space THEN before
                 ELSE IF k = 1 \/ text[k - 1] = Space THEN Append(before, <<text[k]>>)
                 ELSE Extend(before, text[k])]

LEMMA GrowsExists ==
    ASSUME NEW text
    PROVE  \A n \in Nat : \E words : Grows(words, text, n)
  <1> DEFINE Has == {n \in Nat : \E words : Grows(words, text, n)}
             after(words, k) ==
                IF k = 0 THEN <<>>
                ELSE LET before == words[k - 1]
                     IN  IF text[k] = Space THEN before
                         ELSE IF k = 1 \/ text[k - 1] = Space THEN Append(before, <<text[k]>>)
                         ELSE Extend(before, text[k])
  <1>1. 0 \in Has
    <2> DEFINE words == [k \in 0 .. 0 |-> <<>>]
    <2>1. words = [k \in 0 .. 0 |-> after(words, k)]
      OBVIOUS
    <2>2. Grows(words, text, 0)
      BY <2>1 DEF Grows
    <2> QED
      BY <2>2
  <1>2. ASSUME NEW n \in Nat, n \in Has
        PROVE  n + 1 \in Has
    <2>1. PICK words : Grows(words, text, n)
      BY <1>2
    <2> DEFINE g == [k \in 0 .. n + 1 |-> IF k <= n THEN words[k] ELSE after(words, k)]
    <2>2. \A k \in 0 .. n + 1 : g[k] = after(g, k)
      <3> TAKE k \in 0 .. n + 1
      <3>1. g[k] = after(words, k)
        <4>1. CASE k <= n
          <5>1. g[k] = words[k]
            BY <4>1
          <5>2. k \in 0 .. n
            BY <4>1
          <5>3. words[k] = after(words, k)
            BY <2>1, <5>2 DEF Grows
          <5> QED
            BY <5>1, <5>3
        <4>2. CASE ~(k <= n)
          BY <4>2
        <4> QED
          BY <4>1, <4>2
      <3>2. k # 0 => g[k - 1] = words[k - 1]
        OBVIOUS
      <3> HIDE DEF g
      <3>3. after(g, k) = after(words, k)
        BY <3>2
      <3> QED
        BY <3>1, <3>3
    <2>3. g = [k \in 0 .. n + 1 |-> g[k]]
      OBVIOUS
    <2> HIDE DEF g
    <2>4. g = [k \in 0 .. n + 1 |-> after(g, k)]
      BY <2>2, <2>3
    <2>5. Grows(g, text, n + 1)
      BY <2>4 DEF Grows
    <2> QED
      BY <2>5
  <1> HIDE DEF Has
  <1>3. \A n \in Nat : n \in Has
    BY <1>1, <1>2, Induction
  <1> QED
    BY <1>3 DEF Has

(* Where the n words w of the first m characters of a text are: word k is   *)
(* the stretch of characters that are not spaces, from from[k] + 1 to to[k].*)
Stretch(w, text, m, n, from, to) ==
    /\ n = Len(w)
    /\ from \in [1 .. n -> 0 .. m] /\ to \in [1 .. n -> 1 .. m]
    /\ \A k \in 1 .. n : /\ from[k] < to[k]
                         /\ from[k] # 0 => text[from[k]] = Space
                         /\ to[k] < m => text[to[k] + 1] = Space
Spells(w, text, n, from, to) ==
    \A k \in 1 .. n :
        /\ w[k] = [x \in 1 .. to[k] - from[k] |-> text[from[k] + x]]
        /\ \A q \in from[k] + 1 .. to[k] : text[q] # Space
Apart(n, from, to) == \A j, k \in 1 .. n : j < k => to[j] < from[k]
Covers(text, m, n, from, to) ==
    \A q \in 1 .. m : text[q] # Space => \E k \in 1 .. n : q \in from[k] + 1 .. to[k]
Layout(w, text, m, n, from, to) ==
    /\ Stretch(w, text, m, n, from, to) /\ Spells(w, text, n, from, to)
    /\ Apart(n, from, to) /\ Covers(text, m, n, from, to)

(* A space ends a word, or comes after one that has ended.                  *)
LEMMA LayoutSpace ==
    ASSUME NEW w, NEW text, NEW m \in Nat, NEW n \in Nat, NEW from, NEW to,
           Layout(w, text, m, n, from, to), text[m + 1] = Space
    PROVE  Layout(w, text, m + 1, n, from, to)
  <1>1. Stretch(w, text, m + 1, n, from, to)
    <2>1. /\ n = Len(w) /\ from \in [1 .. n -> 0 .. m] /\ to \in [1 .. n -> 1 .. m]
          /\ \A k \in 1 .. n : /\ from[k] < to[k]
                               /\ from[k] # 0 => text[from[k]] = Space
                               /\ to[k] < m => text[to[k] + 1] = Space
      BY DEF Layout, Stretch
    <2>2. from \in [1 .. n -> 0 .. m + 1] /\ to \in [1 .. n -> 1 .. m + 1]
      BY <2>1
    <2>3. \A k \in 1 .. n : to[k] < m + 1 => text[to[k] + 1] = Space
      <3> TAKE k \in 1 .. n
      <3>1. to[k] \in 1 .. m
        BY <2>1
      <3>2. to[k] = m \/ to[k] < m
        BY <3>1
      <3> QED
        BY <2>1, <3>2
    <2> QED
      BY <2>1, <2>2, <2>3 DEF Stretch
  <1>2. Covers(text, m + 1, n, from, to)
    <2> SUFFICES ASSUME NEW q \in 1 .. m + 1, text[q] # Space
                 PROVE  \E k \in 1 .. n : q \in from[k] + 1 .. to[k]
      BY DEF Covers
    <2>1. q \in 1 .. m
      <3>1. q # m + 1
        OBVIOUS
      <3> QED
        BY <3>1
    <2> QED
      BY <2>1 DEF Layout, Covers
  <1> QED
    BY <1>1, <1>2 DEF Layout

LEMMA AppendIs ==
    ASSUME NEW S, NEW w \in Seq(S), NEW e, NEW n \in Nat, n = Len(w)
    PROVE  /\ Len(Append(w, e)) = n + 1
           /\ \A k \in 1 .. n : Append(w, e)[k] = w[k]
           /\ Append(w, e)[n + 1] = e
  OBVIOUS

(* A character after a space begins a word.                                 *)
LEMMA LayoutBegin ==
    ASSUME NEW S, NEW w \in Seq(S), NEW text, NEW m \in Nat, NEW n \in Nat, NEW from, NEW to,
           Layout(w, text, m, n, from, to), text[m + 1] # Space,
           m # 0 => text[m] = Space
    PROVE  \E f, t : Layout(Append(w, <<text[m + 1]>>), text, m + 1, n + 1, f, t)
  <1> DEFINE f == [k \in 1 .. n + 1 |-> IF k <= n THEN from[k] ELSE m]
             t == [k \in 1 .. n + 1 |-> IF k <= n THEN to[k] ELSE m + 1]
             v == Append(w, <<text[m + 1]>>)
  <1>1. /\ n = Len(w) /\ from \in [1 .. n -> 0 .. m] /\ to \in [1 .. n -> 1 .. m]
        /\ \A k \in 1 .. n : /\ from[k] < to[k]
                             /\ from[k] # 0 => text[from[k]] = Space
                             /\ to[k] < m => text[to[k] + 1] = Space
    BY DEF Layout, Stretch
  <1>2. \A k \in 1 .. n : /\ w[k] = [x \in 1 .. to[k] - from[k] |-> text[from[k] + x]]
                          /\ \A q \in from[k] + 1 .. to[k] : text[q] # Space
    BY DEF Layout, Spells
  <1>3. \A j, k \in 1 .. n : j < k => to[j] < from[k]
    BY DEF Layout, Apart
  <1>4. \A q \in 1 .. m : text[q] # Space => \E k \in 1 .. n : q \in from[k] + 1 .. to[k]
    BY DEF Layout, Covers
  <1>5. \A k \in 1 .. n : to[k] < m
    <2> TAKE k \in 1 .. n
    <2>1. to[k] \in 1 .. m /\ from[k] \in 0 .. m /\ from[k] < to[k]
      BY <1>1
    <2>2. to[k] \in from[k] + 1 .. to[k]
      BY <2>1
    <2>3. text[to[k]] # Space
      BY <1>2, <2>2
    <2>4. to[k] # m
      BY <2>1, <2>3
    <2> QED
      BY <2>1, <2>4
  <1>6. /\ Len(v) = n + 1 /\ v[n + 1] = <<text[m + 1]>>
        /\ \A k \in 1 .. n : v[k] = w[k]
    BY <1>1, AppendIs
  <1>7. /\ f[n + 1] = m /\ t[n + 1] = m + 1
        /\ \A k \in 1 .. n : f[k] = from[k] /\ t[k] = to[k]
    OBVIOUS
  <1>8. f \in [1 .. n + 1 -> 0 .. m + 1] /\ t \in [1 .. n + 1 -> 1 .. m + 1]
    BY <1>1
  <1> HIDE DEF f, t, v
  <1>9. \A k \in 1 .. n + 1 : k \in 1 .. n \/ k = n + 1
    OBVIOUS
  <1>10. Stretch(v, text, m + 1, n + 1, f, t)
    <2>1. ASSUME NEW k \in 1 .. n + 1
          PROVE  /\ f[k] < t[k]
                 /\ f[k] # 0 => text[f[k]] = Space
                 /\ t[k] < m + 1 => text[t[k] + 1] = Space
      <3>1. CASE k \in 1 .. n
        <4>1. f[k] = from[k] /\ t[k] = to[k] /\ to[k] < m
          BY <1>5, <1>7, <3>1
        <4> QED
          BY <1>1, <3>1, <4>1
      <3>2. CASE k = n + 1
        BY <1>7, <3>2
      <3> QED
        BY <1>9, <3>1, <3>2
    <2> QED
      BY <1>6, <1>8, <2>1 DEF Stretch
  <1>11. Spells(v, text, n + 1, f, t)
    <2>1. ASSUME NEW k \in 1 .. n + 1
          PROVE  /\ v[k] = [x \in 1 .. t[k] - f[k] |-> text[f[k] + x]]
                 /\ \A q \in f[k] + 1 .. t[k] : text[q] # Space
      <3>1. CASE k \in 1 .. n
        <4>1. v[k] = w[k] /\ f[k] = from[k] /\ t[k] = to[k]
          BY <1>6, <1>7, <3>1
        <4>2. /\ w[k] = [x \in 1 .. to[k] - from[k] |-> text[from[k] + x]]
              /\ \A q \in from[k] + 1 .. to[k] : text[q] # Space
          BY <1>2, <3>1
        <4> QED
          BY <4>1, <4>2
      <3>2. CASE k = n + 1
        <4>1. t[k] - f[k] = 1 /\ f[k] + 1 = m + 1 /\ t[k] = m + 1 /\ f[k] = m
          BY <1>7, <3>2
        <4>2. <<text[m + 1]>> = [x \in 1 .. 1 |-> text[m + x]]
          OBVIOUS
        <4>3. \A q \in m + 1 .. m + 1 : text[q] # Space
          OBVIOUS
        <4> QED
          BY <1>6, <3>2, <4>1, <4>2, <4>3
      <3> QED
        BY <1>9, <3>1, <3>2
    <2> QED
      BY <2>1 DEF Spells
  <1>12. Apart(n + 1, f, t)
    <2>1. ASSUME NEW j \in 1 .. n + 1, NEW k \in 1 .. n + 1, j < k
          PROVE  t[j] < f[k]
      <3>1. j \in 1 .. n
        BY <2>1
      <3>2. CASE k \in 1 .. n
        BY <1>3, <1>7, <2>1, <3>1, <3>2
      <3>3. CASE k = n + 1
        BY <1>5, <1>7, <3>1, <3>3
      <3> QED
        BY <1>9, <3>2, <3>3
    <2> QED
      BY <2>1 DEF Apart
  <1>13. Covers(text, m + 1, n + 1, f, t)
    <2> SUFFICES ASSUME NEW q \in 1 .. m + 1, text[q] # Space
                 PROVE  \E k \in 1 .. n + 1 : q \in f[k] + 1 .. t[k]
      BY DEF Covers
    <2>1. CASE q \in 1 .. m
      <3>1. PICK k \in 1 .. n : q \in from[k] + 1 .. to[k]
        BY <1>4, <2>1
      <3> QED
        BY <1>7, <3>1
    <2>2. CASE q = m + 1
      BY <1>7, <2>2
    <2> QED
      BY <2>1, <2>2
  <1>14. Layout(v, text, m + 1, n + 1, f, t)
    BY <1>10, <1>11, <1>12, <1>13 DEF Layout
  <1> QED
    BY <1>14 DEF v

(* The last word becomes longer, the others stay.                           *)
Longer(word, c) == Append(word, c)

LEMMA LastIs ==
    ASSUME NEW S, NEW w \in Seq(Seq(S)), NEW n \in Nat, n = Len(w), n > 0, NEW c \in S
    PROVE  /\ Extend(w, c) \in Seq(Seq(S))
           /\ Len(Extend(w, c)) = n
           /\ \A k \in 1 .. n - 1 : Extend(w, c)[k] = w[k]
           /\ Extend(w, c)[n] = Longer(w[n], c)
  <1> DEFINE front == Front(w)
  <1>1. front \in Seq(Seq(S)) /\ Len(front) = n - 1 /\ \A k \in 1 .. n - 1 : front[k] = w[k]
    BY DEF Front
  <1>2. Last(w) = w[n] /\ w[n] \in Seq(S)
    BY DEF Last
  <1>3. PICK e \in Seq(S) : e = Append(Last(w), c)
    <2>1. PICK last \in Seq(S) : last = Last(w)
      BY <1>2
    <2>2. Append(last, c) \in Seq(S)
      OBVIOUS
    <2> QED
      BY <2>1, <2>2
  <1>4. PICK m \in Nat : n = m + 1
    <2>1. n - 1 \in Nat /\ n = (n - 1) + 1
      OBVIOUS
    <2> QED
      BY <2>1
  <1> HIDE DEF front
  <1>5. m = Len(front)
    BY <1>1, <1>4
  <1>6. /\ Len(Append(front, e)) = m + 1
        /\ \A k \in 1 .. m : Append(front, e)[k] = front[k]
        /\ Append(front, e)[m + 1] = e
    BY <1>1, <1>5, AppendIs
  <1>7. Append(front, e) \in Seq(Seq(S))
    BY <1>1
  <1> QED
    BY <1>1, <1>2, <1>3, <1>4, <1>6, <1>7 DEF front, Extend, Longer

(* A character after one that is not a space makes the last word longer.    *)
LEMMA LayoutGrow ==
    ASSUME NEW S, NEW w \in Seq(Seq(S)), NEW text, NEW m \in Nat, NEW n \in Nat,
           NEW from, NEW to, Layout(w, text, m, n, from, to),
           text[m + 1] # Space, text[m + 1] \in S, m # 0, text[m] # Space
    PROVE  /\ n > 0
           /\ \E t : Layout(Extend(w, text[m + 1]),
                            text, m + 1, n, from, t)
  <1> DEFINE t == [to EXCEPT ![n] = m + 1]
             v == Extend(w, text[m + 1])
  <1>1. /\ n = Len(w) /\ from \in [1 .. n -> 0 .. m] /\ to \in [1 .. n -> 1 .. m]
        /\ \A k \in 1 .. n : /\ from[k] < to[k]
                             /\ from[k] # 0 => text[from[k]] = Space
                             /\ to[k] < m => text[to[k] + 1] = Space
    BY DEF Layout, Stretch
  <1>2. \A k \in 1 .. n : /\ w[k] = [x \in 1 .. to[k] - from[k] |-> text[from[k] + x]]
                          /\ \A q \in from[k] + 1 .. to[k] : text[q] # Space
    BY DEF Layout, Spells
  <1>3. \A j, k \in 1 .. n : j < k => to[j] < from[k]
    BY DEF Layout, Apart
  <1>4. \A q \in 1 .. m : text[q] # Space => \E k \in 1 .. n : q \in from[k] + 1 .. to[k]
    BY DEF Layout, Covers
  <1>5. n > 0 /\ to[n] = m
    <2>1. PICK k \in 1 .. n : m \in from[k] + 1 .. to[k]
      BY <1>4
    <2>2. to[k] = m
      <3>1. to[k] \in 1 .. m
        BY <1>1
      <3> QED
        BY <2>1, <3>1
    <2>3. k = n
      <3>1. SUFFICES ASSUME k < n PROVE FALSE
        OBVIOUS
      <3>2. n \in 1 .. n
        BY <3>1
      <3>3. to[k] < from[n] /\ from[n] \in 0 .. m
        BY <1>1, <1>3, <3>1, <3>2
      <3> QED
        BY <2>2, <3>3
    <2> QED
      BY <2>2, <2>3
  <1>6. /\ v \in Seq(Seq(S)) /\ Len(v) = n
        /\ \A k \in 1 .. n - 1 : v[k] = w[k]
        /\ v[n] = Longer(w[n], text[m + 1])
    <2>1. PICK c \in S : c = text[m + 1]
      OBVIOUS
    <2>2. PICK u : u = Extend(w, c)
      OBVIOUS
    <2>3. /\ u \in Seq(Seq(S)) /\ Len(u) = n
          /\ \A k \in 1 .. n - 1 : u[k] = w[k]
          /\ u[n] = Longer(w[n], c)
      <3>1. n = Len(w) /\ n > 0
        BY <1>1, <1>5
      <3>2. Extend(w, c) \in Seq(Seq(S))
        BY <3>1, LastIs
      <3>3. Len(Extend(w, c)) = n
        BY <3>1, LastIs
      <3>4. Extend(w, c)[n] = Longer(w[n], c)
        BY <3>1, LastIs
      <3>5. \A k \in 1 .. n - 1 : Extend(w, c)[k] = w[k]
        BY <3>1, LastIs
      <3> QED
        BY <2>2, <3>2, <3>5, <3>3, <3>4
    <2>4. u = v
      BY <2>2, <2>1
    <2> HIDE DEF v
    <2> QED
      BY <2>1, <2>3, <2>4
  <1>7. /\ t[n] = m + 1 /\ \A k \in 1 .. n - 1 : t[k] = to[k]
        /\ t \in [1 .. n -> 1 .. m + 1] /\ from \in [1 .. n -> 0 .. m + 1]
    BY <1>1, <1>5
  <1>8. \A k \in 1 .. n - 1 : to[k] < m
    <2> TAKE k \in 1 .. n - 1
    <2>1. k \in 1 .. n /\ n \in 1 .. n /\ k < n
      BY <1>5
    <2>2. to[k] < from[n] /\ from[n] \in 0 .. m /\ to[k] \in 1 .. m
      BY <1>1, <1>3, <2>1
    <2> QED
      BY <2>2
  <1> HIDE DEF t, v
  <1>9. \A k \in 1 .. n : k \in 1 .. n - 1 \/ k = n
    OBVIOUS
  <1>10. n \in 1 .. n
    BY <1>5
  <1>11. from[n] \in 0 .. m - 1
    BY <1>1, <1>5, <1>10
  <1>12. Stretch(v, text, m + 1, n, from, t)
    <2>1. ASSUME NEW k \in 1 .. n
          PROVE  /\ from[k] < t[k]
                 /\ from[k] # 0 => text[from[k]] = Space
                 /\ t[k] < m + 1 => text[t[k] + 1] = Space
      <3>1. CASE k \in 1 .. n - 1
        <4>1. t[k] = to[k] /\ to[k] < m
          BY <1>7, <1>8, <3>1
        <4> QED
          BY <1>1, <4>1
      <3>2. CASE k = n
        BY <1>1, <1>7, <1>11, <3>2
      <3> QED
        BY <1>9, <3>1, <3>2
    <2> QED
      BY <1>6, <1>7, <2>1 DEF Stretch
  <1>13. Spells(v, text, n, from, t)
    <2>1. ASSUME NEW k \in 1 .. n
          PROVE  /\ v[k] = [x \in 1 .. t[k] - from[k] |-> text[from[k] + x]]
                 /\ \A q \in from[k] + 1 .. t[k] : text[q] # Space
      <3>1. CASE k \in 1 .. n - 1
        BY <1>2, <1>6, <1>7, <3>1
      <3>2. CASE k = n
        <4>1. PICK b \in 0 .. m - 1 : b = from[n]
          BY <1>11
        <4>2. PICK word \in Seq(S) : word = w[n]
          BY <1>1, <1>10
        <4>3. PICK d \in Nat : d = m - b
          BY <4>1
        <4>4. word = [x \in 1 .. d |-> text[b + x]]
          BY <1>2, <1>5, <1>10, <4>1, <4>2, <4>3
        <4>5. Len(word) = d /\ \A x \in 1 .. d : word[x] = text[b + x]
          <5>1. DOMAIN word = 1 .. d
            BY <4>4
          <5>2. Len(word) = d
            <6>1. PICK len \in Nat : len = Len(word)
              BY <4>2
            <6>2. 1 .. len = 1 .. d
              BY <4>2, <5>1, <6>1
            <6> QED
              BY <4>3, <6>1, <6>2
          <5> QED
            BY <4>4, <5>2
        <4>6. b + (d + 1) = m + 1
          BY <4>1, <4>3
        <4> DEFINE new == Append(word, text[m + 1])
        <4>7. Len(new) = d + 1 /\ (\A x \in 1 .. d : new[x] = word[x]) /\ new[d + 1] = text[m + 1]
              /\ new \in Seq(S)
          <5>1. d = Len(word)
            BY <4>5
          <5> QED
            BY <5>1, AppendIs
        <4> HIDE DEF new
        <4>8. \A x \in 1 .. d + 1 : new[x] = text[b + x]
          <5> TAKE x \in 1 .. d + 1
          <5>1. CASE x \in 1 .. d
            BY <4>5, <4>7, <5>1
          <5>2. CASE x = d + 1
            BY <4>6, <4>7, <5>2
          <5> QED
            BY <4>3, <5>1, <5>2
        <4>9. new = [x \in 1 .. d + 1 |-> text[b + x]]
          <5>1. DOMAIN new = 1 .. d + 1
            BY <4>7
          <5>2. new = [x \in 1 .. d + 1 |-> new[x]]
            BY <4>7, <5>1
          <5> QED
            BY <4>8, <5>2
        <4>10. v[k] = new /\ t[k] - from[k] = d + 1 /\ from[k] = b /\ t[k] = m + 1
          <5>1. v[n] = new
            BY <1>6, <4>2 DEF new, Longer
          <5>2. t[n] = m + 1 /\ from[n] = b /\ (m + 1) - b = d + 1
            BY <1>7, <4>1, <4>3
          <5> QED
            BY <3>2, <5>1, <5>2
        <4>11. \A q \in b + 1 .. m + 1 : text[q] # Space
          <5>1. \A q \in b + 1 .. m : text[q] # Space
            BY <1>2, <1>5, <1>10, <4>1
          <5> QED
            BY <4>1, <5>1
        <4> QED
          BY <4>9, <4>10, <4>11
      <3> QED
        BY <1>9, <3>1, <3>2
    <2> QED
      BY <2>1 DEF Spells
  <1>14. Apart(n, from, t)
    <2>1. ASSUME NEW j \in 1 .. n, NEW k \in 1 .. n, j < k
          PROVE  t[j] < from[k]
      <3>1. j \in 1 .. n - 1
        BY <2>1
      <3> QED
        BY <1>3, <1>7, <2>1, <3>1
    <2> QED
      BY <2>1 DEF Apart
  <1>15. Covers(text, m + 1, n, from, t)
    <2> SUFFICES ASSUME NEW q \in 1 .. m + 1, text[q] # Space
                 PROVE  \E k \in 1 .. n : q \in from[k] + 1 .. t[k]
      BY DEF Covers
    <2>1. CASE q \in 1 .. m
      <3>1. PICK k \in 1 .. n : q \in from[k] + 1 .. to[k]
        BY <1>4, <2>1
      <3>2. to[k] <= t[k] /\ t[k] \in Nat /\ to[k] \in Nat /\ from[k] \in Nat
        <4>1. to[k] \in 1 .. m /\ from[k] \in 0 .. m
          BY <1>1
        <4>2. t[k] = to[k] \/ t[k] = m + 1
          <5>1. k \in 1 .. n - 1 \/ k = n
            BY <1>9
          <5> QED
            BY <1>7, <5>1
        <4> QED
          BY <4>1, <4>2
      <3>3. q \in from[k] + 1 .. t[k]
        <4>1. q \in Nat /\ q >= from[k] + 1 /\ q <= to[k]
          BY <3>1, <3>2
        <4> QED
          BY <3>2, <4>1
      <3> QED
        BY <3>3
    <2>2. CASE q = m + 1
      <3>1. q \in from[n] + 1 .. t[n]
        BY <1>7, <1>11, <2>2
      <3> QED
        BY <1>10, <3>1
    <2> QED
      BY <2>1, <2>2
  <1>16. Layout(v, text, m + 1, n, from, t)
    BY <1>12, <1>13, <1>14, <1>15 DEF Layout
  <1> QED
    BY <1>5, <1>16 DEF v

(* The words of a whole text.                                               *)
(* Hence the words have a layout, however long the text is.                 *)
LEMMA LayoutExists ==
    ASSUME NEW S, NEW text, NEW m \in Nat, \A k \in 1 .. m : text[k] \in S,
           NEW words, Grows(words, text, m)
    PROVE  /\ words[m] \in Seq(Seq(S))
           /\ \E from, to : Layout(words[m], text, m, Len(words[m]), from, to)
  <1> DEFINE Laid == {k \in Nat : k <= m =>
                         /\ words[k] \in Seq(Seq(S))
                         /\ \E from, to : Layout(words[k], text, k, Len(words[k]), from, to)}
  <1>1. 0 \in Laid
    <2>1. words[0] = <<>>
      BY DEF Grows
    <2> DEFINE none == [k \in 1 .. 0 |-> 0]
    <2>2. Layout(<<>>, text, 0, 0, none, none)
      BY DEF Layout, Stretch, Spells, Apart, Covers
    <2>3. Len(<<>>) = 0 /\ <<>> \in Seq(Seq(S))
      OBVIOUS
    <2> HIDE DEF none
    <2>4. \E from, to : Layout(<<>>, text, 0, 0, from, to)
      BY <2>2
    <2> QED
      BY <2>1, <2>3, <2>4
  <1>2. ASSUME NEW k \in Nat, k \in Laid
        PROVE  k + 1 \in Laid
    <2> SUFFICES ASSUME k + 1 <= m
                 PROVE  /\ words[k + 1] \in Seq(Seq(S))
                        /\ \E from, to : Layout(words[k + 1], text, k + 1, Len(words[k + 1]), from, to)
      OBVIOUS
    <2>1. PICK w \in Seq(Seq(S)) : w = words[k]
      BY <1>2
    <2>2. PICK n \in Nat : n = Len(w)
      OBVIOUS
    <2>3. \E from, to : Layout(w, text, k, n, from, to)
      BY <1>2, <2>1, <2>2
    <2>4. PICK from, to : Layout(w, text, k, n, from, to)
      BY <2>3
    <2>5. words[k + 1] =
             IF text[k + 1] = Space THEN w
             ELSE IF k + 1 = 1 \/ text[k] = Space THEN Append(w, <<text[k + 1]>>)
             ELSE Extend(w, text[k + 1])
      <3>1. k + 1 \in 0 .. m /\ k + 1 # 0 /\ (k + 1) - 1 = k
        OBVIOUS
      <3> QED
        BY <2>1, <3>1 DEF Grows
    <2>6. text[k + 1] \in S
      OBVIOUS
    <2>7. CASE text[k + 1] = Space
      <3>1. Layout(w, text, k + 1, n, from, to)
        BY <2>4, <2>7, LayoutSpace
      <3>2. words[k + 1] = w
        BY <2>5, <2>7
      <3> QED
        BY <2>2, <3>1, <3>2
    <2>8. CASE text[k + 1] # Space /\ (k = 0 \/ text[k] = Space)
      <3> DEFINE v == Append(w, <<text[k + 1]>>)
      <3>1. \E f, t : Layout(v, text, k + 1, n + 1, f, t)
        BY <2>4, <2>8, LayoutBegin
      <3>2. words[k + 1] = v
        BY <2>5, <2>8
      <3>3. v \in Seq(Seq(S)) /\ Len(v) = n + 1
        <4>1. PICK c \in S : c = text[k + 1]
          BY <2>6
        <4>2. PICK e \in Seq(S) : e = <<c>>
          <5>1. <<c>> \in Seq(S)
            OBVIOUS
          <5> QED
            BY <5>1
        <4>3. v = Append(w, e)
          BY <4>1, <4>2
        <4>4. Append(w, e) \in Seq(Seq(S)) /\ Len(Append(w, e)) = n + 1
          BY <2>2
        <4> HIDE DEF v
        <4> QED
          BY <4>3, <4>4
      <3> HIDE DEF v
      <3> QED
        BY <3>1, <3>2, <3>3
    <2>9. CASE text[k + 1] # Space /\ ~(k = 0 \/ text[k] = Space)
      <3> DEFINE v == Extend(w, text[k + 1])
      <3>1. n > 0 /\ \E t : Layout(v, text, k + 1, n, from, t)
        BY <2>4, <2>6, <2>9, LayoutGrow
      <3>2. words[k + 1] = v
        BY <2>5, <2>9
      <3>3. v \in Seq(Seq(S)) /\ Len(v) = n
        BY <2>2, <2>6, <3>1, LastIs
      <3> HIDE DEF v
      <3> QED
        BY <3>1, <3>2, <3>3
    <2> QED
      BY <2>7, <2>8, <2>9
  <1> HIDE DEF Laid
  <1>3. \A k \in Nat : k \in Laid
    BY <1>1, <1>2, Induction
  <1> QED
    BY <1>3 DEF Laid

(* The string that begins at a place of a memory ends before its first NUL. *)
StringIn(memory, p) ==
    LET end == CHOOSE q \in p .. BufferSize :
                  /\ q = BufferSize \/ memory[q] = NUL
                  /\ \A r \in p .. q - 1 : memory[r] # NUL
    IN  [k \in 1 .. end - p |-> memory[p + k - 1]]

LEMMA StringIs ==
    ASSUME NEW memory, NEW p \in Places, NEW q \in p .. BufferSize,
           q = BufferSize \/ memory[q] = NUL,
           \A r \in p .. q - 1 : memory[r] # NUL
    PROVE  StringIn(memory, p) = [k \in 1 .. q - p |-> memory[p + k - 1]]
  <1> DEFINE Ends(e) == /\ e = BufferSize \/ memory[e] = NUL
                        /\ \A r \in p .. e - 1 : memory[r] # NUL
             end == CHOOSE e \in p .. BufferSize : Ends(e)
  <1>1. p \in Nat /\ BufferSize \in Nat /\ q \in Nat
    BY ConsoleAssumption DEF Places
  <1>2. Ends(q)
    OBVIOUS
  <1>3. end \in p .. BufferSize /\ Ends(end)
    <2> HIDE DEF Ends
    <2> QED
      BY <1>2
  <1>4. end = q
    <2> HIDE DEF end
    <2>1. ~(end < q)
      <3> SUFFICES ASSUME end < q PROVE FALSE
        OBVIOUS
      <3>1. end \in p .. q - 1 /\ end # BufferSize
        BY <1>1, <1>3
      <3> QED
        BY <1>3, <3>1
    <2>2. ~(q < end)
      <3> SUFFICES ASSUME q < end PROVE FALSE
        OBVIOUS
      <3>1. q \in p .. end - 1 /\ q # BufferSize
        BY <1>1, <1>3
      <3> QED
        BY <1>3, <3>1
    <2> QED
      BY <1>1, <1>3, <2>1, <2>2
  <1>5. StringIn(memory, p) = [k \in 1 .. end - p |-> memory[p + k - 1]]
    BY DEF StringIn
  <1> HIDE DEF end
  <1> QED
    BY <1>4, <1>5

(* The words begin where the line has its starts, in their order.           *)
Line(text, m) ==
    /\ m \in Places /\ i = m /\ buf[m] = NUL
    /\ \A k \in 1 .. m : buf[k - 1] = text[k] /\ text[k] # NUL

LEMMA LineLength ==
    ASSUME NEW text, NEW m, Line(text, m)
    PROVE  Len(StringAt(0)) = m /\ m \in Nat
  <1>1. m \in Nat /\ m <= BufferSize /\ 0 \in Places /\ BufferSize \in Nat
    BY ConsoleAssumption DEF Line, Places
  <1>2. \A r \in 0 .. m - 1 : buf[r] # NUL
    <2> TAKE r \in 0 .. m - 1
    <2>1. r + 1 \in 1 .. m /\ (r + 1) - 1 = r
      BY <1>1
    <2> QED
      BY <2>1 DEF Line
  <1>3. StringIn(buf, 0) = [k \in 1 .. m - 0 |-> buf[0 + k - 1]]
    <2>1. m \in 0 .. BufferSize
      BY <1>1
    <2>2. buf[m] = NUL
      BY DEF Line
    <2> QED
      BY <1>1, <1>2, <2>1, <2>2, StringIs
  <1>4. StringAt(0) = StringIn(buf, 0)
    BY DEF StringAt, StringIn
  <1>5. Len([k \in 1 .. m |-> buf[0 + k - 1]]) = m
    BY <1>1
  <1>6. m - 0 = m
    BY <1>1
  <1> QED
    BY <1>1, <1>3, <1>4, <1>5, <1>6

Firsts(from, c) == {from[k] : k \in 1 .. c}

LEMMA StartsAre ==
    ASSUME NEW w, NEW text, NEW m, NEW n \in Nat, NEW from, NEW to,
           Line(text, m), Layout(w, text, m, n, from, to)
    PROVE  Starts = Firsts(from, n)
  <1>1. Len(StringAt(0)) = m /\ m \in Nat
    BY LineLength
  <1>2. /\ from \in [1 .. n -> 0 .. m] /\ to \in [1 .. n -> 1 .. m]
        /\ \A k \in 1 .. n : /\ from[k] < to[k]
                             /\ from[k] # 0 => text[from[k]] = Space
    BY DEF Layout, Stretch
  <1>3. \A k \in 1 .. n : \A q \in from[k] + 1 .. to[k] : text[q] # Space
    BY DEF Layout, Spells
  <1>4. \A q \in 1 .. m : text[q] # Space => \E k \in 1 .. n : q \in from[k] + 1 .. to[k]
    BY DEF Layout, Covers
  <1>5. m \in Places /\ BufferSize \in Nat /\ \A k \in 1 .. m : buf[k - 1] = text[k]
    BY ConsoleAssumption DEF Line
  <1>6. ASSUME NEW k \in 1 .. n
        PROVE  from[k] \in Starts
    <2>1. PICK p \in 0 .. m : p = from[k]
      BY <1>2
    <2>2. p < m /\ p + 1 \in p + 1 .. to[k] /\ p + 1 \in 1 .. m
      <3>1. to[k] \in 1 .. m /\ p < to[k]
        BY <1>2, <2>1
      <3> QED
        BY <1>1, <2>1, <3>1
    <2>3. buf[p] # Space
      <3>1. text[p + 1] # Space
        BY <1>3, <2>1, <2>2
      <3>2. buf[(p + 1) - 1] = text[p + 1] /\ (p + 1) - 1 = p
        BY <1>5, <2>2
      <3> QED
        BY <3>1, <3>2
    <2>4. p > 0 => buf[p - 1] = Space
      <3> SUFFICES ASSUME p > 0 PROVE buf[p - 1] = Space
        OBVIOUS
      <3>1. p # 0 /\ p \in 1 .. m
        BY <1>1
      <3>2. text[p] = Space
        BY <1>2, <2>1, <3>1
      <3> QED
        BY <1>5, <3>1, <3>2
    <2>5. p \in Places
      BY <1>1, <1>5, <2>2 DEF Places
    <2> QED
      BY <1>1, <2>1, <2>2, <2>3, <2>4, <2>5 DEF Starts, Begins
  <1>7. ASSUME NEW p \in Starts
        PROVE  \E k \in 1 .. n : p = from[k]
    <2>1. p \in Nat /\ p < m /\ buf[p] # Space /\ (p > 0 => buf[p - 1] = Space)
      BY <1>1 DEF Starts, Begins, Places
    <2>2. p + 1 \in 1 .. m /\ text[p + 1] # Space
      <3>1. p + 1 \in 1 .. m /\ (p + 1) - 1 = p
        BY <1>1, <2>1
      <3>2. buf[(p + 1) - 1] = text[p + 1]
        BY <1>5, <3>1
      <3> QED
        BY <2>1, <3>1, <3>2
    <2>3. PICK k \in 1 .. n : p + 1 \in from[k] + 1 .. to[k]
      BY <1>4, <2>2
    <2>4. PICK f \in 0 .. m : f = from[k]
      BY <1>2
    <2>5. PICK t \in 1 .. m : t = to[k]
      BY <1>2
    <2>6. p + 1 \in f + 1 .. t
      BY <2>3, <2>4, <2>5
    <2>7. ~(f < p)
      <3> SUFFICES ASSUME f < p PROVE FALSE
        OBVIOUS
      <3>1. p > 0 /\ p \in f + 1 .. t /\ p \in 1 .. m
        BY <1>1, <2>1, <2>6
      <3>2. text[p] # Space
        BY <1>3, <2>4, <2>5, <3>1
      <3>3. buf[p - 1] = text[p]
        BY <1>5, <3>1
      <3> QED
        BY <2>1, <3>1, <3>2, <3>3
    <2>8. p = f
      BY <2>1, <2>6, <2>7
    <2> QED
      BY <2>4, <2>8
  <1> QED
    BY <1>6, <1>7 DEF Firsts

(* Counting the starts.                                                     *)
LEMMA Ascending ==
    ASSUME NEW n \in Nat, NEW m \in Nat, NEW from \in [1 .. n -> 0 .. m],
           NEW to \in [1 .. n -> 1 .. m],
           \A k \in 1 .. n : from[k] < to[k], Apart(n, from, to)
    PROVE  \A j, k \in 1 .. n : j < k => from[j] < from[k]
  <1> SUFFICES ASSUME NEW j \in 1 .. n, NEW k \in 1 .. n, j < k
               PROVE  from[j] < from[k]
    OBVIOUS
  <1>1. to[j] < from[k]
    BY DEF Apart
  <1>2. from[j] < to[j] /\ from[j] \in 0 .. m /\ to[j] \in 1 .. m /\ from[k] \in 0 .. m
    OBVIOUS
  <1> QED
    BY <1>1, <1>2

LEMMA Counted ==
    ASSUME NEW m \in Nat, NEW n \in Nat, NEW from \in [1 .. n -> 0 .. m],
           \A j, k \in 1 .. n : j < k => from[j] < from[k],
           NEW c \in 0 .. n
    PROVE  Cardinality(Firsts(from, c)) = c
  <1>1. PICK T : T = Firsts(from, c)
    OBVIOUS
  <1> DEFINE g == [k \in 1 .. c |-> from[k]]
  <1>2. g \in [1 .. c -> T]
    BY <1>1 DEF Firsts
  <1>3. \A j, k \in 1 .. c : g[j] = g[k] => j = k
    <2> TAKE j, k \in 1 .. c
    <2>1. j \in 1 .. n /\ k \in 1 .. n
      OBVIOUS
    <2>2. from[j] \in 0 .. m /\ from[k] \in 0 .. m
      BY <2>1
    <2>3. from[j] = from[k] => ~(j < k) /\ ~(k < j)
      BY <2>1, <2>2
    <2> QED
      BY <2>1, <2>3
  <1>4. \A t \in T : \E k \in 1 .. c : g[k] = t
    BY <1>1 DEF Firsts
  <1> HIDE DEF g
  <1>5. g \in Bijection(1 .. c, T)
    BY <1>2, <1>3, <1>4 DEF Bijection, Injection, IsInjective, Surjection
  <1>6. ExistsBijection(1 .. c, T)
    BY <1>5 DEF ExistsBijection
  <1> QED
    BY <1>1, <1>6, FS_CountingElements

LEMMA RanksAre ==
    ASSUME NEW w, NEW text, NEW m, NEW n \in Nat, NEW from, NEW to,
           Line(text, m), Layout(w, text, m, n, from, to)
    PROVE  /\ Cardinality(Starts) = n
           /\ \A k \in 1 .. n : Rank(from[k]) = k - 1
  <1>1. Starts = {from[k] : k \in 1 .. n}
    BY StartsAre DEF Firsts
  <1>2. m \in Nat
    BY LineLength
  <1>3. \A j, k \in 1 .. n : j < k => from[j] < from[k]
    <2>1. /\ from \in [1 .. n -> 0 .. m] /\ to \in [1 .. n -> 1 .. m]
          /\ \A k \in 1 .. n : from[k] < to[k]
          /\ Apart(n, from, to)
      BY DEF Layout, Stretch
    <2> QED
      BY <1>2, <2>1, Ascending
  <1>4. from \in [1 .. n -> 0 .. m]
    BY DEF Layout, Stretch
  <1>5. Cardinality(Starts) = n
    <2>1. n \in 0 .. n
      OBVIOUS
    <2>2. Starts = Firsts(from, n)
      BY <1>1 DEF Firsts
    <2> QED
      BY <1>2, <1>3, <1>4, <2>1, <2>2, Counted
  <1>6. ASSUME NEW k \in 1 .. n
        PROVE  Rank(from[k]) = k - 1
    <2> DEFINE T == {q \in Starts : q < from[k]}
    <2>1. T = {from[j] : j \in 1 .. k - 1}
      <3>1. ASSUME NEW j \in 1 .. k - 1 PROVE from[j] \in T
        <4>1. j \in 1 .. n /\ j < k
          OBVIOUS
        <4> QED
          BY <1>1, <1>3, <4>1
      <3>2. ASSUME NEW q \in T PROVE \E j \in 1 .. k - 1 : q = from[j]
        <4>1. PICK j \in 1 .. n : q = from[j]
          BY <1>1
        <4>2. from[j] < from[k]
          BY <4>1
        <4>3. ~(k < j) /\ k # j
          <5>1. from[j] \in 0 .. m /\ from[k] \in 0 .. m
            BY <1>4
          <5>2. k < j => from[k] < from[j]
            BY <1>3
          <5> QED
            BY <1>2, <4>2, <5>1, <5>2
        <4>4. j \in 1 .. k - 1
          BY <4>3
        <4> QED
          BY <4>1, <4>4
      <3> HIDE DEF T
      <3> QED
        BY <3>1, <3>2
    <2> HIDE DEF T
    <2>2. PICK c \in 0 .. n : c = k - 1
      OBVIOUS
    <2>3. T = Firsts(from, c)
      BY <2>1, <2>2 DEF Firsts
    <2>4. Cardinality(T) = c
      BY <1>2, <1>3, <1>4, <2>3, Counted
    <2>5. Cardinality(T) = k - 1
      BY <2>2, <2>4
    <2> QED
      BY <2>5 DEF Rank, T
  <1> QED
    BY <1>5, <1>6

(* Tokenizing leaves each word that argv may point to as a string.          *)
LEMMA WordStays ==
    ASSUME NEW w, NEW text, NEW m, NEW n \in Nat, NEW from, NEW to,
           Line(text, m), Layout(w, text, m, n, from, to), Tokenize,
           NEW k \in 1 .. n, k <= MaxArgc
    PROVE  StringIn(buf', from[k]) = w[k]
  <1>1. Len(StringAt(0)) = m /\ m \in Nat
    BY LineLength
  <1>2. PICK p \in 0 .. m : p = from[k]
    BY DEF Layout, Stretch
  <1>3. PICK e \in 1 .. m : e = to[k]
    BY DEF Layout, Stretch
  <1>4. p < e /\ (e < m => text[e + 1] = Space)
    BY <1>2, <1>3 DEF Layout, Stretch
  <1>5. /\ w[k] = [x \in 1 .. e - p |-> text[p + x]]
        /\ \A q \in p + 1 .. e : text[q] # Space
    BY <1>2, <1>3 DEF Layout, Spells
  <1>6. /\ m \in Places /\ buf[m] = NUL /\ BufferSize \in Nat /\ m < BufferSize /\ MaxArgc \in Nat
        /\ \A j \in 1 .. m : buf[j - 1] = text[j] /\ text[j] # NUL
    BY ConsoleAssumption DEF Line, Places
  <1>7. \A q \in Places : buf'[q] = IF CutAfter(q) THEN NUL ELSE buf[q]
    BY DEF Tokenize
  <1>8. \A r \in p .. e - 1 : buf[r] = text[r + 1] /\ buf[r] # Space /\ buf[r] # NUL
    <2> TAKE r \in p .. e - 1
    <2>1. r + 1 \in 1 .. m /\ r + 1 \in p + 1 .. e /\ (r + 1) - 1 = r
      BY <1>1
    <2>2. buf[(r + 1) - 1] = text[r + 1] /\ text[r + 1] # NUL
      BY <1>6, <2>1
    <2> QED
      BY <1>5, <2>1, <2>2
  <1>9. \A r \in p .. e - 1 : buf'[r] = text[r + 1] /\ buf'[r] # NUL
    <2> TAKE r \in p .. e - 1
    <2>1. r \in Places
      BY <1>1, <1>6 DEF Places
    <2>2. ~CutAfter(r)
      BY <1>8 DEF CutAfter
    <2> QED
      BY <1>7, <1>8, <2>1, <2>2
  <1>10. buf'[e] = NUL
    <2>1. e \in Places
      BY <1>1, <1>6 DEF Places
    <2>2. CASE e = m
      BY <1>6, <1>7, <2>1, <2>2
    <2>3. CASE e < m
      <3>1. buf[e] = Space
        <4>1. e + 1 \in 1 .. m /\ (e + 1) - 1 = e
          BY <1>1, <2>3
        <4>2. buf[(e + 1) - 1] = text[e + 1]
          BY <1>6, <4>1
        <4> QED
          BY <1>4, <2>3, <4>1, <4>2
      <3>2. buf[e - 1] # Space
        <4>1. e - 1 \in p .. e - 1
          BY <1>4
        <4> QED
          BY <1>8, <4>1
      <3>3. p \in Starts
        BY <1>2, StartsAre DEF Firsts
      <3>4. Rank(p) <= MaxArgc
        <4>1. Rank(p) = k - 1
          BY <1>2, RanksAre
        <4> QED
          BY <1>6, <4>1
      <3>5. CutAfter(e)
        BY <1>1, <1>4, <1>8, <2>3, <3>1, <3>2, <3>3, <3>4 DEF CutAfter
      <3> QED
        BY <1>7, <2>1, <3>5
    <2> QED
      BY <1>1, <2>2, <2>3
  <1>11. p \in Places /\ e \in p .. BufferSize
    BY <1>1, <1>4, <1>6 DEF Places
  <1>12. StringIn(buf', p) = [x \in 1 .. e - p |-> buf'[p + x - 1]]
    <2>1. \A r \in p .. e - 1 : buf'[r] # NUL
      BY <1>9
    <2> QED
      BY <1>10, <1>11, <2>1, StringIs
  <1>13. \A x \in 1 .. e - p : buf'[p + x - 1] = text[p + x]
    <2> TAKE x \in 1 .. e - p
    <2>1. p + x - 1 \in p .. e - 1 /\ (p + x - 1) + 1 = p + x
      OBVIOUS
    <2> QED
      BY <1>9, <2>1
  <1> QED
    BY <1>2, <1>5, <1>12, <1>13

(* argv points to the first words of the line.                              *)
ArgvKept == DOMAIN argv = 0 .. MaxArgc - 1

LEMMA ArgvIs ==
    ASSUME NEW w, NEW text, NEW m, NEW n \in Nat, NEW from, NEW to,
           Line(text, m), Layout(w, text, m, n, from, to), Tokenize,
           ArgvKept
    PROVE  /\ argc' = IF n < MaxArgc THEN n ELSE MaxArgc
           /\ \A k \in Nat : k < argc' => argv'[k] = from[k + 1]
  <1>1. argc' = IF n < MaxArgc THEN n ELSE MaxArgc
    <2>1. Cardinality(Starts) = n
      BY RanksAre
    <2> QED
      BY <2>1 DEF Tokenize
  <1>2. MaxArgc \in Nat /\ argc' \in Nat /\ argc' <= n /\ argc' <= MaxArgc
    BY <1>1, ConsoleAssumption
  <1>3. ASSUME NEW k \in Nat, k < argc'
        PROVE  argv'[k] = from[k + 1]
    <2>1. k + 1 \in 1 .. n /\ k \in 0 .. MaxArgc - 1 /\ k < argc' /\ k \in Nat
      BY <1>2, <1>3
    <2>2. argv'[k] = CHOOSE p \in Starts : Rank(p) = k
      <3>1. argv' = [x \in DOMAIN argv |->
                        IF x < argc' THEN CHOOSE p \in Starts : Rank(p) = x ELSE argv[x]]
        BY DEF Tokenize
      <3>2. k \in DOMAIN argv /\ k < argc'
        BY <2>1 DEF ArgvKept
      <3> QED
        BY <3>1, <3>2, Zenon
    <2>3. from[k + 1] \in Starts /\ Rank(from[k + 1]) = k
      <3>1. PICK j \in 1 .. n : j = k + 1
        BY <2>1
      <3>2. from[j] \in Starts
        BY StartsAre DEF Firsts
      <3>3. Rank(from[j]) = j - 1
        BY RanksAre
      <3> QED
        BY <3>1, <3>2, <3>3
    <2>4. ASSUME NEW p \in Starts, Rank(p) = k
          PROVE  p = from[k + 1]
      <3>1. PICK j \in 1 .. n : p = from[j]
        BY StartsAre DEF Firsts
      <3>2. Rank(p) = j - 1
        BY <3>1, RanksAre
      <3>3. j = k + 1
        BY <2>1, <2>4, <3>2
      <3> QED
        BY <3>1, <3>3
    <2>5. argv'[k] \in Starts /\ Rank(argv'[k]) = k
      <3> DEFINE Chosen(p) == Rank(p) = k
      <3>1. argv'[k] = CHOOSE p \in Starts : Chosen(p)
        BY <2>2
      <3>2. \E p \in Starts : Chosen(p)
        BY <2>3
      <3> HIDE DEF Chosen
      <3>3. argv'[k] \in Starts /\ Chosen(argv'[k])
        BY <3>1, <3>2
      <3> QED
        BY <3>3 DEF Chosen
    <2> QED
      BY <2>4, <2>5
  <1> QED
    BY <1>1, <1>3

(* The programs look at no more arguments than there are.                   *)
LEMMA CallsAgree ==
    ASSUME NEW n \in Nat, NEW a, NEW b, NEW spi, \A k \in 0 .. n - 1 : a[k] = b[k]
    PROVE  Calls(n, a, spi) = Calls(n, b, spi)
  <1>1. /\ n > 0 => a[0] = b[0]
        /\ ~(n < 2) => a[1] = b[1]
        /\ (n > 2 => a[2] = b[2]) /\ (~(n < 3) => a[2] = b[2])
        /\ (n > 3 => a[3] = b[3]) /\ (~(n < 4) => a[3] = b[3])
        /\ ~(n < 5) => a[4] = b[4]
    OBVIOUS
  <1>2. prog_test(n, a) = prog_test(n, b)
    BY <1>1 DEF prog_test
  <1>3. prog_led(n, a) = prog_led(n, b)
    BY <1>1 DEF prog_led
  <1>4. prog_sf(n, a, spi) = prog_sf(n, b, spi)
    BY <1>1 DEF prog_sf, Length
  <1>5. prog_i2c(n, a) = prog_i2c(n, b)
    BY <1>1 DEF prog_i2c
  <1> QED
    BY <1>1, <1>2, <1>3, <1>4, <1>5 DEF Calls

(* What Overwritten leaves of the cells.                                    *)
IsOverwritten(new, cells, n, c) ==
    new = Append(SubSeq(cells, 1, n), c) \o SubSeq(cells, n + 2, Len(cells))

HasOverwritten(new, cells, n, c) ==
    /\ new \in Seq(STRING) /\ Len(new) >= n + 1
    /\ \A k \in 1 .. n : new[k] = cells[k]
    /\ new[n + 1] = c

LEMMA OverwriteKeeps ==
    ASSUME NEW cells \in Seq(STRING), NEW n \in Nat, n <= Len(cells), NEW c \in STRING,
           NEW new, IsOverwritten(new, cells, n, c)
    PROVE  HasOverwritten(new, cells, n, c)
  <1> DEFINE front == SubSeq(cells, 1, n)  back == SubSeq(cells, n + 2, Len(cells))
  <1>1. PICK len \in Nat : len = Len(cells)
    OBVIOUS
  <1>2. \A k \in 1 .. len : cells[k] \in STRING
    BY <1>1
  <1>3. /\ front \in Seq(STRING)
        /\ Len(front) = IF 1 <= n THEN n - 1 + 1 ELSE 0
        /\ \A k \in 1 .. n - 1 + 1 : front[k] = cells[1 + k - 1]
    <2>1. \A k \in 1 .. n : cells[k] \in STRING
      BY <1>1, <1>2
    <2> QED
      BY <2>1, SubSeqProperties
  <1>4. Len(front) = n /\ \A k \in 1 .. n : front[k] = cells[k]
    <2>1. n - 1 + 1 = n /\ \A k \in 1 .. n : 1 + k - 1 = k
      OBVIOUS
    <2> HIDE DEF front
    <2> QED
      BY <1>3, <2>1
  <1>5. back \in Seq(STRING)
    <2>1. \A k \in n + 2 .. len : cells[k] \in STRING
      BY <1>2
    <2>2. n + 2 \in Int /\ len \in Int
      OBVIOUS
    <2>3. SubSeq(cells, n + 2, len) \in Seq(STRING)
      BY <2>1, <2>2, SubSeqProperties
    <2> QED
      BY <1>1, <2>3
  <1>6. new = Append(front, c) \o back
    BY DEF IsOverwritten
  <1> HIDE DEF front, back
  <1>7. PICK b \in Seq(STRING) : b = Append(front, c)
    <2>1. Append(front, c) \in Seq(STRING)
      BY <1>3, AppendProperties
    <2> QED
      BY <2>1
  <1>8. Len(b) = n + 1 /\ b[n + 1] = c /\ \A k \in 1 .. n : b[k] = front[k]
    <2>1. n = Len(front)
      BY <1>4
    <2>2. PICK s \in Seq(STRING) : s = front
      BY <1>3
    <2>3. n = Len(s) /\ b = Append(s, c)
      BY <1>7, <2>1, <2>2
    <2>4. Len(b) = n + 1 /\ b[n + 1] = c
      BY <2>3, AppendIs
    <2>5. \A k \in 1 .. n : b[k] = s[k]
      BY <2>3, AppendIs
    <2> QED
      BY <2>2, <2>4, <2>5
  <1>9. new = b \o back
    BY <1>7, <1>6
  <1>10. new \in Seq(STRING) /\ Len(new) >= Len(b) /\ \A k \in 1 .. Len(b) : new[k] = b[k]
    <2>1. PICK l1 \in Nat : l1 = Len(b)
      OBVIOUS
    <2>2. PICK l2 \in Nat : l2 = Len(back)
      BY <1>5
    <2>3. /\ new \in Seq(STRING) /\ Len(new) = l1 + l2
          /\ \A k \in 1 .. l1 + l2 : new[k] = IF k <= l1 THEN b[k] ELSE back[k - l1]
      <3>1. b \o back \in Seq(STRING)
        BY <1>5, ConcatProperties
      <3>2. Len(b \o back) = Len(b) + Len(back)
        BY <1>5, ConcatProperties
      <3>3. \A k \in 1 .. Len(b) + Len(back) :
               (b \o back)[k] = IF k <= Len(b) THEN b[k] ELSE back[k - Len(b)]
        BY <1>5, ConcatProperties
      <3> QED
        BY <1>9, <2>1, <2>2, <3>1, <3>2, <3>3
    <2>4. l1 + l2 >= l1 /\ \A k \in 1 .. l1 : k \in 1 .. l1 + l2 /\ k <= l1
      OBVIOUS
    <2> QED
      BY <2>1, <2>3, <2>4
  <1>11. \A k \in 1 .. n + 1 : new[k] = b[k]
    BY <1>8, <1>10
  <1>12. n + 1 \in 1 .. n + 1 /\ \A k \in 1 .. n : k \in 1 .. n + 1
    OBVIOUS
  <1> QED
    BY <1>4, <1>8, <1>10, <1>11, <1>12 DEF HasOverwritten

(* The words shown are grown from the cells.                                *)
LEMMA WordsAre ==
    ASSUME NEW m \in Nat, screen.cursor = m
    PROVE  \E words : Grows(words, screen.cells, m) /\ WordsShown = words[m]
  <1> DEFINE cells == screen.cells
             chosen == CHOOSE words : Grows(words, cells, m)
  <1>1. \E words : Grows(words, cells, m)
    BY GrowsExists
  <1>2. Grows(chosen, cells, m)
    BY <1>1
  <1>3. WordsShown = chosen[m]
    BY DEF WordsShown, Grows, Extend
  <1> QED
    BY <1>2, <1>3

(* The line and the screen show the same, and argv points to what they show.*)
OnScreen ==
    /\ screen \in [cells : Seq(STRING), cursor : Nat]
    /\ screen.cursor = i /\ i <= Len(screen.cells)
    /\ \A k \in 1 .. i : buf[k - 1] = screen.cells[k] /\ screen.cells[k] # NUL
Told ==
    /\ WordsShown \in Seq(Seq(STRING))
    /\ argc = IF Len(WordsShown) < MaxArgc THEN Len(WordsShown) ELSE MaxArgc
    /\ \A k \in Nat : k < argc => StringIn(buf, argv[k]) = WordsShown[k + 1]
ShownInv ==
    /\ ArgvKept
    /\ pc = "gets" => typed \in Seq(STRING \ {NUL})
    /\ pc \in {"gets", "tokenize"} /\ ~dropped => OnScreen
    /\ pc = "tokenize" => buf[i] = NUL
    /\ pc = "dispatch" /\ ~dropped => Told

(* Tokenizing turns what is shown into the arguments.                       *)
LEMMA TokenizeTells ==
    ASSUME LineInv, ArgvKept, OnScreen, buf[i] = NUL, Tokenize
    PROVE  Told'
  <1>1. PICK m \in Nat : m = i
    BY DEF LineInv, Places
  <1>2. PICK cells \in Seq(STRING) : cells = screen.cells
    BY DEF OnScreen
  <1>3. /\ screen.cursor = m /\ m <= Len(cells)
        /\ \A k \in 1 .. m : buf[k - 1] = cells[k] /\ cells[k] # NUL
    BY <1>1, <1>2 DEF OnScreen
  <1>4. PICK words : Grows(words, cells, m) /\ WordsShown = words[m]
    BY <1>2, <1>3, WordsAre
  <1>5. /\ words[m] \in Seq(Seq(STRING))
        /\ \E from, to : Layout(words[m], cells, m, Len(words[m]), from, to)
    <2>1. \A k \in 1 .. m : cells[k] \in STRING
      BY <1>3
    <2> QED
      BY <1>4, <2>1, LayoutExists
  <1>6. PICK w \in Seq(Seq(STRING)) : w = words[m]
    BY <1>5
  <1>7. PICK n \in Nat : n = Len(w)
    OBVIOUS
  <1>8. PICK from, to : Layout(w, cells, m, n, from, to)
    BY <1>5, <1>6, <1>7
  <1>9. Line(cells, m)
    BY <1>1, <1>3 DEF LineInv, Line
  <1>10. /\ argc' = IF n < MaxArgc THEN n ELSE MaxArgc
         /\ \A k \in Nat : k < argc' => argv'[k] = from[k + 1]
    <2>1. argc' = IF n < MaxArgc THEN n ELSE MaxArgc
      BY <1>8, <1>9, ArgvIs
    <2>2. \A k \in Nat : k < argc' => argv'[k] = from[k + 1]
      BY <1>8, <1>9, ArgvIs
    <2> QED
      BY <2>1, <2>2
  <1>11. WordsShown' = w
    <2>1. screen' = screen
      BY DEF Tokenize
    <2>2. WordsShown' = WordsShown
      BY <2>1 DEF WordsShown
    <2> QED
      BY <1>4, <1>6, <2>2
  <1>12. ASSUME NEW k \in Nat, k < argc'
         PROVE  StringIn(buf', argv'[k]) = w[k + 1]
    <2>1. k + 1 \in 1 .. n /\ k + 1 <= MaxArgc
      <3>1. MaxArgc \in Nat
        BY ConsoleAssumption
      <3> QED
        BY <1>10, <1>12, <3>1
    <2>2. PICK j \in 1 .. n : j = k + 1
      BY <2>1
    <2>3. StringIn(buf', from[j]) = w[j]
      BY <1>8, <1>9, <2>1, <2>2, WordStays
    <2> QED
      BY <1>10, <1>12, <2>2, <2>3
  <1>13. \A k \in Nat : k < argc' => StringIn(buf', argv'[k]) = w[k + 1]
    BY <1>12
  <1> QED
    BY <1>7, <1>10, <1>11, <1>13 DEF Told

(* A character that fits appears at the cursor.                             *)
LEMMA CharacterShows ==
    ASSUME LineInv, OnScreen, GetCharacter, typed \in Seq(STRING \ {NUL}), ~dropped'
    PROVE  OnScreen'
  <1>1. PICK c \in STRING \ {NUL} : c = Head(typed)
    <2>1. typed # <<>>
      BY DEF GetCharacter
    <2> QED
      BY <2>1, HeadTailProperties
  <1>2. PICK m \in Nat : m = i
    BY DEF LineInv, Places
  <1>3. PICK cells \in Seq(STRING) : cells = screen.cells
    BY DEF OnScreen
  <1>4. PICK new : new = Append(SubSeq(cells, 1, m), c) \o SubSeq(cells, m + 2, Len(cells))
    OBVIOUS
  <1>5. screen.cursor = m /\ m <= Len(cells)
    BY <1>2, <1>3 DEF OnScreen
  <1>6. Fits /\ i' = m + 1 /\ buf' = [buf EXCEPT ![m] = c]
    <2>1. Fits
      BY DEF GetCharacter
    <2> QED
      BY <1>1, <1>2, <2>1 DEF GetCharacter
  <1>7. screen' = [cells |-> new, cursor |-> m + 1]
    <2>1. screen' = Overwritten(Head(typed))
      BY DEF GetCharacter
    <2> QED
      BY <1>1, <1>3, <1>4, <1>5, <2>1 DEF Overwritten
  <1>8. /\ new \in Seq(STRING) /\ Len(new) >= m + 1
        /\ \A k \in 1 .. m : new[k] = cells[k]
        /\ new[m + 1] = c
    <2>1. c \in STRING
      OBVIOUS
    <2>2. PICK d \in STRING : d = c
      BY <2>1
    <2>3. m <= Len(cells)
      BY <1>5
    <2>4. IsOverwritten(new, cells, m, d)
      BY <1>4, <2>2 DEF IsOverwritten
    <2>5. HasOverwritten(new, cells, m, d)
      BY <2>3, <2>4, OverwriteKeeps
    <2> QED
      BY <2>2, <2>5 DEF HasOverwritten
  <1>9. buf'[m] = c /\ \A p \in 0 .. m - 1 : buf'[p] = buf[p]
    <2>1. m \in Places /\ \A p \in 0 .. m - 1 : p \in Places /\ p # m
      BY <1>2, ConsoleAssumption DEF LineInv, Places
    <2>2. buf = [p \in Places |-> buf[p]]
      BY DEF LineInv
    <2>3. \A p \in Places : buf'[p] = IF p = m THEN c ELSE buf[p]
      BY <1>6, <2>2
    <2> QED
      BY <2>1, <2>3
  <1>10. \A k \in 1 .. m : buf[k - 1] = cells[k] /\ cells[k] # NUL
    BY <1>2, <1>3 DEF OnScreen
  <1>11. ASSUME NEW k \in 1 .. m + 1
         PROVE  buf'[k - 1] = new[k] /\ new[k] # NUL
    <2>1. CASE k = m + 1
      <3>1. k - 1 = m
        BY <2>1
      <3> QED
        BY <1>1, <1>8, <1>9, <2>1, <3>1
    <2>2. CASE k \in 1 .. m
      <3>1. k - 1 \in 0 .. m - 1
        BY <2>2
      <3> QED
        BY <1>8, <1>9, <1>10, <2>2, <3>1
    <2> QED
      BY <2>1, <2>2
  <1>12. \A k \in 1 .. i' : buf'[k - 1] = screen'.cells[k] /\ screen'.cells[k] # NUL
    BY <1>6, <1>7, <1>11
  <1>13. screen' \in [cells : Seq(STRING), cursor : Nat]
    BY <1>7, <1>8
  <1>14. screen'.cursor = i' /\ i' <= Len(screen'.cells)
    <2>1. PICK len \in Nat : len = Len(new)
      BY <1>8
    <2> QED
      BY <1>6, <1>7, <1>8, <2>1
  <1> QED
    BY <1>12, <1>13, <1>14 DEF OnScreen

(* The line and the cursor go back together.                                *)
LEMMA EraseShows ==
    ASSUME LineInv, OnScreen, GetErase
    PROVE  OnScreen'
  <1>1. PICK m \in Nat : m = i
    BY DEF LineInv, Places
  <1>2. CASE m = 0
    BY <1>1, <1>2 DEF OnScreen, GetErase
  <1>3. CASE m # 0
    <2>1. i' = m - 1 /\ screen' = MovedLeft /\ buf' = buf
      BY <1>1, <1>3 DEF GetErase
    <2>2. PICK cells \in Seq(STRING) : cells = screen.cells
      BY DEF OnScreen
    <2>3. PICK len \in Nat : len = Len(cells)
      OBVIOUS
    <2>4. screen.cursor = m /\ m <= len
      BY <1>1, <2>2, <2>3 DEF OnScreen
    <2>5. screen' = [cells |-> cells, cursor |-> m - 1]
      BY <2>1, <2>2, <2>4 DEF MovedLeft, OnScreen
    <2>6. \A k \in 1 .. m - 1 : buf[k - 1] = cells[k] /\ cells[k] # NUL
      BY <1>1, <2>2 DEF OnScreen
    <2>7. m - 1 \in Nat /\ m - 1 <= len
      BY <1>3, <2>4
    <2> QED
      BY <2>1, <2>3, <2>5, <2>6, <2>7 DEF OnScreen
  <1> QED
    BY <1>2, <1>3

LEMMA ShownStep == LineInv /\ ShownInv /\ [Next]_vars => ShownInv'
  <1> SUFFICES ASSUME LineInv, ShownInv, [Next]_vars
               PROVE  ShownInv'
    OBVIOUS
  <1>1. CASE Prompt
    <2>1. /\ pc' = "gets" /\ typed' \in Lines /\ i' = 0 /\ argv' = argv
          /\ screen' = [cells |-> <<>>, cursor |-> 0]
      BY <1>1 DEF Prompt
    <2>2. <<>> \in Seq(STRING) /\ 0 <= Len(<<>>)
      OBVIOUS
    <2>3. OnScreen'
      BY <2>1, <2>2 DEF OnScreen
    <2>4. typed' \in Seq(STRING \ {NUL})
      BY <2>1, LinesAssumption
    <2> QED
      BY <2>1, <2>3, <2>4 DEF ShownInv, ArgvKept
  <1>2. CASE GetErase
    <2>1. pc = "gets" /\ pc' = "gets" /\ argv' = argv /\ dropped' = dropped
      BY <1>2 DEF GetErase
    <2>2. typed' \in Seq(STRING \ {NUL})
      BY <1>2, <2>1 DEF GetErase, ShownInv
    <2>3. ~dropped => OnScreen'
      BY <1>2, <2>1, EraseShows DEF ShownInv
    <2> QED
      BY <2>1, <2>2, <2>3 DEF ShownInv, ArgvKept
  <1>3. CASE GetCharacter
    <2>1. /\ pc = "gets" /\ pc' = "gets" /\ argv' = argv
          /\ dropped' = dropped \/ dropped'
      BY <1>3 DEF GetCharacter
    <2>2. typed \in Seq(STRING \ {NUL})
      BY <2>1 DEF ShownInv
    <2>3. typed' \in Seq(STRING \ {NUL})
      BY <1>3, <2>2 DEF GetCharacter
    <2>4. ~dropped' => OnScreen'
      <3> SUFFICES ASSUME ~dropped' PROVE OnScreen'
        OBVIOUS
      <3>1. OnScreen
        BY <2>1 DEF ShownInv
      <3> QED
        BY <1>3, <2>2, <3>1, CharacterShows
    <2> QED
      BY <2>1, <2>3, <2>4 DEF ShownInv, ArgvKept
  <1>4. CASE GetNewline
    <2>1. /\ pc = "gets" /\ pc' = "tokenize" /\ buf' = [buf EXCEPT ![i] = NUL]
          /\ UNCHANGED <<i, argv, screen, dropped>>
      BY <1>4 DEF GetNewline
    <2>2. \A p \in Places : buf'[p] = IF p = i THEN NUL ELSE buf[p]
      BY <2>1 DEF LineInv
    <2>3. buf'[i'] = NUL
      BY <2>1, <2>2 DEF LineInv
    <2>4. ~dropped => OnScreen'
      <3> SUFFICES ASSUME ~dropped PROVE OnScreen'
        OBVIOUS
      <3>1. OnScreen
        BY <2>1 DEF ShownInv
      <3>2. PICK m \in Nat : m = i /\ m \in Places
        BY DEF LineInv, Places
      <3>3. \A k \in 1 .. m : buf'[k - 1] = buf[k - 1]
        <4> TAKE k \in 1 .. m
        <4>1. k - 1 \in Places /\ k - 1 # m
          BY <3>2, ConsoleAssumption DEF Places
        <4> QED
          BY <2>2, <3>2, <4>1
      <3> QED
        BY <2>1, <3>1, <3>2, <3>3 DEF OnScreen
    <2> QED
      BY <2>1, <2>3, <2>4 DEF ShownInv, ArgvKept
  <1>5. CASE Tokenize
    <2>1. /\ pc = "tokenize" /\ pc' = "dispatch" /\ dropped' = dropped
          /\ argv' = [k \in DOMAIN argv |-> argv'[k]]
      BY <1>5 DEF Tokenize
    <2>2. ~dropped => Told'
      BY <1>5, <2>1, TokenizeTells DEF ShownInv
    <2>3. ArgvKept'
      BY <2>1 DEF ShownInv, ArgvKept
    <2> QED
      BY <2>1, <2>2, <2>3 DEF ShownInv
  <1>6. CASE RunQuick \/ RunTime \/ RunProbe \/ RunRead \/ RunI2C \/ RunLoop \/ RunServer
    <2>1. pc' \in {"prompt", "loop", "rpc"} /\ argv' = argv
      BY <1>6 DEF RunQuick, RunTime, RunProbe, RunRead, RunI2C, RunLoop, RunServer,
                  Dispatched
    <2> QED
      BY <2>1 DEF ShownInv, ArgvKept
  <1>7. CASE Loop
    <2>1. pc' \in {"prompt", "loop"} /\ argv' = argv
      BY <1>7 DEF Loop
    <2> QED
      BY <2>1 DEF ShownInv, ArgvKept
  <1>8. CASE UNCHANGED vars
    <2>1. UNCHANGED <<pc, typed, i, buf, argv, argc, screen, dropped>>
      BY <1>8 DEF vars, line
    <2>2. (OnScreen' <=> OnScreen) /\ (ArgvKept' <=> ArgvKept)
      BY <2>1 DEF OnScreen, ArgvKept
    <2>3. WordsShown' = WordsShown
      BY <2>1 DEF WordsShown
    <2>4. Told' <=> Told
      BY <2>1, <2>3 DEF Told
    <2> QED
      BY <2>1, <2>2, <2>4 DEF ShownInv
  <1> QED
    BY <1>1, <1>2, <1>3, <1>4, <1>5, <1>6, <1>7, <1>8 DEF Next

(* Those arguments have the programs make the calls that are meant.         *)
LEMMA ToldIsMeant ==
    ASSUME ArgvKept, Told
    PROVE  Calls(argc, Strings, probed) = Meaning(WordsShown, probed)
  <1>1. PICK w \in Seq(Seq(STRING)) : w = WordsShown
    BY DEF Told
  <1>2. PICK len \in Nat : len = Len(w)
    OBVIOUS
  <1>3. MaxArgc \in Nat
    BY ConsoleAssumption
  <1>4. PICK n \in Nat : n = argc /\ n <= MaxArgc /\ n = IF len < MaxArgc THEN len ELSE MaxArgc
    <2>1. argc = IF Len(WordsShown) < MaxArgc THEN Len(WordsShown) ELSE MaxArgc
      BY DEF Told
    <2>2. argc = IF len < MaxArgc THEN len ELSE MaxArgc
      BY <1>1, <1>2, <2>1
    <2>3. argc \in Nat /\ argc <= MaxArgc
      BY <1>3, <2>2
    <2> QED
      BY <2>2, <2>3
  <1> DEFINE seen == [k \in 0 .. MaxArgc - 1 |-> IF k < n THEN w[k + 1] ELSE <<"not typed">>]
  <1>5. \A k \in 0 .. n - 1 : Strings[k] = seen[k]
    <2> TAKE k \in 0 .. n - 1
    <2>1. k \in 0 .. MaxArgc - 1 /\ k \in Nat /\ k < n
      BY <1>3, <1>4
    <2>2. Strings[k] = StringAt(argv[k])
      BY <2>1 DEF Strings, ArgvKept
    <2>3. StringAt(argv[k]) = StringIn(buf, argv[k])
      BY DEF StringAt, StringIn
    <2>4. StringIn(buf, argv[k]) = w[k + 1]
      BY <1>1, <1>4, <2>1 DEF Told
    <2>5. seen[k] = w[k + 1]
      BY <2>1
    <2> QED
      BY <2>2, <2>3, <2>4, <2>5
  <1>6. Meaning(WordsShown, probed) = Calls(n, seen, probed)
    BY <1>1, <1>2, <1>4 DEF Meaning
  <1> HIDE DEF seen
  <1>7. Calls(n, Strings, probed) = Calls(n, seen, probed)
    BY <1>5, CallsAgree
  <1> QED
    BY <1>4, <1>6, <1>7

(* Whatever was typed, erased and typed again, and whatever earlier commands *)
(* have left in the line and in argv, the drivers are called for the words   *)
(* on the screen; only a line that was too long is excepted.                 *)
THEOREM CallsWhatIsShown == Spec => ScreenIsCommand
  <1>1. Init => LineInv /\ ShownInv
    BY ConsoleAssumption DEF Init, LineInv, Places, ShownInv, ArgvKept
  <1>2. LineInv /\ ShownInv /\ [Next]_vars => (LineInv /\ ShownInv)'
    BY LineStep, ShownStep
  <1>3. LineInv /\ ShownInv /\ [Next]_vars
           => [Dispatched /\ ~dropped => did' = Meaning(WordsShown, probed)]_vars
    <2> SUFFICES ASSUME ShownInv, Dispatched, ~dropped
                 PROVE  did' = Meaning(WordsShown, probed)
      OBVIOUS
    <2>1. ArgvKept /\ Told
      BY DEF ShownInv, Dispatched
    <2>2. did' = Calls(argc, Strings, probed)
      BY DEF Dispatched
    <2> QED
      BY <2>1, <2>2, ToldIsMeant
  <1> QED
    BY <1>1, <1>2, <1>3, PTL DEF Spec, ScreenIsCommand
============================================================================
