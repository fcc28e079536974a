----------------------- MODULE StockArithmeticProofs -----------------------
(***************************************************************************)
(* What the operators of the inventory helper preserve, for every scale:   *)
(* they map a sound stock to a sound stock, move its quantity by as much   *)
(* as they are told, and leave a rate that matches the value.  Undoing a   *)
(* sale and making it again gives the row back, exactly in whole units and *)
(* up to a cent otherwise.  The last part, which depends on no stock, is   *)
(* about sums.  The proofs about the modules that use either rest on these *)
(* lemmas.                                                                 *)
(***************************************************************************)
EXTENDS StockArithmetic, Functions, FiniteSetTheorems, WellFoundedInduction, TLAPS

\* The layers add up to the shortage, the cost-memory policy holds, and a row
\* that does not exist has nothing.
SoundStock ==
  {s \in Stock :
     /\ s.short = Larger(-s.qty, 0)
     /\ s.rate >= 0 /\ s.value >= 0
     /\ s.qty <= 0 => s.value = 0
     /\ ~s.exists => s.qty = 0}

-----------------------------------------------------------------------------
(* Arithmetic *)

LEMMA QuotientInNat ==
  ASSUME NEW a \in Nat, NEW b \in Nat \ {0}
  PROVE  a \div b \in Nat
  OBVIOUS

LEMMA QuotientZero ==
  ASSUME NEW b \in Nat \ {0}
  PROVE  b \div (2 * b) = 0
  OBVIOUS

LEMMA NearestInNat ==
  ASSUME NEW n \in Nat, NEW d \in Nat \ {0}
  PROVE  /\ Nearest(n, d) \in Nat
         /\ n = 0 => Nearest(n, d) = 0
<1>1. 2 * n + d \in Nat /\ 2 * d \in Nat \ {0}
  OBVIOUS
<1>2. Nearest(n, d) \in Nat
  BY <1>1, QuotientInNat DEF Nearest
<1>3. ASSUME n = 0 PROVE Nearest(n, d) = 0
  <2>1. 2 * n + d = d
    BY <1>3
  <2> QED
    BY <2>1, QuotientZero DEF Nearest
<1> QED
  BY <1>2, <1>3

LEMMA RoundedInNat ==
  ASSUME NEW n \in Nat, NEW d \in Nat \ {0}
  PROVE  /\ Rounded(n, d) \in Nat
         /\ n = 0 => Rounded(n, d) = 0
<1>1. Magnitude(n) = n /\ Magnitude(d) = d /\ ~(n < 0) /\ ~(d < 0)
  BY DEF Magnitude
<1> QED
  BY <1>1, NearestInNat DEF Rounded

LEMMA ProductInNat ==
  ASSUME NEW a \in Nat, NEW b \in Nat
  PROVE  a * b \in Nat
  OBVIOUS

-----------------------------------------------------------------------------
(* Every operation of the helper maps a sound stock to a sound stock. *)

LEMMA RowIsSound ==
  ASSUME NEW q \in Int, NEW r \in Nat, NEW worth \in Nat, NEW s \in Nat,
         s = Larger(-q, 0),
         q <= 0 => worth = 0
  PROVE  Row(q, r, worth, s) \in SoundStock
<1>1. Rounded(worth, Scale) \in Nat /\ (worth = 0 => Rounded(worth, Scale) = 0)
  BY RoundedInNat, ScaleAssumption
<1> QED
  BY <1>1 DEF Row, SoundStock, Stock

LEMMA IncomingIsSound ==
  ASSUME NEW s \in SoundStock, NEW q \in Nat \ {0}, NEW r \in Nat
  PROVE  Incoming(s, q, r) \in SoundStock
<1> DEFINE settled == IF s.qty < 0 THEN Settled(s.short, q) ELSE 0
           after == s.qty + q
           worth == Larger(s.value * Scale + (q - settled) * r, 0)
<1>1. /\ s.qty \in Int /\ s.value \in Nat /\ s.short \in Nat
      /\ s.short = Larger(-s.qty, 0)
  BY DEF SoundStock, Stock
<1>2. settled \in Nat /\ settled <= q /\ s.short - settled = Larger(-after, 0)
  BY <1>1 DEF Settled, Smaller, Larger
<1>3. s.value * Scale \in Nat /\ (q - settled) * r \in Nat
  BY <1>1, <1>2, ProductInNat, ScaleAssumption
<1>4. worth \in Nat
  BY <1>3 DEF Larger
<1>5. s.short - settled \in Nat /\ after \in Int
  BY <1>1, <1>2 DEF Larger
<1>6. CASE after > 0
  <2>1. Rounded(worth, after) \in Nat
    BY <1>4, <1>5, <1>6, RoundedInNat
  <2>2. Row(after, Rounded(worth, after), worth, s.short - settled) \in SoundStock
    BY <2>1, <1>2, <1>4, <1>5, <1>6, RowIsSound
  <2> QED
    BY <2>2, <1>6 DEF Incoming
<1>7. CASE ~(after > 0)
  <2>1. Row(after, Larger(r, 0), 0, s.short - settled) \in SoundStock
    BY <1>2, <1>5, RowIsSound DEF Larger
  <2> QED
    BY <2>1, <1>7 DEF Incoming
<1> QED
  BY <1>6, <1>7

LEMMA OutgoingIsSound ==
  ASSUME NEW s \in SoundStock, NEW q \in Nat \ {0}
  PROVE  Outgoing(s, q) \in SoundStock
<1> DEFINE after == s.qty - q
           rate == Larger(s.rate, 0)
           worth == Larger(s.value * Scale - q * rate, 0)
<1>1. /\ s.qty \in Int /\ s.value \in Nat /\ s.short \in Nat /\ s.rate \in Nat
      /\ s.short = Larger(-s.qty, 0)
  BY DEF SoundStock, Stock
<1>2. rate \in Nat /\ after \in Int
  BY <1>1 DEF Larger
<1>3. s.value * Scale \in Nat /\ q * rate \in Nat
  BY <1>1, <1>2, ProductInNat, ScaleAssumption
<1>4. worth \in Nat
  BY <1>3 DEF Larger
<1>5. CASE after > 0
  <2>1. Rounded(worth, after) \in Nat
    BY <1>2, <1>4, <1>5, RoundedInNat
  <2>2. s.short = Larger(-after, 0)
    BY <1>1, <1>5 DEF Larger
  <2>3. Row(after, Rounded(worth, after), worth, s.short) \in SoundStock
    BY <2>1, <2>2, <1>1, <1>2, <1>4, <1>5, RowIsSound
  <2> QED
    BY <2>3, <1>5 DEF Outgoing
<1>6. CASE ~(after > 0)
  <2>1. /\ s.short + IncrementalShortage(s.qty, after) = Larger(-after, 0)
        /\ s.short + IncrementalShortage(s.qty, after) \in Nat
    BY <1>1, <1>6 DEF IncrementalShortage, Larger
  <2>2. Row(after, rate, 0, s.short + IncrementalShortage(s.qty, after)) \in SoundStock
    BY <2>1, <1>2, RowIsSound
  <2> QED
    BY <2>2, <1>6 DEF Outgoing
<1> QED
  BY <1>5, <1>6

LEMMA ReceiveIsSound ==
  ASSUME NEW s \in SoundStock, NEW q \in Nat \ {0}, NEW r \in Nat
  PROVE  Receive(s, q, r) \in SoundStock
<1>1. CASE s.exists
  BY <1>1, IncomingIsSound DEF Receive
<1>2. CASE ~s.exists
  <2>1. s.qty = 0 /\ s.short = 0
    BY <1>2 DEF SoundStock, Larger
  <2>2. Settled(s.short, q) = 0
    BY <2>1 DEF Settled, Smaller
  <2>3. q * r \in Nat
    BY ProductInNat
  <2>4. Rounded(q * r, q) \in Nat
    BY <2>3, RoundedInNat
  <2>5. FirstIncoming(s, q, r) = Row(q, IF q * r > 0 THEN Rounded(q * r, q) ELSE r, q * r, 0)
    BY <2>1, <2>2 DEF FirstIncoming
  <2>6. (IF q * r > 0 THEN Rounded(q * r, q) ELSE r) \in Nat
    BY <2>4
  <2>7. FirstIncoming(s, q, r) \in SoundStock
    BY <2>3, <2>5, <2>6, RowIsSound DEF Larger
  <2> QED
    BY <2>7, <1>2 DEF Receive
<1> QED
  BY <1>1, <1>2

LEMMA IssueIsSound ==
  ASSUME NEW s \in SoundStock, NEW q \in Nat \ {0}
  PROVE  Issue(s, q) \in SoundStock
<1>1. CASE s.exists
  BY <1>1, OutgoingIsSound DEF Issue
<1>2. CASE ~s.exists
  <2>1. s.qty = 0 /\ s.short = 0
    BY <1>2 DEF SoundStock, Larger
  <2>2. FirstOutgoing(s, q) = Row(-q, 0, 0, q)
    BY <2>1 DEF FirstOutgoing
  <2>3. FirstOutgoing(s, q) \in SoundStock
    BY <2>2, RowIsSound DEF Larger
  <2> QED
    BY <2>3, <1>2 DEF Issue
<1> QED
  BY <1>1, <1>2

LEMMA ReverseExactIsSound ==
  ASSUME NEW s \in SoundStock, NEW q \in Nat \ {0}, NEW v \in Nat
  PROVE  ReverseExact(s, q, v, TRUE) \in SoundStock
<1> DEFINE after == s.qty - q
           worth == Larger(s.value - v, 0) * Scale
<1>1. /\ s.qty \in Int /\ s.value \in Nat /\ s.short \in Nat /\ s.rate \in Nat
      /\ s.short = Larger(-s.qty, 0)
  BY DEF SoundStock, Stock
<1>2. worth \in Nat /\ after \in Int
  <2>1. Larger(s.value - v, 0) \in Nat
    BY <1>1 DEF Larger
  <2> QED
    BY <2>1, <1>1, ProductInNat, ScaleAssumption
<1>3. CASE ~s.exists
  BY <1>3 DEF ReverseExact
<1>4. CASE s.exists /\ after > 0
  <2>1. Rounded(worth, after) \in Nat
    BY <1>2, <1>4, RoundedInNat
  <2>2. s.short = Larger(-after, 0)
    BY <1>1, <1>4 DEF Larger
  <2>3. Row(after, Rounded(worth, after), worth, s.short) \in SoundStock
    BY <2>1, <2>2, <1>1, <1>2, <1>4, RowIsSound
  <2> QED
    BY <2>3, <1>4 DEF ReverseExact
<1>5. CASE s.exists /\ ~(after > 0)
  <2>1. /\ s.short + IncrementalShortage(s.qty, after) = Larger(-after, 0)
        /\ s.short + IncrementalShortage(s.qty, after) \in Nat
    BY <1>1, <1>5 DEF IncrementalShortage, Larger
  <2>2. Row(after, Larger(s.rate, 0), 0, s.short + IncrementalShortage(s.qty, after)) \in SoundStock
    BY <2>1, <1>1, <1>2, RowIsSound DEF Larger
  <2> QED
    BY <2>2, <1>5 DEF ReverseExact
<1> QED
  BY <1>3, <1>4, <1>5

LEMMA ReleaseIsExact ==
  ASSUME NEW s \in SoundStock, NEW q \in Nat \ {0}
  PROVE  /\ ReleaseResolved(s, q) = Larger(-(s.qty + q), 0)
         /\ ReleaseResolved(s, q) \in Nat
<1>1. s.qty \in Int /\ s.short \in Nat /\ s.short = Larger(-s.qty, 0)
  BY DEF SoundStock, Stock
<1> QED
  BY <1>1 DEF ReleaseResolved, Settled, Smaller, Larger

LEMMA RestoreSaleIsSound ==
  ASSUME NEW s \in SoundStock, NEW q \in Nat \ {0}
  PROVE  RestoreSale(s, q) \in SoundStock
<1> DEFINE after == s.qty + q
           rate == Larger(s.rate, 0)
           worth == IF s.qty > 0 THEN Larger(s.value, 0) * Scale + q * rate ELSE after * rate
<1>1. s.qty \in Int /\ s.value \in Nat /\ s.rate \in Nat
  BY DEF SoundStock, Stock
<1>2. rate \in Nat /\ after \in Int /\ Larger(s.value, 0) \in Nat
  BY <1>1 DEF Larger
<1>3. CASE after > 0
  <2>1. after \in Nat \ {0}
    BY <1>2, <1>3
  <2>2. Larger(s.value, 0) * Scale \in Nat /\ q * rate \in Nat /\ after * rate \in Nat
    BY <2>1, <1>2, ProductInNat, ScaleAssumption
  <2>3. worth \in Nat
    BY <2>2
  <2>4. Rounded(worth, after) \in Nat
    BY <2>1, <2>3, RoundedInNat
  <2>5. Row(after, Rounded(worth, after), worth, ReleaseResolved(s, q)) \in SoundStock
    BY <2>1, <2>3, <2>4, ReleaseIsExact, RowIsSound
  <2> QED
    BY <2>5, <1>3 DEF RestoreSale
<1>4. CASE ~(after > 0)
  <2>1. Row(after, rate, 0, ReleaseResolved(s, q)) \in SoundStock
    BY <1>2, ReleaseIsExact, RowIsSound
  <2> QED
    BY <2>1, <1>4 DEF RestoreSale
<1> QED
  BY <1>3, <1>4

LEMMA RestoreExactIsSound ==
  ASSUME NEW s \in SoundStock, NEW q \in Nat \ {0}, NEW v \in Nat
  PROVE  RestoreExact(s, q, v) \in SoundStock
<1> DEFINE after == s.qty + q
           short == ReleaseResolved(s, q)
           rate == Larger(s.rate, 0)
<1>1. /\ s.qty \in Int /\ s.value \in Nat /\ s.rate \in Nat /\ s.short \in Nat
      /\ s.short = Larger(-s.qty, 0)
  BY DEF SoundStock, Stock
<1>2. rate \in Nat /\ after \in Int /\ Larger(s.value, 0) \in Nat
  BY <1>1 DEF Larger
<1>3. short = Larger(-after, 0) /\ short \in Nat
  BY ReleaseIsExact
<1>4. v * Scale \in Nat /\ Rounded(v * Scale, q) \in Nat
  BY ProductInNat, ScaleAssumption, RoundedInNat
<1>5. CASE ~s.exists
  <2>1. s.qty = 0 /\ s.short = 0
    BY <1>5 DEF SoundStock, Larger
  <2>2. Row(q, Rounded(v * Scale, q), v * Scale, s.short) \in SoundStock
    BY <2>1, <1>4, RowIsSound DEF Larger
  <2> QED
    BY <2>2, <1>5 DEF RestoreExact
<1>6. CASE s.exists /\ after <= 0
  <2>1. Row(after, IF v > 0 THEN Rounded(v * Scale, q) ELSE rate, 0, short) \in SoundStock
    BY <1>2, <1>3, <1>4, RowIsSound
  <2> QED
    BY <2>1, <1>6 DEF RestoreExact
<1>7. CASE s.exists /\ after > 0 /\ s.qty > 0
  <2> DEFINE worth == (Larger(s.value, 0) + v) * Scale
  <2>1. worth \in Nat
    BY <1>2, ProductInNat, ScaleAssumption
  <2>2. (IF worth > 0 THEN Rounded(worth, after) ELSE rate) \in Nat
    BY <2>1, <1>2, <1>7, RoundedInNat
  <2>3. Row(after, IF worth > 0 THEN Rounded(worth, after) ELSE rate, worth, short) \in SoundStock
    BY <2>1, <2>2, <1>2, <1>3, <1>7, RowIsSound
  <2> QED
    BY <2>3, <1>7, <1>2 DEF RestoreExact
<1>8. CASE s.exists /\ after > 0 /\ ~(s.qty > 0) /\ v > 0
  <2>1. after * v \in Nat
    BY <1>2, <1>8, ProductInNat
  <2>2. Rounded(after * v, q) \in Nat
    BY <2>1, RoundedInNat
  <2>3. [exists |-> TRUE, qty |-> after, rate |-> Rounded(v * Scale, q),
         value |-> Rounded(after * v, q), short |-> short] \in SoundStock
    BY <2>2, <1>2, <1>3, <1>4, <1>8 DEF SoundStock, Stock
  <2> QED
    BY <2>3, <1>8, <1>2 DEF RestoreExact
<1>9. CASE s.exists /\ after > 0 /\ ~(s.qty > 0) /\ ~(v > 0)
  <2>1. after * rate \in Nat
    BY <1>2, <1>9, ProductInNat
  <2>2. Row(after, rate, after * rate, short) \in SoundStock
    BY <2>1, <1>2, <1>3, <1>9, RowIsSound
  <2> QED
    BY <2>2, <1>9, <1>2 DEF RestoreExact
<1> QED
  BY <1>2, <1>5, <1>6, <1>7, <1>8, <1>9

\* The same for a signed quantity: adjustInventory as a whole.
LEMMA AdjustedIsSound ==
  ASSUME NEW s \in SoundStock, NEW delta \in Int \ {0}, NEW r \in Nat
  PROVE  Adjusted(s, delta, r) \in SoundStock
<1>1. CASE delta > 0
  <2>1. delta \in Nat \ {0}
    BY <1>1
  <2> QED
    BY <2>1, <1>1, ReceiveIsSound DEF Adjusted
<1>2. CASE ~(delta > 0)
  <2>1. -delta \in Nat \ {0}
    BY <1>2
  <2> QED
    BY <2>1, <1>2, IssueIsSound DEF Adjusted
<1> QED
  BY <1>1, <1>2

-----------------------------------------------------------------------------
(* Any stock stays a stock, sound or not. *)

LEMMA RoundedInInt ==
  ASSUME NEW n \in Int, NEW d \in Int \ {0}
  PROVE  Rounded(n, d) \in Int
<1>1. Magnitude(n) \in Nat /\ Magnitude(d) \in Nat \ {0}
  BY DEF Magnitude
<1>2. Nearest(Magnitude(n), Magnitude(d)) \in Nat
  BY <1>1, NearestInNat
<1> QED
  BY <1>2 DEF Rounded

LEMMA RowInStock ==
  ASSUME NEW q \in Int, NEW r \in Int, NEW worth \in Int, NEW s \in Nat
  PROVE  Row(q, r, worth, s) \in Stock
BY RoundedInInt, ScaleAssumption DEF Row, Stock

LEMMA AdjustedInStock ==
  ASSUME NEW s \in Stock, NEW delta \in Int \ {0}, NEW r \in Int
  PROVE  Adjusted(s, delta, r) \in Stock
<1>1. /\ s.qty \in Int /\ s.value \in Int /\ s.rate \in Int /\ s.short \in Nat
      /\ Scale \in Nat \ {0}
  BY ScaleAssumption DEF Stock
<1>2. CASE delta > 0 /\ s.exists
  <2> DEFINE settled == IF s.qty < 0 THEN Settled(s.short, delta) ELSE 0
             after == s.qty + delta
             worth == Larger(s.value * Scale + (delta - settled) * r, 0)
  <2>1. settled \in Int /\ s.short - settled \in Nat /\ after \in Int
    BY <1>1, <1>2 DEF Settled, Smaller
  <2>2. worth \in Int
    BY <2>1, <1>1 DEF Larger
  <2>3. after > 0 => Rounded(worth, after) \in Int
    BY <2>1, <2>2, RoundedInInt
  <2>4. after > 0 => Row(after, Rounded(worth, after), worth, s.short - settled) \in Stock
    BY <2>1, <2>2, <2>3, RowInStock
  <2>5. Row(after, Larger(r, 0), 0, s.short - settled) \in Stock
    BY <2>1, RowInStock DEF Larger
  <2>6. Incoming(s, delta, r) \in Stock
    BY <2>4, <2>5 DEF Incoming
  <2> QED
    BY <2>6, <1>2 DEF Adjusted, Receive
<1>3. CASE delta > 0 /\ ~s.exists
  <2> DEFINE settled == Settled(s.short, delta)
             worth == (delta - settled) * r
  <2>1. settled \in Int /\ s.short - settled \in Nat
    BY <1>1, <1>3 DEF Settled, Smaller
  <2>2. worth \in Int
    BY <2>1
  <2>3. Rounded(worth, delta) \in Int
    BY <2>2, <1>3, RoundedInInt
  <2>4. Row(delta, IF worth > 0 THEN Rounded(worth, delta) ELSE r, worth, s.short - settled) \in Stock
    BY <2>1, <2>2, <2>3, RowInStock
  <2>5. FirstIncoming(s, delta, r) \in Stock
    BY <2>4 DEF FirstIncoming
  <2> QED
    BY <2>5, <1>3 DEF Adjusted, Receive
<1>4. CASE ~(delta > 0) /\ s.exists
  <2> DEFINE q == -delta
             after == s.qty - q
             rate == Larger(s.rate, 0)
             worth == Larger(s.value * Scale - q * rate, 0)
  <2>1. rate \in Int /\ after \in Int
    BY <1>1 DEF Larger
  <2>2. worth \in Int
    BY <2>1, <1>1 DEF Larger
  <2>3. after > 0 => Rounded(worth, after) \in Int
    BY <2>1, <2>2, RoundedInInt
  <2>4. after > 0 => Row(after, Rounded(worth, after), worth, s.short) \in Stock
    BY <2>1, <2>2, <2>3, <1>1, RowInStock
  <2>5. s.short + IncrementalShortage(s.qty, after) \in Nat
    BY <2>1, <1>1 DEF IncrementalShortage, Larger
  <2>6. Row(after, rate, 0, s.short + IncrementalShortage(s.qty, after)) \in Stock
    BY <2>1, <2>5, RowInStock
  <2>7. Outgoing(s, q) \in Stock
    BY <2>4, <2>6 DEF Outgoing
  <2> QED
    BY <2>7, <1>4 DEF Adjusted, Issue
<1>5. CASE ~(delta > 0) /\ ~s.exists
  <2>1. Row(-(-delta), 0, 0, s.short + (-delta)) \in Stock
    BY <1>1, <1>5, RowInStock
  <2> QED
    BY <2>1, <1>5 DEF Adjusted, Issue, FirstOutgoing
<1> QED
  BY <1>2, <1>3, <1>4, <1>5

\* The cost-memory policy of one stock.
Policy(s) == s.rate >= 0 /\ (s.qty > 0 => s.value >= 0) /\ (s.qty <= 0 => s.value = 0)

LEMMA AdjustedMoves ==
  ASSUME NEW s \in Stock, NEW delta \in Int \ {0}, NEW r, ~s.exists => s.qty = 0
  PROVE  /\ Adjusted(s, delta, r).exists
         /\ Adjusted(s, delta, r).qty = s.qty + delta
<1>1. s.qty \in Int /\ s.exists \in BOOLEAN
  BY DEF Stock
<1>2. CASE delta > 0 /\ s.exists
  BY <1>1, <1>2 DEF Adjusted, Receive, Incoming, Row
<1>3. CASE delta > 0 /\ ~s.exists
  BY <1>1, <1>3 DEF Adjusted, Receive, FirstIncoming, Row
<1>4. CASE ~(delta > 0) /\ s.exists
  BY <1>1, <1>4 DEF Adjusted, Issue, Outgoing, Row
<1>5. CASE ~(delta > 0) /\ ~s.exists
  BY <1>1, <1>5 DEF Adjusted, Issue, FirstOutgoing, Row
<1> QED
  BY <1>1, <1>2, <1>3, <1>4, <1>5

LEMMA RowKeepsPolicy ==
  ASSUME NEW q \in Int, NEW r \in Nat, NEW worth \in Nat, NEW short,
         q <= 0 => worth = 0
  PROVE  Policy(Row(q, r, worth, short))
<1>1. Rounded(worth, Scale) \in Nat /\ (worth = 0 => Rounded(worth, Scale) = 0)
  BY RoundedInNat, ScaleAssumption
<1> QED
  BY <1>1 DEF Row, Policy

\* An adjustment leaves a row that keeps the policy, whatever it finds.
LEMMA AdjustedKeepsPolicy ==
  ASSUME NEW s \in Stock, NEW delta \in Int \ {0}, NEW r \in Nat
  PROVE  Policy(Adjusted(s, delta, r))
<1>1. /\ s.qty \in Int /\ s.value \in Int /\ s.rate \in Int /\ s.short \in Nat
      /\ s.exists \in BOOLEAN /\ Scale \in Nat \ {0}
  BY ScaleAssumption DEF Stock
<1>2. CASE delta > 0 /\ s.exists
  <2> DEFINE settled == IF s.qty < 0 THEN Settled(s.short, delta) ELSE 0
             after == s.qty + delta
             worth == Larger(s.value * Scale + (delta - settled) * r, 0)
  <2>1. settled \in Int /\ after \in Int
    BY <1>1, <1>2 DEF Settled, Smaller
  <2>2. worth \in Nat
    <3>1. s.value * Scale + (delta - settled) * r \in Int
      BY <2>1, <1>1
    <3> QED
      BY <3>1 DEF Larger
  <2>3. after > 0 => Rounded(worth, after) \in Nat
    BY <2>1, <2>2, RoundedInNat
  <2>4. after > 0 => Policy(Row(after, Rounded(worth, after), worth, s.short - settled))
    BY <2>1, <2>2, <2>3, RowKeepsPolicy
  <2>5. Policy(Row(after, Larger(r, 0), 0, s.short - settled))
    BY <2>1, RowKeepsPolicy DEF Larger
  <2>6. Policy(Incoming(s, delta, r))
    BY <2>4, <2>5 DEF Incoming
  <2> QED
    BY <2>6, <1>2 DEF Adjusted, Receive
<1>3. CASE delta > 0 /\ ~s.exists
  <2> DEFINE settled == Settled(s.short, delta)
             worth == (delta - settled) * r
  <2>1. delta - settled \in Nat
    BY <1>1, <1>3 DEF Settled, Smaller
  <2>2. worth \in Nat
    BY <2>1, ProductInNat
  <2>3. Rounded(worth, delta) \in Nat
    BY <2>2, <1>3, RoundedInNat
  <2>4. Policy(Row(delta, IF worth > 0 THEN Rounded(worth, delta) ELSE r, worth, s.short - settled))
    BY <2>2, <2>3, <1>3, RowKeepsPolicy
  <2>5. Policy(FirstIncoming(s, delta, r))
    BY <2>4 DEF FirstIncoming
  <2> QED
    BY <2>5, <1>3 DEF Adjusted, Receive
<1>4. CASE ~(delta > 0) /\ s.exists
  <2> DEFINE q == -delta
             after == s.qty - q
             rate == Larger(s.rate, 0)
             worth == Larger(s.value * Scale - q * rate, 0)
  <2>1. rate \in Nat /\ after \in Int
    BY <1>1 DEF Larger
  <2>2. worth \in Nat
    <3>1. s.value * Scale - q * rate \in Int
      BY <2>1, <1>1
    <3> QED
      BY <3>1 DEF Larger
  <2>3. after > 0 => Rounded(worth, after) \in Nat
    BY <2>1, <2>2, RoundedInNat
  <2>4. after > 0 => Policy(Row(after, Rounded(worth, after), worth, s.short))
    BY <2>1, <2>2, <2>3, RowKeepsPolicy
  <2>5. Policy(Row(after, rate, 0, s.short + IncrementalShortage(s.qty, after)))
    BY <2>1, RowKeepsPolicy
  <2>6. Policy(Outgoing(s, q))
    BY <2>4, <2>5 DEF Outgoing
  <2> QED
    BY <2>6, <1>4 DEF Adjusted, Issue
<1>5. CASE ~(delta > 0) /\ ~s.exists
  <2>1. Policy(Row(-(-delta), 0, 0, s.short + (-delta)))
    BY <1>5, RowKeepsPolicy
  <2> QED
    BY <2>1, <1>5 DEF Adjusted, Issue, FirstOutgoing
<1> QED
  BY <1>1, <1>2, <1>3, <1>4, <1>5

\* Only a receipt takes from the layers, if it finds any and the row is short or
\* missing.
LEMMA AdjustedLayers ==
  ASSUME NEW s \in Stock, NEW delta \in Int \ {0}, NEW r \in Nat
  PROVE  /\ Adjusted(s, delta, r).short \in Nat
         /\ Adjusted(s, delta, r).short < s.short =>
              delta > 0 /\ s.short # 0 /\ (s.exists => s.qty < 0)
<1>1. s.qty \in Int /\ s.short \in Nat /\ s.exists \in BOOLEAN
  BY DEF Stock
<1>2. CASE delta > 0 /\ s.exists
  BY <1>1, <1>2 DEF Adjusted, Receive, Incoming, Row, Settled, Smaller
<1>3. CASE delta > 0 /\ ~s.exists
  BY <1>1, <1>3 DEF Adjusted, Receive, FirstIncoming, Row, Settled, Smaller
<1>4. CASE ~(delta > 0) /\ s.exists
  <2>1. IncrementalShortage(s.qty, s.qty - (-delta)) \in Nat
    BY <1>1 DEF IncrementalShortage, Larger
  <2> QED
    BY <1>1, <1>4, <2>1 DEF Adjusted, Issue, Outgoing, Row
<1>5. CASE ~(delta > 0) /\ ~s.exists
  BY <1>1, <1>5 DEF Adjusted, Issue, FirstOutgoing, Row
<1> QED
  BY <1>1, <1>2, <1>3, <1>4, <1>5

\* What the insert of a row that turned out to exist leaves.
LEMMA MergedFacts ==
  ASSUME NEW s \in Stock, NEW inserted \in Stock, Policy(inserted)
  PROVE  /\ Merged(s, inserted) \in Stock
         /\ Merged(s, inserted).exists
         /\ Merged(s, inserted).qty = s.qty + inserted.qty
         /\ Policy(Merged(s, inserted))
<1> DEFINE after == s.qty + inserted.qty
           value == IF after > 0 THEN Larger(s.value + inserted.value, 0) ELSE 0
           rate == IF after > 0 THEN Rounded(value * Scale, after) ELSE inserted.rate
<1>1. after \in Int /\ value \in Nat /\ s.short \in Nat
  BY DEF Stock, Larger
<1>2. rate \in Nat
  <2>1. value * Scale \in Nat
    BY <1>1, ProductInNat, ScaleAssumption
  <2>2. after > 0 => Rounded(value * Scale, after) \in Nat
    BY <1>1, <2>1, RoundedInNat
  <2>3. inserted.rate \in Nat
    BY DEF Stock, Policy
  <2> QED
    BY <2>2, <2>3
<1>3. Merged(s, inserted) =
        [exists |-> TRUE, qty |-> after, value |-> value, short |-> s.short, rate |-> rate]
  BY DEF Merged
<1>4. ~(after > 0) => value = 0
  OBVIOUS
<1> HIDE DEF after, value, rate
<1>5. Merged(s, inserted) \in Stock
  BY <1>1, <1>2, <1>3 DEF Stock
<1>6. Policy(Merged(s, inserted))
  BY <1>1, <1>2, <1>3, <1>4 DEF Policy
<1> QED
  BY <1>3, <1>5, <1>6 DEF after

-----------------------------------------------------------------------------
(* Every writer moves the quantity by what it is told, and leaves a row. *)

LEMMA ReceiveMoves ==
  ASSUME NEW s \in Stock, NEW q \in Nat \ {0}, NEW r \in Int, ~s.exists => s.qty = 0
  PROVE  /\ Receive(s, q, r) \in Stock /\ Receive(s, q, r).exists
         /\ Receive(s, q, r).qty = s.qty + q
<1>1. Adjusted(s, q, r) = Receive(s, q, r)
  BY DEF Adjusted
<1> QED
  BY <1>1, AdjustedInStock, AdjustedMoves

LEMMA IssueMoves ==
  ASSUME NEW s \in Stock, NEW q \in Nat \ {0}, ~s.exists => s.qty = 0
  PROVE  /\ Issue(s, q) \in Stock /\ Issue(s, q).exists
         /\ Issue(s, q).qty = s.qty - q
<1>1. -q \in Int \ {0} /\ -(-q) = q /\ ~(-q > 0)
  OBVIOUS
<1>2. Adjusted(s, -q, 0) = Issue(s, q)
  BY <1>1 DEF Adjusted
<1>3. Adjusted(s, -q, 0) \in Stock
  BY <1>1, AdjustedInStock
<1>4. Adjusted(s, -q, 0).exists /\ Adjusted(s, -q, 0).qty = s.qty + (-q)
  BY <1>1, AdjustedMoves
<1> QED
  BY <1>2, <1>3, <1>4 DEF Stock

LEMMA ReleaseInNat ==
  ASSUME NEW s \in Stock, NEW q \in Nat
  PROVE  ReleaseResolved(s, q) \in Nat
<1>1. s.qty \in Int /\ s.short \in Nat
  BY DEF Stock
<1> QED
  BY <1>1 DEF ReleaseResolved, Settled, Smaller, Larger

LEMMA RestoreSaleMoves ==
  ASSUME NEW s \in Stock, NEW q \in Nat \ {0}
  PROVE  /\ RestoreSale(s, q) \in Stock /\ RestoreSale(s, q).exists
         /\ RestoreSale(s, q).qty = s.qty + q
<1> DEFINE after == s.qty + q
           rate == Larger(s.rate, 0)
           worth == IF s.qty > 0 THEN Larger(s.value, 0) * Scale + q * rate ELSE after * rate
           short == ReleaseResolved(s, q)
<1>1. /\ s.qty \in Int /\ Larger(s.value, 0) \in Int /\ rate \in Int /\ after \in Int
      /\ short \in Nat /\ Scale \in Int
  BY ReleaseInNat, ScaleAssumption DEF Stock, Larger
<1>2. worth \in Int
  BY <1>1
<1>3. RestoreSale(s, q) = IF after > 0 THEN Row(after, Rounded(worth, after), worth, short)
                          ELSE Row(after, rate, 0, short)
  BY DEF RestoreSale
<1>4. after > 0 => Rounded(worth, after) \in Int
  BY <1>1, <1>2, RoundedInInt
<1> HIDE DEF worth, rate, short, after
<1>5. CASE after > 0
  <2> DEFINE t == Row(after, Rounded(worth, after), worth, short)
  <2>8. t.exists /\ t.qty = after
    BY DEF Row
  <2>9. t \in Stock
    BY <1>1, <1>2, <1>4, <1>5, RowInStock
  <2> HIDE DEF t
  <2> QED
    BY <1>3, <1>5, <2>8, <2>9 DEF t, after
<1>6. CASE ~(after > 0)
  <2> DEFINE t == Row(after, rate, 0, short)
  <2>8. t.exists /\ t.qty = after
    BY DEF Row
  <2>9. t \in Stock
    BY <1>1, RowInStock
  <2> HIDE DEF t
  <2> QED
    BY <1>3, <1>6, <2>8, <2>9 DEF t, after
<1> QED
  BY <1>5, <1>6

LEMMA ReverseExactMoves ==
  ASSUME NEW s \in Stock, NEW q \in Nat \ {0}, NEW v \in Int, NEW company \in BOOLEAN, s.exists
  PROVE  /\ ReverseExact(s, q, v, company) \in Stock /\ ReverseExact(s, q, v, company).exists
         /\ ReverseExact(s, q, v, company).qty = s.qty - q
<1> DEFINE after == s.qty - q
           worth == Larger(s.value - v, 0) * Scale
           rate == Larger(s.rate, 0)
           short == s.short + IF company THEN IncrementalShortage(s.qty, after) ELSE 0
<1>1. /\ after \in Int /\ Larger(s.value - v, 0) \in Int /\ rate \in Int /\ Scale \in Int
      /\ s.short \in Nat /\ s.qty \in Int
  BY ScaleAssumption DEF Stock, Larger
<1>2. worth \in Int
  BY <1>1
<1>3. short \in Nat
  BY <1>1 DEF IncrementalShortage, Larger
<1>4. ReverseExact(s, q, v, company) =
        IF after > 0 THEN Row(after, Rounded(worth, after), worth, s.short)
        ELSE Row(after, rate, 0, short)
  BY DEF ReverseExact
<1>5. after > 0 => Rounded(worth, after) \in Int
  BY <1>1, <1>2, RoundedInInt
<1> HIDE DEF worth, rate, short, after
<1>6. CASE after > 0
  <2> DEFINE t == Row(after, Rounded(worth, after), worth, s.short)
  <2>8. t.exists /\ t.qty = after
    BY DEF Row
  <2>9. t \in Stock
    BY <1>1, <1>2, <1>5, <1>6, RowInStock
  <2> HIDE DEF t
  <2> QED
    BY <1>4, <1>6, <2>8, <2>9 DEF t, after
<1>7. CASE ~(after > 0)
  <2> DEFINE t == Row(after, rate, 0, short)
  <2>8. t.exists /\ t.qty = after
    BY DEF Row
  <2>9. t \in Stock
    BY <1>1, <1>3, RowInStock
  <2> HIDE DEF t
  <2> QED
    BY <1>4, <1>7, <2>8, <2>9 DEF t, after
<1> QED
  BY <1>6, <1>7

LEMMA RestoreExactMoves ==
  ASSUME NEW s \in Stock, NEW q \in Nat \ {0}, NEW v \in Int, ~s.exists => s.qty = 0
  PROVE  /\ RestoreExact(s, q, v) \in Stock /\ RestoreExact(s, q, v).exists
         /\ RestoreExact(s, q, v).qty = s.qty + q
<1> DEFINE after == s.qty + q
           short == ReleaseResolved(s, q)
           rate == Larger(s.rate, 0)
           unit == Rounded(v * Scale, q)
           worth == (Larger(s.value, 0) + v) * Scale
<1>1. /\ after \in Int /\ s.qty \in Int /\ Larger(s.value, 0) \in Int /\ rate \in Int
      /\ Scale \in Int /\ s.short \in Nat /\ short \in Nat
  BY ReleaseInNat, ScaleAssumption DEF Stock, Larger
<1>2. worth \in Int /\ v * Scale \in Int /\ after * v \in Int /\ after * rate \in Int
  BY <1>1
<1>3. unit \in Int /\ Rounded(after * v, q) \in Int /\ (after > 0 => Rounded(worth, after) \in Int)
  BY <1>1, <1>2, RoundedInInt
<1>4. CASE ~s.exists
  <2>1. RestoreExact(s, q, v) = Row(q, unit, v * Scale, s.short)
    BY <1>4 DEF RestoreExact
  <2> HIDE DEF unit
  <2>2. s.qty + q = q
    BY <1>4
  <2> DEFINE t == Row(q, unit, v * Scale, s.short)
  <2>8. t.exists /\ t.qty = q
    BY DEF Row
  <2>9. t \in Stock
    BY <1>1, <1>2, <1>3, RowInStock
  <2> HIDE DEF t
  <2> QED
    BY <2>1, <2>2, <2>8, <2>9 DEF t
<1>5. CASE s.exists /\ after <= 0
  <2>1. RestoreExact(s, q, v) = Row(after, IF v > 0 THEN unit ELSE rate, 0, short)
    BY <1>5 DEF RestoreExact
  <2>2. (IF v > 0 THEN unit ELSE rate) \in Int
    BY <1>1, <1>3
  <2> HIDE DEF unit, rate, short, after
  <2> DEFINE t == Row(after, IF v > 0 THEN unit ELSE rate, 0, short)
  <2>8. t.exists /\ t.qty = after
    BY DEF Row
  <2>9. t \in Stock
    BY <1>1, <2>2, RowInStock
  <2> HIDE DEF t
  <2> QED
    BY <2>1, <2>8, <2>9 DEF t, after
<1>6. CASE s.exists /\ after > 0 /\ s.qty > 0
  <2> DEFINE r == IF worth > 0 THEN Rounded(worth, after) ELSE rate
  <2>1. RestoreExact(s, q, v) = Row(after, r, worth, short)
    BY <1>1, <1>6 DEF RestoreExact
  <2>2. r \in Int
    BY <1>1, <1>3, <1>6
  <2> HIDE DEF r, worth, rate, short, after
  <2> DEFINE t == Row(after, r, worth, short)
  <2>8. t.exists /\ t.qty = after
    BY DEF Row
  <2>9. t \in Stock
    BY <1>1, <1>2, <2>2, RowInStock
  <2> HIDE DEF t
  <2> QED
    BY <2>1, <2>8, <2>9 DEF t, after
<1>7. CASE s.exists /\ after > 0 /\ ~(s.qty > 0) /\ v > 0
  <2>1. RestoreExact(s, q, v) =
          [exists |-> TRUE, qty |-> after, rate |-> unit,
           value |-> Rounded(after * v, q), short |-> short]
    BY <1>1, <1>7 DEF RestoreExact
  <2> DEFINE value == Rounded(after * v, q)
  <2>2. value \in Int
    BY <1>3
  <2> HIDE DEF unit, value, short
  <2> QED
    BY <1>1, <1>3, <2>1, <2>2 DEF Stock, value
<1>8. CASE s.exists /\ after > 0 /\ ~(s.qty > 0) /\ ~(v > 0)
  <2>1. RestoreExact(s, q, v) = Row(after, rate, after * rate, short)
    BY <1>1, <1>8 DEF RestoreExact
  <2> HIDE DEF rate, short, after
  <2> DEFINE t == Row(after, rate, after * rate, short)
  <2>8. t.exists /\ t.qty = after
    BY DEF Row
  <2>9. t \in Stock
    BY <1>1, <1>2, RowInStock
  <2> HIDE DEF t
  <2> QED
    BY <2>1, <2>8, <2>9 DEF t, after
<1> QED
  BY <1>1, <1>4, <1>5, <1>6, <1>7, <1>8

LEMMA OffloadMoves ==
  ASSUME NEW s \in Stock, NEW q \in Nat \ {0}, NEW v \in Int, ~s.exists => s.qty = 0
  PROVE  /\ Offload(s, q, v) \in Stock /\ Offload(s, q, v).exists
         /\ Offload(s, q, v).qty = s.qty + q
<1> DEFINE after == s.qty + q
           unit == Rounded(v * Scale, q)
           worth == s.value + v
<1>1. /\ after \in Int /\ s.qty \in Int /\ worth \in Int /\ Scale \in Int /\ s.short \in Nat
  BY ScaleAssumption DEF Stock
<1>2. v * Scale \in Int /\ worth * Scale \in Int /\ after * v \in Int
  BY <1>1
<1>3. /\ unit \in Int /\ Rounded(after * v, q) \in Int
      /\ after # 0 => Rounded(worth * Scale, after) \in Int
  BY <1>1, <1>2, RoundedInInt
<1>4. CASE ~s.exists
  <2>1. Offload(s, q, v) = Row(q, unit, v * Scale, s.short)
    BY <1>4 DEF Offload
  <2> HIDE DEF unit
  <2>2. s.qty + q = q
    BY <1>4
  <2> DEFINE t == Row(q, unit, v * Scale, s.short)
  <2>8. t.exists /\ t.qty = q
    BY DEF Row
  <2>9. t \in Stock
    BY <1>1, <1>2, <1>3, RowInStock
  <2> HIDE DEF t
  <2> QED
    BY <2>1, <2>2, <2>8, <2>9 DEF t
<1>5. CASE s.exists /\ after = 0
  <2>1. Offload(s, q, v) = Row(0, unit, 0, s.short)
    BY <1>5 DEF Offload
  <2> HIDE DEF unit
  <2> DEFINE t == Row(0, unit, 0, s.short)
  <2>8. t.exists /\ t.qty = 0
    BY DEF Row
  <2>9. t \in Stock
    BY <1>1, <1>3, RowInStock
  <2> HIDE DEF t
  <2> QED
    BY <1>5, <2>1, <2>8, <2>9 DEF t
<1>6. CASE s.exists /\ after # 0 /\ (after < 0 \/ s.qty <= 0 \/ worth < 0)
  <2> DEFINE value == Rounded(after * v, q)
  <2>1. Offload(s, q, v) =
          [exists |-> TRUE, qty |-> after, rate |-> unit, value |-> value, short |-> s.short]
    BY <1>6 DEF Offload
  <2>2. value \in Int
    BY <1>3
  <2> HIDE DEF unit, value
  <2> QED
    BY <1>1, <1>3, <2>1, <2>2 DEF Stock
<1>7. CASE s.exists /\ after # 0 /\ ~(after < 0 \/ s.qty <= 0 \/ worth < 0)
  <2>1. Offload(s, q, v) = Row(after, Rounded(worth * Scale, after), worth * Scale, s.short)
    BY <1>7 DEF Offload
  <2> DEFINE rate == Rounded(worth * Scale, after)
  <2>2. rate \in Int
    BY <1>3, <1>7
  <2> HIDE DEF worth, after
  <2> DEFINE t == Row(after, rate, worth * Scale, s.short)
  <2>8. t.exists /\ t.qty = after
    BY DEF Row
  <2>9. t \in Stock
    BY <1>1, <1>2, <2>2, RowInStock
  <2> HIDE DEF t
  <2> QED
    BY <2>1, <2>8, <2>9 DEF t, after
<1> QED
  BY <1>4, <1>5, <1>6, <1>7

LEMMA ProduceMoves ==
  ASSUME NEW s \in Stock, NEW q \in Nat \ {0}, NEW r \in Int, ~s.exists => s.qty = 0
  PROVE  /\ Produce(s, q, r) \in Stock /\ Produce(s, q, r).exists
         /\ Produce(s, q, r).qty = s.qty + q
<1> DEFINE after == s.qty + q
           worth == s.qty * s.rate + q * r
           rate == Rounded(worth, after)
<1>1. after \in Int /\ s.qty \in Int /\ s.rate \in Int /\ s.short \in Nat
  BY DEF Stock
<1>2. worth \in Int /\ q * r \in Int
  BY <1>1
<1>3. after # 0 => rate \in Int
  BY <1>1, <1>2, RoundedInInt
<1>4. CASE ~s.exists
  <2>1. Produce(s, q, r) = Row(q, r, q * r, s.short)
    BY <1>4 DEF Produce
  <2>2. s.qty + q = q
    BY <1>4
  <2> DEFINE t == Row(q, r, q * r, s.short)
  <2>8. t.exists /\ t.qty = q
    BY DEF Row
  <2>9. t \in Stock
    BY <1>1, <1>2, RowInStock
  <2> HIDE DEF t
  <2> QED
    BY <2>1, <2>2, <2>8, <2>9 DEF t
<1>5. CASE s.exists /\ after = 0
  <2>1. Produce(s, q, r) = Row(0, 0, 0, s.short)
    BY <1>5 DEF Produce
  <2> DEFINE t == Row(0, 0, 0, s.short)
  <2>8. t.exists /\ t.qty = 0
    BY DEF Row
  <2>9. t \in Stock
    BY <1>1, RowInStock
  <2> HIDE DEF t
  <2> QED
    BY <1>5, <2>1, <2>8, <2>9 DEF t
<1>6. CASE s.exists /\ after # 0
  <2>1. Produce(s, q, r) = Row(after, rate, worth, s.short)
    BY <1>6 DEF Produce
  <2> HIDE DEF rate, worth, after
  <2> DEFINE t == Row(after, rate, worth, s.short)
  <2>8. t.exists /\ t.qty = after
    BY DEF Row
  <2>9. t \in Stock
    BY <1>1, <1>2, <1>3, <1>6, RowInStock
  <2> HIDE DEF t
  <2> QED
    BY <2>1, <2>8, <2>9 DEF t, after
<1> QED
  BY <1>4, <1>5, <1>6

LEMMA ConsumeMoves ==
  ASSUME NEW s \in Stock, NEW q \in Nat \ {0}, NEW opening \in Int, ~s.exists => s.qty = 0
  PROVE  /\ Consume(s, q, opening) \in Stock /\ Consume(s, q, opening).exists
         /\ Consume(s, q, opening).qty = s.qty - q
<1> DEFINE after == s.qty - q
           worth == IF after > 0 THEN after * s.rate ELSE 0
<1>1. after \in Int /\ s.qty \in Int /\ s.rate \in Int /\ s.short \in Nat /\ -q \in Int
  BY DEF Stock
<1>2. worth \in Int /\ -q * opening \in Int
  BY <1>1
<1>3. CASE ~s.exists
  <2>1. Consume(s, q, opening) = Row(-q, opening, -q * opening, s.short)
    BY <1>3 DEF Consume
  <2>2. s.qty - q = -q
    BY <1>3
  <2> DEFINE t == Row(-q, opening, -q * opening, s.short)
  <2>8. t.exists /\ t.qty = -q
    BY DEF Row
  <2>9. t \in Stock
    BY <1>1, <1>2, RowInStock
  <2> HIDE DEF t
  <2> QED
    BY <2>1, <2>2, <2>8, <2>9 DEF t
<1>4. CASE s.exists
  <2>1. Consume(s, q, opening) = Row(after, s.rate, worth, s.short)
    BY <1>4 DEF Consume
  <2> HIDE DEF worth, after
  <2> DEFINE t == Row(after, s.rate, worth, s.short)
  <2>8. t.exists /\ t.qty = after
    BY DEF Row
  <2>9. t \in Stock
    BY <1>1, <1>2, RowInStock
  <2> HIDE DEF t
  <2> QED
    BY <2>1, <2>8, <2>9 DEF t, after
<1> QED
  BY <1>3, <1>4

-----------------------------------------------------------------------------
(* The average rate: every writer leaves a row whose rate is its value per *)
(* unit, up to the rounding of the two columns.                            *)

\* The rounding of n / d is at most half a unit away from it.
LEMMA RoundedIsNear ==
  ASSUME NEW n \in Int, NEW d \in Nat \ {0}
  PROVE  /\ Rounded(n, d) \in Int
         /\ 2 * (Rounded(n, d) * d - n) <= d /\ 2 * (n - Rounded(n, d) * d) <= d
<1>1. ASSUME NEW a \in Int, NEW b \in Nat \ {0}
      PROVE  a \div b \in Int /\ b * (a \div b) <= a /\ a < b * (a \div b) + b
  OBVIOUS
<1>2. ASSUME NEW m \in Nat
      PROVE  /\ Nearest(m, d) \in Int
             /\ 2 * (Nearest(m, d) * d - m) <= d /\ 2 * (m - Nearest(m, d) * d) <= d
  <2>1. PICK x : x = Nearest(m, d)
    OBVIOUS
  <2>2. PICK a, b : a = 2 * m + d /\ b = 2 * d
    OBVIOUS
  <2>3. a \in Int /\ b \in Nat \ {0} /\ x = a \div b
    BY <2>1, <2>2 DEF Nearest
  <2>4. x \in Int /\ b * x <= a /\ a < b * x + b
    BY <1>1, <2>3
  <2>5. 2 * d * x <= 2 * m + d /\ 2 * m + d < 2 * d * x + 2 * d
    BY <2>2, <2>4
  <2>6. 2 * (x * d - m) <= d /\ 2 * (m - x * d) <= d
    BY <2>4, <2>5
  <2> QED
    BY <2>1, <2>4, <2>6
<1>3. Magnitude(d) = d /\ ~(d < 0) /\ Magnitude(n) \in Nat
  BY DEF Magnitude
<1>4. PICK y : y = Nearest(Magnitude(n), d)
  OBVIOUS
<1>5. y \in Int /\ 2 * (y * d - Magnitude(n)) <= d /\ 2 * (Magnitude(n) - y * d) <= d
  BY <1>2, <1>3, <1>4
<1>6. CASE n < 0
  <2>1. Rounded(n, d) = -y /\ Magnitude(n) = -n
    BY <1>3, <1>4, <1>6 DEF Rounded, Magnitude
  <2>2. (-y) * d = -(y * d)
    BY <1>5
  <2> QED
    BY <1>5, <2>1, <2>2
<1>7. CASE ~(n < 0)
  <2>1. Rounded(n, d) = y /\ Magnitude(n) = n
    BY <1>3, <1>4, <1>7 DEF Rounded, Magnitude
  <2> QED
    BY <1>5, <2>1
<1> QED
  BY <1>6, <1>7

\* Rate r of quantity q is value v per unit, up to the rounding of both.
Near(q, r, v) == 2 * (v * Scale - q * r) <= Scale + q /\ 2 * (q * r - v * Scale) <= Scale + q

Matching(s) == s.qty > 0 /\ s.value # 0 => Near(s.qty, s.rate, s.value)

LEMMA RowMatches ==
  ASSUME NEW q \in Int, NEW r \in Int, NEW worth \in Int, NEW s,
         q > 0 => 2 * (r * q - worth) <= q /\ 2 * (worth - r * q) <= q
  PROVE  Matching(Row(q, r, worth, s))
<1> DEFINE t == Row(q, r, worth, s)
<1>1. PICK v : v = Rounded(worth, Scale)
  OBVIOUS
<1>2. t.qty = q /\ t.rate = r /\ t.value = v
  BY <1>1 DEF Row
<1>3. Scale \in Nat \ {0}
  BY ScaleAssumption
<1>4. v \in Int /\ 2 * (v * Scale - worth) <= Scale /\ 2 * (worth - v * Scale) <= Scale
  BY <1>1, <1>3, RoundedIsNear
<1>5. q > 0 => Near(q, r, v)
  <2> SUFFICES ASSUME q > 0 PROVE Near(q, r, v)
    OBVIOUS
  <2>1. r * q = q * r /\ q * r \in Int /\ v * Scale \in Int
    BY <1>3, <1>4
  <2> QED
    BY <1>3, <1>4, <2>1 DEF Near
<1> HIDE DEF t
<1>6. Matching(t)
  BY <1>2, <1>5 DEF Matching
<1> QED
  BY <1>6 DEF t

\* A row whose rate is its worth per unit, rounded.
LEMMA AverageMatches ==
  ASSUME NEW q \in Int, NEW worth \in Int, NEW s, q > 0
  PROVE  Matching(Row(q, Rounded(worth, q), worth, s))
<1>1. q \in Nat \ {0}
  OBVIOUS
<1>2. PICK r : r = Rounded(worth, q)
  OBVIOUS
<1>3. r \in Int /\ 2 * (r * q - worth) <= q /\ 2 * (worth - r * q) <= q
  BY <1>1, <1>2, RoundedIsNear
<1>4. Matching(Row(q, r, worth, s))
  BY <1>3, RowMatches
<1> QED
  BY <1>2, <1>4

\* A row whose worth is its quantity at its rate.
LEMMA AtRateMatches ==
  ASSUME NEW q \in Int, NEW r \in Int, NEW s
  PROVE  Matching(Row(q, r, q * r, s))
<1>1. PICK w : w = q * r
  OBVIOUS
<1>2. w \in Int /\ r * q = w
  BY <1>1
<1>3. q > 0 => 2 * (r * q - w) <= q /\ 2 * (w - r * q) <= q
  BY <1>2
<1>4. Matching(Row(q, r, w, s))
  BY <1>2, <1>3, RowMatches
<1> QED
  BY <1>1, <1>4

LEMMA TimesMonotone ==
  ASSUME NEW a \in Int, NEW b \in Int, NEW c \in Nat, a <= b
  PROVE  c * a <= c * b
<1>1. c * (b - a) >= 0
  OBVIOUS
<1> QED
  BY <1>1

LEMMA TimesCancel ==
  ASSUME NEW a \in Int, NEW b \in Int, NEW c \in Nat \ {0}, c * a <= c * b
  PROVE  a <= b
<1> SUFFICES ASSUME b < a PROVE FALSE
  OBVIOUS
<1>1. c * (a - b) > 0
  OBVIOUS
<1> QED
  BY <1>1

\* A row that takes the exact rate of a movement, of q worth v, for its quantity.
LEMMA ExactRateMatches ==
  ASSUME NEW q \in Nat \ {0}, NEW n \in Nat \ {0}, NEW v \in Int
  PROVE  Near(n, Rounded(v * Scale, q), Rounded(n * v, q))
<1>0. Scale \in Nat \ {0}
  BY ScaleAssumption
<1>1. PICK r, w, k, m : r = Rounded(v * Scale, q) /\ w = Rounded(n * v, q)
                        /\ k = v * Scale /\ m = n * v
  OBVIOUS
<1>2. k \in Int /\ m \in Int
  BY <1>0, <1>1
<1>3. r \in Int /\ 2 * (r * q - k) <= q /\ 2 * (k - r * q) <= q
  BY <1>1, <1>2, RoundedIsNear
<1>4. w \in Int /\ 2 * (w * q - m) <= q /\ 2 * (m - w * q) <= q
  BY <1>1, <1>2, RoundedIsNear
<1>5. PICK x, y, z : x = w * Scale - n * r /\ y = r * q - k /\ z = w * q - m
  OBVIOUS
<1>6. x \in Int /\ y \in Int /\ z \in Int
  BY <1>0, <1>2, <1>3, <1>4, <1>5
<1>7. q * x = Scale * z - n * y
  <2>1. q * x = q * w * Scale - q * n * r
    BY <1>0, <1>3, <1>4, <1>5
  <2>2. Scale * z = Scale * w * q - Scale * n * v
    BY <1>0, <1>1, <1>4, <1>5
  <2>3. n * y = n * r * q - n * v * Scale
    BY <1>0, <1>1, <1>3, <1>5
  <2> QED
    BY <1>0, <1>3, <1>4, <2>1, <2>2, <2>3
<1>8. 2 * y <= q /\ -(2 * y) <= q /\ 2 * z <= q /\ -(2 * z) <= q
  <2>1. k - r * q = -y /\ m - w * q = -z
    BY <1>2, <1>3, <1>4, <1>5
  <2>2. 2 * y <= q /\ 2 * (-y) <= q /\ 2 * z <= q /\ 2 * (-z) <= q
    BY <1>3, <1>4, <1>5, <2>1
  <2> QED
    BY <1>6, <2>2
<1>9. /\ Scale * (2 * z) <= Scale * q /\ Scale * (-(2 * z)) <= Scale * q
      /\ n * (2 * y) <= n * q /\ n * (-(2 * y)) <= n * q
  BY <1>0, <1>6, <1>8, TimesMonotone
<1>10. q * (2 * x) <= q * (Scale + n) /\ q * (-(2 * x)) <= q * (Scale + n)
  BY <1>0, <1>6, <1>7, <1>9
<1>11. 2 * x <= Scale + n /\ -(2 * x) <= Scale + n
  BY <1>0, <1>6, <1>10, TimesCancel
<1>12. Near(n, r, w)
  BY <1>0, <1>3, <1>4, <1>5, <1>11 DEF Near
<1> QED
  BY <1>1, <1>12

\* A row at or below zero has nothing to match.
LEMMA ShortMatches ==
  ASSUME NEW q \in Int, NEW r, NEW worth, NEW s, q <= 0
  PROVE  Matching(Row(q, r, worth, s))
<1> DEFINE t == Row(q, r, worth, s)
<1>1. t.qty = q
  BY DEF Row
<1> HIDE DEF t
<1>2. Matching(t)
  BY <1>1 DEF Matching
<1> QED
  BY <1>2 DEF t

LEMMA ReceiveMatches ==
  ASSUME NEW s \in Stock, NEW q \in Nat \ {0}, NEW r \in Int, ~s.exists => s.short = 0
  PROVE  Matching(Receive(s, q, r))
<1>0. s.qty \in Int /\ s.value \in Int /\ s.short \in Nat /\ Scale \in Nat \ {0}
  BY ScaleAssumption DEF Stock
<1>1. CASE s.exists
  <2> DEFINE settled == IF s.qty < 0 THEN Settled(s.short, q) ELSE 0
             after == s.qty + q
             worth == Larger(s.value * Scale + (q - settled) * r, 0)
  <2>1. settled \in Int /\ after \in Int
    BY <1>0 DEF Settled, Smaller
  <2>2. worth \in Int
    BY <1>0, <2>1 DEF Larger
  <2>3. Receive(s, q, r) = IF after > 0
                           THEN Row(after, Rounded(worth, after), worth, s.short - settled)
                           ELSE Row(after, Larger(r, 0), 0, s.short - settled)
    BY <1>1 DEF Receive, Incoming
  <2> HIDE DEF after, worth, settled
  <2>4. CASE after > 0
    BY <2>1, <2>2, <2>3, <2>4, AverageMatches
  <2>5. CASE ~(after > 0)
    BY <2>1, <2>3, <2>5, ShortMatches
  <2> QED
    BY <2>4, <2>5
<1>2. CASE ~s.exists
  <2> DEFINE worth == q * r
  <2>1. Settled(s.short, q) = 0 /\ (q - 0) * r = worth /\ worth \in Int /\ s.short - 0 = 0
    BY <1>0, <1>2 DEF Settled, Smaller
  <2>2. Receive(s, q, r) = Row(q, IF worth > 0 THEN Rounded(worth, q) ELSE r, worth, 0)
    BY <1>0, <1>2, <2>1 DEF Receive, FirstIncoming
  <2>3. CASE worth > 0
    BY <2>1, <2>2, <2>3, AverageMatches
  <2>4. CASE ~(worth > 0)
    <3>1. Matching(Row(q, r, q * r, 0))
      BY AtRateMatches
    <3> QED
      BY <2>2, <2>4, <3>1
  <2> QED
    BY <2>3, <2>4
<1> QED
  BY <1>1, <1>2

LEMMA IssueMatches ==
  ASSUME NEW s \in Stock, NEW q \in Nat \ {0}
  PROVE  Matching(Issue(s, q))
<1>0. s.qty \in Int /\ s.value \in Int /\ s.rate \in Int /\ s.short \in Nat /\ Scale \in Nat \ {0}
  BY ScaleAssumption DEF Stock
<1>1. CASE s.exists
  <2> DEFINE after == s.qty - q
             rate == Larger(s.rate, 0)
             worth == Larger(s.value * Scale - q * rate, 0)
  <2>1. after \in Int /\ rate \in Int
    BY <1>0 DEF Larger
  <2>2. worth \in Int
    BY <1>0, <2>1 DEF Larger
  <2>3. Issue(s, q) = IF after > 0
                      THEN Row(after, Rounded(worth, after), worth, s.short)
                      ELSE Row(after, rate, 0, s.short + IncrementalShortage(s.qty, after))
    BY <1>1 DEF Issue, Outgoing
  <2> HIDE DEF after, worth, rate
  <2>4. CASE after > 0
    BY <2>1, <2>2, <2>3, <2>4, AverageMatches
  <2>5. CASE ~(after > 0)
    BY <2>1, <2>3, <2>5, ShortMatches
  <2> QED
    BY <2>4, <2>5
<1>2. CASE ~s.exists
  BY <1>2, ShortMatches DEF Issue, FirstOutgoing
<1> QED
  BY <1>1, <1>2

LEMMA ReverseExactMatches ==
  ASSUME NEW s \in Stock, NEW q \in Nat \ {0}, NEW v \in Int, NEW company \in BOOLEAN, s.exists
  PROVE  Matching(ReverseExact(s, q, v, company))
<1>0. s.qty \in Int /\ s.value \in Int /\ s.rate \in Int /\ s.short \in Nat /\ Scale \in Nat \ {0}
  BY ScaleAssumption DEF Stock
<1> DEFINE after == s.qty - q
           worth == Larger(s.value - v, 0) * Scale
           short == s.short + IF company THEN IncrementalShortage(s.qty, after) ELSE 0
<1>1. after \in Int /\ Larger(s.value - v, 0) \in Int
  BY <1>0 DEF Larger
<1>2. worth \in Int
  BY <1>0, <1>1
<1>3. ReverseExact(s, q, v, company) = IF after > 0
                                       THEN Row(after, Rounded(worth, after), worth, s.short)
                                       ELSE Row(after, Larger(s.rate, 0), 0, short)
  BY DEF ReverseExact
<1> HIDE DEF after, worth, short
<1>4. CASE after > 0
  BY <1>1, <1>2, <1>3, <1>4, AverageMatches
<1>5. CASE ~(after > 0)
  BY <1>1, <1>3, <1>5, ShortMatches
<1> QED
  BY <1>4, <1>5

LEMMA RestoreSaleMatches ==
  ASSUME NEW s \in Stock, NEW q \in Nat \ {0}
  PROVE  Matching(RestoreSale(s, q))
<1>0. s.qty \in Int /\ s.value \in Int /\ s.rate \in Int /\ s.short \in Nat /\ Scale \in Nat \ {0}
  BY ScaleAssumption DEF Stock
<1> DEFINE after == s.qty + q
           rate == Larger(s.rate, 0)
           worth == IF s.qty > 0 THEN Larger(s.value, 0) * Scale + q * rate ELSE after * rate
           short == ReleaseResolved(s, q)
<1>1. after \in Int /\ rate \in Int /\ Larger(s.value, 0) \in Int
  BY <1>0 DEF Larger
<1>2. worth \in Int
  BY <1>0, <1>1
<1>3. RestoreSale(s, q) = IF after > 0 THEN Row(after, Rounded(worth, after), worth, short)
                          ELSE Row(after, rate, 0, short)
  BY DEF RestoreSale
<1> HIDE DEF after, worth, rate, short
<1>4. CASE after > 0
  BY <1>1, <1>2, <1>3, <1>4, AverageMatches
<1>5. CASE ~(after > 0)
  BY <1>1, <1>3, <1>5, ShortMatches
<1> QED
  BY <1>4, <1>5

\* The value of the movement that is undone is not negative.
LEMMA RestoreExactMatches ==
  ASSUME NEW s \in Stock, NEW q \in Nat \ {0}, NEW v \in Nat
  PROVE  Matching(RestoreExact(s, q, v))
<1>0. s.qty \in Int /\ s.value \in Int /\ s.rate \in Int /\ s.short \in Nat /\ Scale \in Nat \ {0}
  BY ScaleAssumption DEF Stock
<1> DEFINE after == s.qty + q
           short == ReleaseResolved(s, q)
           worth == (Larger(s.value, 0) + v) * Scale
           rate == Larger(s.rate, 0)
<1>1. after \in Int /\ rate \in Int /\ v * Scale \in Nat
  BY <1>0 DEF Larger
<1>2. worth \in Nat
  <2>1. Larger(s.value, 0) + v \in Nat
    BY <1>0 DEF Larger
  <2> QED
    BY <1>0, <2>1
<1>3. CASE ~s.exists
  <2>1. RestoreExact(s, q, v) = Row(q, Rounded(v * Scale, q), v * Scale, s.short)
    BY <1>3 DEF RestoreExact
  <2> QED
    BY <1>1, <2>1, AverageMatches
<1>4. CASE s.exists /\ after <= 0
  <2>1. RestoreExact(s, q, v) = Row(after, IF v > 0 THEN Rounded(v * Scale, q) ELSE rate, 0, short)
    BY <1>4 DEF RestoreExact
  <2> HIDE DEF after
  <2> QED
    BY <1>1, <1>4, <2>1, ShortMatches
<1>5. CASE s.exists /\ ~(after <= 0) /\ s.qty > 0
  <2>1. RestoreExact(s, q, v) = Row(after, IF worth > 0 THEN Rounded(worth, after) ELSE rate, worth, short)
    BY <1>5 DEF RestoreExact
  <2> HIDE DEF after, worth, rate, short
  <2>2. CASE worth > 0
    BY <1>1, <1>2, <1>5, <2>1, <2>2, AverageMatches
  <2>3. CASE worth = 0
    <3> DEFINE t == Row(after, rate, 0, short)
    <3>1. t.value = 0 /\ t.qty = after
      BY RoundedInNat, ScaleAssumption DEF Row
    <3> HIDE DEF t
    <3>2. Matching(t)
      BY <3>1 DEF Matching
    <3> QED
      BY <2>1, <2>3, <3>2 DEF t
  <2> QED
    BY <1>2, <2>2, <2>3
<1>6. CASE s.exists /\ ~(after <= 0) /\ ~(s.qty > 0) /\ v > 0
  <2> DEFINE r == Rounded(v * Scale, q)
             w == Rounded(after * v, q)
             t == [exists |-> TRUE, qty |-> after, rate |-> r, value |-> w, short |-> short]
  <2>1. RestoreExact(s, q, v) = t
    BY <1>6 DEF RestoreExact
  <2>2. t.qty = after /\ t.rate = r /\ t.value = w
    OBVIOUS
  <2>3. after \in Nat \ {0}
    BY <1>1, <1>6
  <2> HIDE DEF after, short
  <2>4. Near(after, r, w)
    BY <2>3, ExactRateMatches
  <2> HIDE DEF t, r, w
  <2>5. Matching(t)
    BY <2>2, <2>4 DEF Matching
  <2> QED
    BY <2>1, <2>5
<1>7. CASE s.exists /\ ~(after <= 0) /\ ~(s.qty > 0) /\ ~(v > 0)
  <2>1. RestoreExact(s, q, v) = Row(after, rate, after * rate, short)
    BY <1>7 DEF RestoreExact
  <2> HIDE DEF after, rate, short
  <2> QED
    BY <1>1, <2>1, AtRateMatches
<1> QED
  BY <1>3, <1>4, <1>5, <1>6, <1>7

LEMMA OffloadMatches ==
  ASSUME NEW s \in Stock, NEW q \in Nat \ {0}, NEW v \in Int
  PROVE  Matching(Offload(s, q, v))
<1>0. s.qty \in Int /\ s.value \in Int /\ s.rate \in Int /\ s.short \in Nat /\ Scale \in Nat \ {0}
  BY ScaleAssumption DEF Stock
<1> DEFINE after == s.qty + q
           worth == s.value + v
<1>1. after \in Int /\ worth \in Int /\ v * Scale \in Int
  BY <1>0
<1>2. worth * Scale \in Int
  BY <1>0, <1>1
<1>3. CASE ~s.exists
  <2>1. Offload(s, q, v) = Row(q, Rounded(v * Scale, q), v * Scale, s.short)
    BY <1>3 DEF Offload
  <2> QED
    BY <1>1, <2>1, AverageMatches
<1>4. CASE s.exists /\ after = 0
  <2>1. Offload(s, q, v) = Row(0, Rounded(v * Scale, q), 0, s.short)
    BY <1>4 DEF Offload
  <2> QED
    BY <2>1, ShortMatches
<1>5. CASE s.exists /\ after # 0 /\ (after < 0 \/ s.qty <= 0 \/ worth < 0)
  <2> DEFINE r == Rounded(v * Scale, q)
             w == Rounded(after * v, q)
             t == [exists |-> TRUE, qty |-> after, rate |-> r, value |-> w, short |-> s.short]
  <2>1. Offload(s, q, v) = t
    BY <1>5 DEF Offload
  <2>2. t.qty = after /\ t.rate = r /\ t.value = w
    OBVIOUS
  <2> HIDE DEF after
  <2>3. after > 0 => Near(after, r, w)
    BY <1>1, ExactRateMatches
  <2> HIDE DEF t, r, w
  <2>4. Matching(t)
    BY <2>2, <2>3 DEF Matching
  <2> QED
    BY <2>1, <2>4
<1>6. CASE s.exists /\ after # 0 /\ ~(after < 0 \/ s.qty <= 0 \/ worth < 0)
  <2>1. Offload(s, q, v) = Row(after, Rounded(worth * Scale, after), worth * Scale, s.short)
    BY <1>6 DEF Offload
  <2>2. after > 0
    BY <1>1, <1>6
  <2> HIDE DEF after, worth
  <2> QED
    BY <1>1, <1>2, <2>1, <2>2, AverageMatches
<1> QED
  BY <1>3, <1>4, <1>5, <1>6

LEMMA ProduceMatches ==
  ASSUME NEW s \in Stock, NEW q \in Nat \ {0}, NEW r \in Int
  PROVE  Matching(Produce(s, q, r))
<1>0. s.qty \in Int /\ s.rate \in Int
  BY DEF Stock
<1> DEFINE after == s.qty + q
           worth == s.qty * s.rate + q * r
<1>1. after \in Int /\ worth \in Int
  BY <1>0
<1>2. CASE ~s.exists
  BY <1>2, AtRateMatches DEF Produce
<1>3. CASE s.exists /\ after = 0
  BY <1>3, ShortMatches DEF Produce
<1>4. CASE s.exists /\ after # 0
  <2>1. Produce(s, q, r) = Row(after, Rounded(worth, after), worth, s.short)
    BY <1>4 DEF Produce
  <2> HIDE DEF after, worth
  <2>2. CASE after > 0
    BY <1>1, <2>1, <2>2, AverageMatches
  <2>3. CASE after <= 0
    BY <1>1, <2>1, <2>3, ShortMatches
  <2> QED
    BY <1>1, <2>2, <2>3
<1> QED
  BY <1>2, <1>3, <1>4

LEMMA ConsumeMatches ==
  ASSUME NEW s \in Stock, NEW q \in Nat \ {0}, NEW opening \in Int
  PROVE  Matching(Consume(s, q, opening))
<1>0. s.qty \in Int /\ s.rate \in Int
  BY DEF Stock
<1> DEFINE after == s.qty - q
           r == s.rate
<1>1. after \in Int /\ r \in Int
  BY <1>0
<1>2. CASE ~s.exists
  BY <1>2, ShortMatches DEF Consume
<1>3. CASE s.exists
  <2>1. Consume(s, q, opening) = Row(after, r, IF after > 0 THEN after * r ELSE 0, s.short)
    BY <1>3 DEF Consume
  <2> HIDE DEF after, r
  <2>2. CASE after > 0
    BY <1>1, <2>1, <2>2, AtRateMatches
  <2>3. CASE after <= 0
    BY <1>1, <2>1, <2>3, ShortMatches
  <2> QED
    BY <1>1, <2>2, <2>3
<1> QED
  BY <1>2, <1>3

-----------------------------------------------------------------------------
(* Whole units: with a scale of one, values are exact, and every operation *)
(* of the helper leaves a rate that is the rounded value per unit.         *)

\* The quotient is the only number within half a unit, halves rounded up.
LEMMA RoundedIsUnique ==
  ASSUME NEW n \in Nat, NEW d \in Nat \ {0}, NEW r \in Nat
  PROVE  Rounded(n, d) = r <=> 2 * (d * r) <= 2 * n + d /\ 2 * n + d < 2 * (d * r) + 2 * d
<1>1. ASSUME NEW a \in Nat, NEW b \in Nat \ {0}
      PROVE  a \div b \in Nat /\ b * (a \div b) <= a /\ a < b * (a \div b) + b
  OBVIOUS
<1>2. ASSUME NEW a \in Nat, NEW b \in Nat \ {0}, NEW x \in Nat, NEW y \in Nat,
             b * x <= a, a < b * x + b, b * y <= a, a < b * y + b
      PROVE  x <= y
  <2> SUFFICES ASSUME y + 1 <= x PROVE FALSE
    OBVIOUS
  <2>1. b * (y + 1) <= b * x /\ b * (y + 1) = b * y + b
    BY TimesMonotone
  <2>2. b * x \in Int /\ b * y \in Int
    OBVIOUS
  <2> QED
    BY <1>2, <2>1, <2>2
<1>3. PICK a, b : a = 2 * n + d /\ b = 2 * d
  OBVIOUS
<1>4. a \in Nat /\ b \in Nat \ {0} /\ b * r = 2 * (d * r)
  BY <1>3
<1>5. Rounded(n, d) = a \div b
  BY <1>3 DEF Rounded, Nearest, Magnitude
<1>6. PICK x : x = a \div b
  OBVIOUS
<1>7. x \in Nat /\ b * x <= a /\ a < b * x + b
  BY <1>1, <1>4, <1>6
<1>8. x = r => b * r <= a /\ a < b * r + b
  BY <1>7
<1>9. ASSUME b * r <= a, a < b * r + b PROVE x = r
  BY <1>2, <1>4, <1>7, <1>9
<1>10. x = r <=> b * r <= a /\ a < b * r + b
  BY <1>8, <1>9
<1> QED
  BY <1>3, <1>4, <1>5, <1>6, <1>10

\* Quantity q at its rounded rate r leaves the rounded rate of the rest alone.
LEMMA RoundedIsKept ==
  ASSUME NEW v \in Nat, NEW n \in Nat \ {0}, NEW q \in Nat, NEW r \in Nat, Rounded(v, n) = r
  PROVE  Rounded(v + q * r, n + q) = r
<1>1. PICK x, y : x = n * r /\ y = q * r
  OBVIOUS
<1>2. x \in Nat /\ y \in Nat /\ (n + q) * r = x + y
  BY <1>1, ProductInNat
<1>3. 2 * x <= 2 * v + n /\ 2 * v + n < 2 * x + 2 * n
  BY <1>1, RoundedIsUnique
<1>4. /\ 2 * ((n + q) * r) <= 2 * (v + y) + (n + q)
      /\ 2 * (v + y) + (n + q) < 2 * ((n + q) * r) + 2 * (n + q)
  BY <1>2, <1>3
<1>5. Rounded(v + y, n + q) = r
  BY <1>2, <1>4, RoundedIsUnique
<1> QED
  BY <1>1, <1>5

LEMMA RoundedIsExact ==
  ASSUME NEW d \in Nat \ {0}, NEW r \in Nat
  PROVE  Rounded(d * r, d) = r
<1>1. PICK x : x = d * r
  OBVIOUS
<1>2. x \in Nat
  BY <1>1, ProductInNat
<1>3. 2 * (d * r) <= 2 * x + d /\ 2 * x + d < 2 * (d * r) + 2 * d
  BY <1>1, <1>2
<1> QED
  BY <1>1, <1>2, <1>3, RoundedIsUnique

LEMMA WholeIsExact == ASSUME NEW n \in Nat PROVE Rounded(n, 1) = n
<1>1. 1 * n = n
  OBVIOUS
<1> QED
  BY <1>1, RoundedIsExact

\* The rate of stock on hand is its value per unit, rounded.
WholeRate(s) == s.qty > 0 => s.rate = Rounded(s.value, s.qty)

LEMMA WholeRow ==
  ASSUME Scale = 1, NEW q \in Int, NEW r, NEW worth \in Nat, NEW s
  PROVE  /\ Row(q, r, worth, s) = [exists |-> TRUE, qty |-> q, rate |-> r, value |-> worth, short |-> s]
         /\ (q > 0 => r = Rounded(worth, q)) => WholeRate(Row(q, r, worth, s))
<1> DEFINE t == [exists |-> TRUE, qty |-> q, rate |-> r, value |-> worth, short |-> s]
<1>1. Row(q, r, worth, s) = t
  BY WholeIsExact DEF Row
<1>2. t.qty = q /\ t.rate = r /\ t.value = worth
  OBVIOUS
<1> HIDE DEF t
<1>3. (q > 0 => r = Rounded(worth, q)) => WholeRate(t)
  BY <1>2 DEF WholeRate
<1> QED
  BY <1>1, <1>3 DEF t

LEMMA SoundFacts ==
  ASSUME NEW s \in SoundStock
  PROVE  /\ s.exists \in BOOLEAN /\ s.qty \in Int /\ s.value \in Nat /\ s.rate \in Nat
         /\ s.short \in Nat /\ s.short = Larger(-s.qty, 0)
         /\ Larger(s.rate, 0) = s.rate /\ Larger(s.value, 0) = s.value
         /\ s.qty <= 0 => s.value = 0
         /\ ~s.exists => s.qty = 0
         /\ s = [exists |-> s.exists, qty |-> s.qty, rate |-> s.rate, value |-> s.value,
                 short |-> s.short]
BY DEF SoundStock, Stock, Larger

LEMMA IssueKeepsWholeRate ==
  ASSUME Scale = 1, NEW s \in SoundStock, NEW q \in Nat \ {0}
  PROVE  WholeRate(Issue(s, q))
<1> DEFINE after == s.qty - q
           worth == Larger(s.value * Scale - q * s.rate, 0)
<1>1. s.qty \in Int /\ s.value \in Nat /\ s.rate \in Nat /\ Larger(s.rate, 0) = s.rate
  BY SoundFacts
<1>2. q * s.rate \in Nat /\ s.value * Scale \in Nat
  BY <1>1, ProductInNat
<1>3. worth \in Nat /\ after \in Int /\ -q \in Int
  BY <1>1, <1>2 DEF Larger
<1>4. CASE ~s.exists
  <2>1. Issue(s, q) = Row(-q, 0, 0, s.short + q)
    BY <1>4 DEF Issue, FirstOutgoing
  <2> QED
    BY <1>3, <2>1, WholeRow
<1>5. CASE s.exists /\ after > 0
  <2>1. Issue(s, q) = Row(after, Rounded(worth, after), worth, s.short)
    BY <1>1, <1>5 DEF Issue, Outgoing
  <2> HIDE DEF after, worth
  <2> QED
    BY <1>3, <2>1, WholeRow
<1>6. CASE s.exists /\ ~(after > 0)
  <2>1. PICK t : Issue(s, q) = Row(after, s.rate, 0, t)
    BY <1>1, <1>6 DEF Issue, Outgoing
  <2> HIDE DEF after
  <2> QED
    BY <1>3, <1>6, <2>1, WholeRow
<1> QED
  BY <1>4, <1>5, <1>6

LEMMA ReceiveKeepsWholeRate ==
  ASSUME Scale = 1, NEW s \in SoundStock, NEW q \in Nat \ {0}, NEW r \in Nat
  PROVE  WholeRate(Receive(s, q, r))
<1>1. /\ s.qty \in Int /\ s.value \in Nat /\ s.short \in Nat
      /\ (~s.exists => s.short = 0)
  BY SoundFacts DEF Larger
<1>2. CASE ~s.exists
  <2>1. Settled(s.short, q) = 0 /\ q - 0 = q
    BY <1>1, <1>2 DEF Settled, Smaller
  <2>2. PICK worth : worth = q * r
    OBVIOUS
  <2>3. worth \in Nat
    BY <2>2, ProductInNat
  <2>4. Receive(s, q, r) = Row(q, IF worth > 0 THEN Rounded(worth, q) ELSE r, worth, s.short - 0)
    BY <1>2, <2>1, <2>2 DEF Receive, FirstIncoming
  <2>5. Rounded(worth, q) = r
    BY <2>2, RoundedIsExact
  <2> QED
    BY <2>3, <2>4, <2>5, WholeRow
<1>3. CASE s.exists
  <2> DEFINE settled == IF s.qty < 0 THEN Settled(s.short, q) ELSE 0
             after == s.qty + q
             worth == Larger(s.value * Scale + (q - settled) * r, 0)
  <2>1. q - settled \in Nat
    BY <1>1 DEF Settled, Smaller
  <2>2. s.value * Scale \in Nat /\ (q - settled) * r \in Nat
    BY <1>1, <2>1, ProductInNat
  <2>3. worth \in Nat /\ after \in Int
    BY <1>1, <2>2 DEF Larger
  <2>4. CASE after > 0
    <3>1. Receive(s, q, r) = Row(after, Rounded(worth, after), worth, s.short - settled)
      BY <1>3, <2>4 DEF Receive, Incoming
    <3> HIDE DEF after, worth, settled
    <3> QED
      BY <2>3, <3>1, WholeRow
  <2>5. CASE ~(after > 0)
    <3>1. Receive(s, q, r) = Row(after, Larger(r, 0), 0, s.short - settled)
      BY <1>3, <2>5 DEF Receive, Incoming
    <3> HIDE DEF after, settled
    <3> QED
      BY <2>3, <2>5, <3>1, WholeRow
  <2> QED
    BY <2>4, <2>5
<1> QED
  BY <1>2, <1>3

LEMMA ReverseExactKeepsWholeRate ==
  ASSUME Scale = 1, NEW s \in SoundStock, WholeRate(s), NEW q \in Nat \ {0}, NEW v \in Nat,
         NEW company
  PROVE  WholeRate(ReverseExact(s, q, v, company))
<1> DEFINE after == s.qty - q
           worth == Larger(s.value - v, 0) * Scale
<1>1. s.qty \in Int /\ s.value \in Nat /\ s.rate \in Nat
  BY SoundFacts
<1>2. worth \in Nat /\ after \in Int
  BY <1>1 DEF Larger
<1>3. CASE ~s.exists
  BY <1>3 DEF ReverseExact
<1>4. CASE s.exists /\ after > 0
  <2>1. ReverseExact(s, q, v, company) = Row(after, Rounded(worth, after), worth, s.short)
    BY <1>4 DEF ReverseExact
  <2> HIDE DEF after, worth
  <2> QED
    BY <1>2, <2>1, WholeRow
<1>5. CASE s.exists /\ ~(after > 0)
  <2>1. PICK t : ReverseExact(s, q, v, company) = Row(after, Larger(s.rate, 0), 0, t)
    BY <1>5 DEF ReverseExact
  <2> HIDE DEF after
  <2> QED
    BY <1>2, <1>5, <2>1, WholeRow
<1> QED
  BY <1>3, <1>4, <1>5

\* An issue that was worth its quantity at a rate is undone.
LEMMA RestoreExactKeepsWholeRate ==
  ASSUME Scale = 1, NEW s \in SoundStock, WholeRate(s), NEW q \in Nat \ {0}, NEW r \in Nat
  PROVE  WholeRate(RestoreExact(s, q, q * r))
<1> DEFINE after == s.qty + q
           short == ReleaseResolved(s, q)
<1>1. /\ s.qty \in Int /\ s.value \in Nat /\ s.rate \in Nat /\ after \in Int
      /\ Larger(s.rate, 0) = s.rate /\ Larger(s.value, 0) = s.value
  BY SoundFacts
<1>2. PICK v : v = q * r
  OBVIOUS
<1>3. v \in Nat /\ v * Scale = v /\ Rounded(v, q) = r
  BY <1>2, ProductInNat, RoundedIsExact
<1>4. CASE ~s.exists
  <2>1. RestoreExact(s, q, v) = Row(q, Rounded(v, q), v, s.short)
    BY <1>3, <1>4 DEF RestoreExact
  <2> QED
    BY <1>2, <1>3, <2>1, WholeRow
<1>5. CASE s.exists /\ after <= 0
  <2>1. PICK x : RestoreExact(s, q, v) = Row(after, x, 0, short)
    BY <1>5 DEF RestoreExact
  <2> HIDE DEF after, short
  <2> QED
    BY <1>1, <1>2, <1>5, <2>1, WholeRow
<1>6. CASE s.exists /\ ~(after <= 0) /\ s.qty > 0
  <2>1. (s.value + v) * Scale = s.value + v /\ s.value + v \in Nat
    BY <1>1, <1>3
  <2>2. RestoreExact(s, q, v)
        = Row(after, IF s.value + v > 0 THEN Rounded(s.value + v, after) ELSE s.rate,
              s.value + v, short)
    BY <1>1, <1>6, <2>1 DEF RestoreExact
  <2>3. CASE s.value + v > 0
    BY <1>1, <1>2, <2>1, <2>2, <2>3, WholeRow
  <2>4. CASE ~(s.value + v > 0)
    <3>1. s.value = 0 /\ s.value + v = 0
      BY <1>1, <1>3, <2>4
    <3>2. s.rate = 0
      BY <1>1, <1>6, <3>1, RoundedInNat DEF WholeRate
    <3>3. Rounded(0, after) = 0
      BY <1>1, <1>6, RoundedInNat
    <3>4. RestoreExact(s, q, v) = Row(after, 0, 0, short)
      BY <2>2, <2>4, <3>1, <3>2
    <3> QED
      BY <1>1, <1>2, <3>3, <3>4, WholeRow
  <2> QED
    BY <2>3, <2>4
<1>7. CASE s.exists /\ ~(after <= 0) /\ ~(s.qty > 0)
  <2>1. after \in Nat \ {0}
    BY <1>1, <1>7
  <2>2. CASE v > 0
    <3>1. Rounded(after * v, q) = after * r
      <4>1. after * v = q * (after * r) /\ after * r \in Nat
        BY <1>2, <2>1, ProductInNat
      <4> QED
        BY <4>1, RoundedIsExact
    <3>2. RestoreExact(s, q, v)
          = [exists |-> TRUE, qty |-> after, rate |-> r, value |-> after * r, short |-> short]
      BY <1>3, <1>7, <2>2, <3>1 DEF RestoreExact
    <3>3. Rounded(after * r, after) = r
      BY <2>1, RoundedIsExact
    <3> QED
      BY <1>2, <3>2, <3>3 DEF WholeRate
  <2>3. CASE ~(v > 0)
    <3>1. RestoreExact(s, q, v) = Row(after, s.rate, after * s.rate, short)
      BY <1>1, <1>7, <2>3 DEF RestoreExact
    <3>2. after * s.rate \in Nat /\ Rounded(after * s.rate, after) = s.rate
      BY <1>1, <2>1, ProductInNat, RoundedIsExact
    <3> HIDE DEF after, short
    <3> QED
      BY <1>1, <1>2, <3>1, <3>2, WholeRow
  <2> QED
    BY <2>2, <2>3
<1> QED
  BY <1>4, <1>5, <1>6, <1>7

-----------------------------------------------------------------------------
(* Undoing a sale and making it again, at any scale: what is on hand moves *)
(* in value by a cent at most.                                             *)

\* Putting q in at rate r moves the rate, by less than would be worth a cent for q.
LEMMA RateIsNearlyKept ==
  ASSUME NEW n \in Nat \ {0}, NEW q \in Nat \ {0}, NEW v \in Nat, NEW r \in Nat, Near(n, r, v),
         NEW x, x = q * (Rounded(v * Scale + q * r, n + q) - r)
  PROVE  x \in Int /\ x <= Scale /\ -Scale < x
<1>0. Scale \in Nat \ {0}
  BY ScaleAssumption
<1>1. PICK w, m, y : w = v * Scale + q * r /\ m = n + q /\ y = Rounded(w, m)
  OBVIOUS
<1>2. w \in Nat /\ m \in Nat \ {0} /\ y \in Nat
  <2>1. v * Scale \in Nat /\ q * r \in Nat
    BY <1>0, ProductInNat
  <2>2. w \in Nat /\ m \in Nat \ {0}
    BY <1>1, <2>1
  <2> QED
    BY <1>1, <2>2, RoundedInNat
<1>3. 2 * (m * y) <= 2 * w + m /\ 2 * w + m < 2 * (m * y) + 2 * m
  BY <1>1, <1>2, RoundedIsUnique
<1>4. PICK d : d = y - r
  OBVIOUS
<1>5. d \in Int /\ x = q * d /\ x \in Int
  BY <1>1, <1>2, <1>4
\* The exact amount is this far from what the old rate makes of it.
<1>6. PICK e : e = v * Scale - n * r
  OBVIOUS
<1>7. e \in Int /\ 2 * e <= Scale + n /\ -(Scale + n) <= 2 * e
  BY <1>0, <1>6 DEF Near
<1>8. m * y = m * d + m * r /\ m * r = n * r + q * r /\ m * d \in Int
  BY <1>1, <1>2, <1>4, <1>5
<1>9. w - m * r = e
  BY <1>0, <1>1, <1>2, <1>6, <1>8
<1>10. 2 * (m * d) <= Scale + n + m /\ -(Scale + n + m) < 2 * (m * d)
  <2>1. PICK a, b, c : a = m * y /\ b = m * r /\ c = m * d
    OBVIOUS
  <2>2. a \in Int /\ b \in Int /\ c \in Int /\ a = c + b /\ w - b = e
    BY <1>2, <1>8, <1>9, <2>1
  <2>3. 2 * a <= 2 * w + m /\ 2 * w + m < 2 * a + 2 * m
    BY <1>3, <2>1
  <2>4. 2 * c <= Scale + n + m /\ -(Scale + n + m) < 2 * c
    BY <1>0, <1>2, <1>7, <2>2, <2>3
  <2> QED
    BY <2>1, <2>4
<1>11. CASE q >= Scale
  <2>1. Scale + n + m <= 2 * m
    BY <1>0, <1>1, <1>11
  <2>2. PICK c : c = m * d
    OBVIOUS
  <2>3. c \in Int /\ c <= m /\ -m < c
    BY <1>0, <1>2, <1>8, <1>10, <2>1, <2>2
  <2>4. d <= 1
    <3> SUFFICES ASSUME 2 <= d PROVE FALSE
      BY <1>5
    <3>1. m * 2 <= m * d
      BY <1>2, <1>5, TimesMonotone
    <3> QED
      BY <1>2, <2>2, <2>3, <3>1
  <2>5. -1 < d
    <3> SUFFICES ASSUME d <= -1 PROVE FALSE
      BY <1>5
    <3>1. m * d <= m * (-1)
      BY <1>2, <1>5, TimesMonotone
    <3> QED
      BY <1>2, <2>2, <2>3, <3>1
  <2>6. CASE d = 0
    BY <1>0, <1>5, <2>6
  <2>7. CASE d = 1
    <3>1. 2 * m <= Scale + n + m
      BY <1>2, <1>10, <2>7
    <3>2. q <= Scale /\ x = q
      BY <1>0, <1>1, <1>5, <2>7, <3>1
    <3> QED
      BY <1>0, <3>2
  <2> QED
    BY <1>5, <2>4, <2>5, <2>6, <2>7
<1>12. CASE q < Scale
  <2>1. PICK c, k : c = m * d /\ k = Scale + n + m
    OBVIOUS
  <2>2. c \in Int /\ k \in Nat /\ 2 * c <= k /\ -k <= 2 * c
    BY <1>0, <1>2, <1>8, <1>10, <2>1
  <2>3. q * (2 * c) <= q * k /\ q * (-k) <= q * (2 * c)
    BY <2>2, TimesMonotone
  <2>4. q * (2 * c) = m * (2 * x) /\ q * (-k) = -(q * k)
    BY <1>2, <1>5, <2>1, <2>2
  <2>5. q * k < m * (2 * Scale)
    <3>1. q * k = q * Scale + 2 * (q * n) + q * q
      BY <1>0, <1>1, <2>1
    <3>2. m * (2 * Scale) = 2 * (n * Scale) + 2 * (q * Scale)
      BY <1>0, <1>1
    <3>3. n * q <= n * Scale /\ n * q = q * n
      BY <1>0, <1>12, TimesMonotone
    <3>4. q * q < q * Scale
      <4>1. q * (q + 1) <= q * Scale /\ q * (q + 1) = q * q + q
        BY <1>0, <1>12, TimesMonotone
      <4>2. q * q \in Int /\ q * Scale \in Int
        BY <1>0
      <4> QED
        BY <4>1, <4>2
    <3>5. PICK a, b, c2, d2 : a = q * Scale /\ b = q * n /\ c2 = q * q /\ d2 = n * Scale
      OBVIOUS
    <3>6. a \in Int /\ b \in Int /\ c2 \in Int /\ d2 \in Int
      BY <1>0, <3>5
    <3>7. a + 2 * b + c2 < 2 * d2 + 2 * a
      BY <3>3, <3>4, <3>5, <3>6
    <3> QED
      BY <3>1, <3>2, <3>5, <3>7
  <2>6. m * (2 * x) < m * (2 * Scale) /\ -(m * (2 * Scale)) < m * (2 * x)
    <3>1. PICK a, b, c2 : a = m * (2 * x) /\ b = q * k /\ c2 = m * (2 * Scale)
      OBVIOUS
    <3>2. a \in Int /\ b \in Int /\ c2 \in Int
      BY <1>0, <1>2, <1>5, <2>2, <3>1
    <3> QED
      BY <2>3, <2>4, <2>5, <3>1, <3>2
  <2>7. x < Scale
    <3> SUFFICES ASSUME Scale <= x PROVE FALSE
      BY <1>0, <1>5
    <3>1. m * (2 * Scale) <= m * (2 * x)
      BY <1>0, <1>2, <1>5, TimesMonotone
    <3>2. m * (2 * Scale) \in Int /\ m * (2 * x) \in Int
      BY <1>0, <1>2, <1>5
    <3> QED
      BY <2>6, <3>1, <3>2
  <2>8. -Scale < x
    <3> SUFFICES ASSUME x <= -Scale PROVE FALSE
      BY <1>0, <1>5
    <3>1. m * (2 * x) <= m * (-(2 * Scale)) /\ m * (-(2 * Scale)) = -(m * (2 * Scale))
      BY <1>0, <1>2, <1>5, TimesMonotone
    <3>2. m * (2 * Scale) \in Int /\ m * (2 * x) \in Int
      BY <1>0, <1>2, <1>5
    <3> QED
      BY <2>6, <3>1, <3>2
  <2> QED
    BY <1>0, <1>5, <2>7, <2>8
<1> QED
  BY <1>0, <1>11, <1>12

LEMMA ValueIsNearlyKept ==
  ASSUME NEW n \in Nat \ {0}, NEW q \in Nat \ {0}, NEW v \in Nat, NEW r \in Nat, Near(n, r, v),
         NEW w, w = v * Scale + q * r,
         NEW y, y = Rounded(w, Scale) * Scale - q * Rounded(w, n + q)
  PROVE  /\ Rounded(Larger(y, 0), Scale) - v <= 1
         /\ v - Rounded(Larger(y, 0), Scale) <= 1
<1>0. Scale \in Nat \ {0}
  BY ScaleAssumption
<1>1. PICK p, x : p = Rounded(w, Scale) /\ x = q * (Rounded(w, n + q) - r)
  OBVIOUS
<1>2. x \in Int /\ x <= Scale /\ -Scale < x
  BY <1>1, RateIsNearlyKept
<1>3. w \in Nat /\ p \in Nat /\ Rounded(w, n + q) \in Nat
  <2>1. v * Scale \in Nat /\ q * r \in Nat
    BY <1>0, ProductInNat
  <2>2. w \in Nat
    BY <2>1
  <2> QED
    BY <1>0, <1>1, <2>2, RoundedInNat
<1>4. 2 * (Scale * p) <= 2 * w + Scale /\ 2 * w + Scale < 2 * (Scale * p) + 2 * Scale
  BY <1>0, <1>1, <1>3, RoundedIsUnique
<1>5. PICK b, c : b = Scale * p - w /\ c = Scale * v
  OBVIOUS
<1>6. b \in Int /\ c \in Nat /\ 2 * b <= Scale /\ -Scale < 2 * b
  <2>1. PICK a : a = Scale * p
    OBVIOUS
  <2>2. a \in Int /\ b = a - w
    BY <1>0, <1>3, <1>5, <2>1
  <2>3. 2 * a <= 2 * w + Scale /\ 2 * w + Scale < 2 * a + 2 * Scale
    BY <1>4, <2>1
  <2>4. c \in Nat
    BY <1>0, <1>5, ProductInNat
  <2> QED
    BY <1>0, <1>3, <2>2, <2>3, <2>4
<1>7. y \in Int /\ y = b + c - x
  <2>1. PICK z : z = Rounded(w, n + q)
    OBVIOUS
  <2>2. x = q * z - q * r /\ y = p * Scale - q * z /\ z \in Nat
    BY <1>1, <1>3, <2>1
  <2> QED
    BY <1>0, <1>3, <1>5, <2>2
<1>8. CASE y >= 0
  <2>1. PICK u : u = Rounded(y, Scale)
    OBVIOUS
  <2>2. Larger(y, 0) = y /\ y \in Nat
    BY <1>7, <1>8 DEF Larger
  <2>3. u \in Nat
    BY <1>0, <2>1, <2>2, RoundedInNat
  <2>4. 2 * (Scale * u) <= 2 * y + Scale /\ 2 * y + Scale < 2 * (Scale * u) + 2 * Scale
    BY <1>0, <2>1, <2>2, <2>3, RoundedIsUnique
  <2>5. PICK a : a = Scale * (u - v)
    OBVIOUS
  <2>6. a \in Int /\ Scale * u = a + c
    BY <1>0, <1>5, <2>3, <2>5
  <2>7. a < 2 * Scale /\ -(2 * Scale) < a
    BY <1>0, <1>2, <1>6, <1>7, <2>4, <2>6
  <2>8. u - v <= 1
    <3> SUFFICES ASSUME 2 <= u - v PROVE FALSE
      BY <2>3
    <3>1. Scale * 2 <= Scale * (u - v)
      BY <1>0, <2>3, TimesMonotone
    <3> QED
      BY <1>0, <2>5, <2>6, <2>7, <3>1
  <2>9. v - u <= 1
    <3> SUFFICES ASSUME u - v <= -2 PROVE FALSE
      BY <2>3
    <3>1. Scale * (u - v) <= Scale * (-2)
      BY <1>0, <2>3, TimesMonotone
    <3> QED
      BY <1>0, <2>5, <2>6, <2>7, <3>1
  <2> QED
    BY <2>1, <2>2, <2>8, <2>9
<1>9. CASE ~(y >= 0)
  <2>1. Larger(y, 0) = 0
    BY <1>7, <1>9 DEF Larger
  <2>2. Rounded(0, Scale) = 0
    BY <1>0, RoundedInNat
  <2>3. v <= 1
    <3> SUFFICES ASSUME 2 <= v PROVE FALSE
      OBVIOUS
    <3>1. Scale * 2 <= c
      BY <1>0, <1>5, TimesMonotone
    <3> QED
      BY <1>0, <1>2, <1>6, <1>7, <1>9, <3>1
  <2> QED
    BY <2>1, <2>2, <2>3
<1> QED
  BY <1>8, <1>9

\* The row after a sale is undone and made again.
LEMMA ReissuedSale ==
  ASSUME NEW s \in SoundStock, s.exists, NEW q \in Nat \ {0}
  PROVE  /\ s.qty <= 0 => Issue(RestoreSale(s, q), q) = s
         /\ s.qty > 0 =>
              \E w \in Nat, y \in Int :
                /\ w = s.value * Scale + q * s.rate
                /\ y = Rounded(w, Scale) * Scale - q * Rounded(w, s.qty + q)
                /\ Issue(RestoreSale(s, q), q)
                     = Row(s.qty, Rounded(Larger(y, 0), s.qty), Larger(y, 0), s.short)
<1>0. Scale \in Nat \ {0}
  BY ScaleAssumption
<1>1. /\ s.qty \in Int /\ s.value \in Nat /\ s.rate \in Nat
      /\ s.short \in Nat /\ s.short = Larger(-s.qty, 0)
      /\ Larger(s.rate, 0) = s.rate /\ Larger(s.value, 0) = s.value
      /\ s.qty <= 0 => s.value = 0
      /\ s = [exists |-> TRUE, qty |-> s.qty, rate |-> s.rate, value |-> s.value,
              short |-> s.short]
  BY SoundFacts
<1>2. PICK n, r, v, l : n = s.qty /\ r = s.rate /\ v = s.value /\ l = ReleaseResolved(s, q)
  OBVIOUS
<1>3. n + q \in Int /\ (n + q) - q = n /\ n \in Int /\ v \in Nat /\ r \in Nat
  BY <1>1, <1>2
<1>4. l \in Nat /\ l = Larger(-(n + q), 0)
  BY <1>2, ReleaseIsExact
<1>5. ASSUME NEW a, NEW w, RestoreSale(s, q) = Row(n + q, a, w, l)
      PROVE  /\ RestoreSale(s, q).exists /\ RestoreSale(s, q).qty = n + q
             /\ RestoreSale(s, q).rate = a /\ RestoreSale(s, q).value = Rounded(w, Scale)
             /\ RestoreSale(s, q).short = l
  BY <1>5 DEF Row
<1>6. CASE n > 0
  <2>1. PICK w : w = v * Scale + q * r
    OBVIOUS
  <2>2. w \in Nat /\ n + q \in Nat \ {0}
    <3>1. v * Scale \in Nat /\ q * r \in Nat
      BY <1>0, <1>3, ProductInNat
    <3> QED
      BY <1>3, <1>6, <2>1, <3>1
  <2>3. PICK a, p : a = Rounded(w, n + q) /\ p = Rounded(w, Scale)
    OBVIOUS
  <2>4. a \in Nat /\ p \in Nat
    BY <1>0, <2>2, <2>3, RoundedInNat
  <2>5. RestoreSale(s, q) = Row(n + q, a, w, l)
    BY <1>1, <1>2, <1>3, <1>6, <2>1, <2>3 DEF RestoreSale
  <2>6. PICK t : t = RestoreSale(s, q)
    OBVIOUS
  <2>7. t.exists /\ t.qty = n + q /\ t.rate = a /\ t.value = p /\ t.short = l
    BY <1>5, <2>3, <2>5, <2>6
  <2>8. PICK y : y = p * Scale - q * a
    OBVIOUS
  <2>9. y \in Int /\ Larger(a, 0) = a
    BY <1>0, <2>4, <2>8 DEF Larger
  <2>10. l = s.short
    BY <1>1, <1>2, <1>3, <1>4, <1>6 DEF Larger
  <2>11. Issue(t, q) = Row(n, Rounded(Larger(y, 0), n), Larger(y, 0), l)
    BY <1>3, <1>6, <2>7, <2>8, <2>9 DEF Issue, Outgoing
  <2>12. Issue(RestoreSale(s, q), q) = Row(n, Rounded(Larger(y, 0), n), Larger(y, 0), s.short)
    BY <2>6, <2>10, <2>11
  <2> QED
    BY <1>2, <1>3, <1>6, <2>1, <2>2, <2>3, <2>8, <2>9, <2>12
<1>7. CASE ~(n > 0)
  <2>1. \E w : RestoreSale(s, q) = Row(n + q, r, w, l)
    <3>1. CASE n + q > 0
      <4>1. PICK w : w = (n + q) * r
        OBVIOUS
      <4>2. w \in Nat /\ Rounded(w, n + q) = r
        <5>1. n + q \in Nat \ {0}
          BY <1>3, <3>1
        <5> QED
          BY <1>3, <4>1, <5>1, ProductInNat, RoundedIsExact
      <4>3. RestoreSale(s, q) = Row(n + q, Rounded(w, n + q), w, l)
        BY <1>1, <1>2, <1>7, <3>1, <4>1 DEF RestoreSale
      <4> QED
        BY <4>2, <4>3
    <3>2. CASE ~(n + q > 0)
      <4>1. RestoreSale(s, q) = Row(n + q, r, 0, l)
        BY <1>1, <1>2, <3>2 DEF RestoreSale
      <4> QED
        BY <4>1
    <3> QED
      BY <3>1, <3>2
  <2>2. PICK t : t = RestoreSale(s, q)
    OBVIOUS
  <2>3. t.exists /\ t.qty = n + q /\ t.rate = r /\ t.short = l
    BY <1>5, <2>1, <2>2
  <2>4. l + IncrementalShortage(n + q, n) = s.short
    BY <1>1, <1>2, <1>3, <1>4, <1>7 DEF IncrementalShortage, Larger
  <2>5. Issue(t, q) = Row(n, r, 0, l + IncrementalShortage(n + q, n))
    BY <1>1, <1>2, <1>3, <1>7, <2>3 DEF Issue, Outgoing
  <2>6. Rounded(0, Scale) = 0
    BY <1>0, RoundedInNat
  <2>7. Issue(t, q) = [exists |-> TRUE, qty |-> n, rate |-> r, value |-> 0, short |-> s.short]
    BY <2>4, <2>5, <2>6 DEF Row
  <2>8. Issue(t, q) = s
    BY <1>1, <1>2, <1>3, <1>7, <2>7
  <2> QED
    BY <1>2, <1>3, <1>7, <2>2, <2>8
<1> QED
  BY <1>2, <1>3, <1>6, <1>7

\* It has its quantity and its layers again, and its value up to a cent.
LEMMA ReissuedSaleIsNear ==
  ASSUME NEW s \in SoundStock, s.exists, Matching(s), NEW q \in Nat \ {0},
         NEW t, t = Issue(RestoreSale(s, q), q)
  PROVE  /\ t.qty = s.qty /\ t.short = s.short
         /\ s.value # 0 => t.value - s.value <= 1 /\ s.value - t.value <= 1
<1>1. /\ s.qty \in Int /\ s.value \in Nat /\ s.rate \in Nat
      /\ s.qty <= 0 => s.value = 0
      /\ s = [exists |-> TRUE, qty |-> s.qty, rate |-> s.rate, value |-> s.value,
              short |-> s.short]
  BY SoundFacts
<1>2. CASE s.qty <= 0
  <2>1. t = s
    BY <1>2, ReissuedSale
  <2> QED
    BY <1>1, <1>2, <2>1
<1>3. CASE s.qty > 0
  <2>1. PICK w, y :
          /\ w = s.value * Scale + q * s.rate
          /\ y = Rounded(w, Scale) * Scale - q * Rounded(w, s.qty + q)
          /\ t = Row(s.qty, Rounded(Larger(y, 0), s.qty), Larger(y, 0), s.short)
    BY <1>3, ReissuedSale
  <2>2. PICK n, r, v, l : n = s.qty /\ r = s.rate /\ v = s.value /\ l = s.short
    OBVIOUS
  <2>3. PICK a, p : a = Rounded(Larger(y, 0), n) /\ p = Rounded(Larger(y, 0), Scale)
    OBVIOUS
  <2>4. t = [exists |-> TRUE, qty |-> n, rate |-> a, value |-> p, short |-> l]
    BY <2>1, <2>2, <2>3 DEF Row
  <2>5. t.qty = n /\ t.short = l /\ t.value = p
    BY <2>4
  <2>6. ASSUME v # 0 PROVE p - v <= 1 /\ v - p <= 1
    <3>1. n \in Nat \ {0} /\ v \in Nat /\ r \in Nat /\ Near(n, r, v)
      BY <1>1, <1>3, <2>2, <2>6 DEF Matching
    <3>2. w = v * Scale + q * r /\ y = Rounded(w, Scale) * Scale - q * Rounded(w, n + q)
      BY <2>1, <2>2
    <3> QED
      BY <2>3, <3>1, <3>2, ValueIsNearlyKept
  <2> QED
    BY <2>2, <2>5, <2>6
<1> QED
  BY <1>1, <1>2, <1>3

\* In whole units it is the row as it was.
LEMMA ReissuedSaleIsSame ==
  ASSUME Scale = 1, NEW s \in SoundStock, s.exists, WholeRate(s), NEW q \in Nat \ {0}
  PROVE  Issue(RestoreSale(s, q), q) = s
<1>1. /\ s.qty \in Int /\ s.value \in Nat /\ s.rate \in Nat
      /\ s = [exists |-> TRUE, qty |-> s.qty, rate |-> s.rate, value |-> s.value,
              short |-> s.short]
  BY SoundFacts
<1>2. CASE s.qty <= 0
  BY <1>2, ReissuedSale
<1>3. CASE s.qty > 0
  <2>1. PICK w, y :
          /\ w = s.value * Scale + q * s.rate
          /\ y = Rounded(w, Scale) * Scale - q * Rounded(w, s.qty + q)
          /\ Issue(RestoreSale(s, q), q)
               = Row(s.qty, Rounded(Larger(y, 0), s.qty), Larger(y, 0), s.short)
    BY <1>3, ReissuedSale
  <2>2. PICK n, r, v, k : n = s.qty /\ r = s.rate /\ v = s.value /\ k = q * r
    OBVIOUS
  <2>3. n \in Nat \ {0} /\ v \in Nat /\ r \in Nat /\ Rounded(v, n) = r /\ k \in Nat
    BY <1>1, <1>3, <2>2, ProductInNat DEF WholeRate
  <2>4. w = v + k /\ w \in Nat
    BY <2>1, <2>2, <2>3
  <2>5. Rounded(w, n + q) = r
    BY <2>2, <2>3, <2>4, RoundedIsKept
  <2>6. Rounded(w, Scale) = w
    BY <2>4, WholeIsExact
  <2>7. y = v /\ Larger(y, 0) = v
    <3>1. y = w * Scale - q * r
      BY <2>1, <2>2, <2>5, <2>6
    <3>2. y = v
      BY <2>2, <2>3, <2>4, <3>1
    <3> QED
      BY <2>3, <3>2 DEF Larger
  <2>8. Issue(RestoreSale(s, q), q) = Row(n, r, v, s.short)
    BY <2>1, <2>2, <2>3, <2>7
  <2>9. Row(n, r, v, s.short) = [exists |-> TRUE, qty |-> n, rate |-> r, value |-> v, short |-> s.short]
    BY <2>3, WholeIsExact DEF Row
  <2> QED
    BY <1>1, <2>2, <2>8, <2>9
<1> QED
  BY <1>1, <1>2, <1>3

-----------------------------------------------------------------------------
(***************************************************************************)
(* Sums of finitely many integers (SumFunction of the Functions module).   *)
(* Neither its recursion nor an induction about it can be unfolded by the  *)
(* provers, so the partial sums are constructed here, and the inductions   *)
(* are stated for sets: on the numbers, and on the subsets of a finite set.*)
(***************************************************************************)

\* A set of numbers with zero and every successor has them all.
LEMMA NatSetInduction ==
  ASSUME NEW S, 0 \in S, \A n \in Nat : n \in S => n + 1 \in S
  PROVE  Nat \subseteq S
<1> DEFINE T == Nat \ S
<1>1. SUFFICES ASSUME T # {} PROVE FALSE
  OBVIOUS
<1>2. PICK x \in T : \A y \in T : ~ (<<y, x>> \in OpToRel(<, Nat))
  <2>1. T \subseteq Nat
    OBVIOUS
  <2>2. IsWellFoundedOn(OpToRel(<, Nat), Nat)
    BY NatLessThanWellFounded
  <2> HIDE DEF T
  <2> QED
    BY <1>1, <2>1, <2>2, WFMin
<1>3. x # 0 /\ x \in Nat /\ x - 1 \in Nat
  OBVIOUS
<1>4. <<x - 1, x>> \in OpToRel(<, Nat)
  BY <1>3 DEF OpToRel
<1>5. x - 1 \notin T
  BY <1>2, <1>4
<1> QED
  BY <1>3, <1>5

\* The element that the sum of s takes out first.
Some(s) == CHOOSE x \in s : TRUE

\* part sums the values of f over every subset of its domain D.
Adds(part, f, D) ==
  part = [s \in SUBSET D |-> IF s = {} THEN 0 ELSE f[Some(s)] + part[s \ {Some(s)}]]

PartialSums(f) == CHOOSE part : Adds(part, f, DOMAIN f)

LEMMA SumIsPartial ==
  ASSUME NEW f
  PROVE  SumFunction(f) = PartialSums(f)[DOMAIN f]
BY DEF SumFunction, SumFunctionOnSet, FoldFunctionOnSet, MapThenFoldSet, PartialSums, Adds, Some

\* The subsets of D with at most n elements.
Small(D, n) == {s \in SUBSET D : Cardinality(s) <= n}

LEMMA SmallStep ==
  ASSUME NEW D, IsFiniteSet(D), NEW n \in Nat, NEW s \in Small(D, n + 1), s # {}
  PROVE  Some(s) \in s /\ s \ {Some(s)} \in Small(D, n)
<1>1. Some(s) \in s
  BY DEF Some
<1>2. s \in SUBSET D /\ IsFiniteSet(s) /\ Cardinality(s) <= n + 1
  BY FS_Subset DEF Small
<1>3. Cardinality(s \ {Some(s)}) = Cardinality(s) - 1 /\ Cardinality(s) \in Nat
  BY <1>1, <1>2, FS_RemoveElement, FS_CardinalityType
<1> QED
  BY <1>1, <1>2, <1>3 DEF Small

\* What holds of the empty set, and of every set if it holds of the smaller ones,
\* holds of every subset of a finite set: G is the set of those it holds of.
LEMMA SubsetInduction ==
  ASSUME NEW D, IsFiniteSet(D), NEW G, {} \in G,
         \A s \in SUBSET D : s # {} /\ (\A x \in s : s \ {x} \in G) => s \in G
  PROVE  SUBSET D \subseteq G
<1> DEFINE S == {n \in Nat : Small(D, n) \subseteq G}
<1>1. 0 \in S
  <2>1. ASSUME NEW s \in Small(D, 0) PROVE s = {}
    <3>1. IsFiniteSet(s) /\ Cardinality(s) = 0
      BY FS_Subset, FS_CardinalityType DEF Small
    <3> QED
      BY <3>1, FS_EmptySet
  <2> QED
    BY <2>1
<1>2. ASSUME NEW n \in Nat, n \in S PROVE n + 1 \in S
  <2>1. ASSUME NEW s \in Small(D, n + 1), s # {} PROVE s \in G
    <3>1. s \in SUBSET D /\ IsFiniteSet(s) /\ Cardinality(s) <= n + 1
      BY FS_Subset DEF Small
    <3>2. ASSUME NEW x \in s PROVE s \ {x} \in G
      <4>1. Cardinality(s \ {x}) = Cardinality(s) - 1 /\ Cardinality(s) \in Nat
        BY <3>1, FS_RemoveElement, FS_CardinalityType
      <4>2. s \ {x} \in Small(D, n)
        BY <3>1, <4>1 DEF Small
      <4> QED
        BY <1>2, <4>2
    <3> QED
      BY <2>1, <3>1, <3>2
  <2>2. Small(D, n + 1) \subseteq G
    BY <2>1
  <2> QED
    BY <2>2
<1> HIDE DEF S
<1>3. Nat \subseteq S
  BY <1>1, <1>2, NatSetInduction
<1>4. ASSUME NEW s \in SUBSET D PROVE s \in G
  <2>1. IsFiniteSet(s)
    BY FS_Subset
  <2>2. Cardinality(s) \in Nat
    BY <2>1, FS_CardinalityType
  <2>3. s \in Small(D, Cardinality(s))
    BY <2>2 DEF Small
  <2> QED
    BY <1>3, <2>2, <2>3 DEF S
<1> QED
  BY <1>4

\* The partial sums up to n elements.
AddsUpTo(part, f, D, n) ==
  part = [s \in Small(D, n) |-> IF s = {} THEN 0 ELSE f[Some(s)] + part[s \ {Some(s)}]]

LEMMA PartialSumsUpTo ==
  ASSUME NEW D, IsFiniteSet(D), NEW f
  PROVE  \A n \in Nat : \E part : AddsUpTo(part, f, D, n)
<1> DEFINE S == {n \in Nat : \E part : AddsUpTo(part, f, D, n)}
<1>1. 0 \in S
  <2> DEFINE part == [s \in Small(D, 0) |-> 0]
  <2>1. ASSUME NEW s \in Small(D, 0) PROVE s = {}
    <3>1. IsFiniteSet(s) /\ Cardinality(s) = 0
      BY FS_Subset, FS_CardinalityType DEF Small
    <3> QED
      BY <3>1, FS_EmptySet
  <2>2. AddsUpTo(part, f, D, 0)
    BY <2>1 DEF AddsUpTo
  <2> QED
    BY <2>2
<1>2. ASSUME NEW n \in Nat, n \in S PROVE n + 1 \in S
  <2>1. PICK part : AddsUpTo(part, f, D, n)
    BY <1>2
  <2> DEFINE next == [s \in Small(D, n + 1) |->
                        IF s = {} THEN 0 ELSE f[Some(s)] + part[s \ {Some(s)}]]
  <2>2. ASSUME NEW s \in Small(D, n + 1), s # {}
        PROVE  next[s \ {Some(s)}] = part[s \ {Some(s)}]
    <3> DEFINE t == s \ {Some(s)}
    <3>1. t \in Small(D, n) /\ t \in Small(D, n + 1)
      <4>1. t \in Small(D, n)
        BY <2>2, SmallStep
      <4>2. t \in SUBSET D /\ Cardinality(t) <= n
        BY <4>1 DEF Small
      <4>3. Cardinality(t) \in Nat
        BY <4>2, FS_Subset, FS_CardinalityType
      <4> HIDE DEF t
      <4> QED
        BY <4>1, <4>2, <4>3 DEF Small
    <3>2. part[t] = IF t = {} THEN 0 ELSE f[Some(t)] + part[t \ {Some(t)}]
      BY <2>1, <3>1 DEF AddsUpTo
    <3>3. next[t] = IF t = {} THEN 0 ELSE f[Some(t)] + part[t \ {Some(t)}]
      BY <3>1
    <3> QED
      BY <3>2, <3>3
  <2> DEFINE again == [s \in Small(D, n + 1) |->
                         IF s = {} THEN 0 ELSE f[Some(s)] + next[s \ {Some(s)}]]
  <2>3. next = again
    <3>1. ASSUME NEW s \in Small(D, n + 1) PROVE next[s] = again[s]
      <4> HIDE DEF Some
      <4>1. CASE s = {}
        BY <4>1
      <4>2. CASE s # {}
        <5>1. next[s] = f[Some(s)] + part[s \ {Some(s)}]
          BY <4>2
        <5>2. again[s] = f[Some(s)] + next[s \ {Some(s)}]
          BY <4>2
        <5> QED
          BY <5>1, <5>2, <2>2, <4>2
      <4> QED
        BY <4>1, <4>2
    <3> HIDE DEF next
    <3>2. next = [s \in Small(D, n + 1) |-> next[s]]
      BY DEF next
    <3> QED
      BY <3>1, <3>2
  <2>4. AddsUpTo(next, f, D, n + 1)
    BY <2>3 DEF AddsUpTo
  <2> QED
    BY <2>4
<1> HIDE DEF S
<1>3. Nat \subseteq S
  BY <1>1, <1>2, NatSetInduction
<1> QED
  BY <1>3 DEF S

LEMMA PartialSumsExist ==
  ASSUME NEW f, IsFiniteSet(DOMAIN f)
  PROVE  Adds(PartialSums(f), f, DOMAIN f)
<1> DEFINE D == DOMAIN f
           n == Cardinality(D)
<1>1. n \in Nat
  BY FS_CardinalityType
<1>2. Small(D, n) = SUBSET D
  BY FS_Subset DEF Small
<1>3. PICK part : AddsUpTo(part, f, D, n)
  BY <1>1, PartialSumsUpTo
<1>4. Adds(part, f, D)
  BY <1>2, <1>3 DEF AddsUpTo, Adds
<1> QED
  BY <1>4 DEF PartialSums

\* The two equations of the partial sums, and that they are integers.
LEMMA PartialSumsFacts ==
  ASSUME NEW D, IsFiniteSet(D), NEW f \in [D -> Int]
  PROVE  /\ PartialSums(f)[{}] = 0
         /\ \A s \in SUBSET D : s # {} =>
              PartialSums(f)[s] = f[Some(s)] + PartialSums(f)[s \ {Some(s)}]
         /\ \A s \in SUBSET D : PartialSums(f)[s] \in Int
<1> DEFINE part == PartialSums(f)
<1>1. Adds(part, f, D)
  BY PartialSumsExist
<1>2. part[{}] = 0 /\ \A s \in SUBSET D : s # {} => part[s] = f[Some(s)] + part[s \ {Some(s)}]
  BY <1>1 DEF Adds
<1> HIDE DEF part
<1> DEFINE G == {s \in SUBSET D : part[s] \in Int}
<1>3. {} \in G
  BY <1>2
<1>4. ASSUME NEW s \in SUBSET D, s # {}, \A x \in s : s \ {x} \in G
      PROVE  s \in G
  <2>1. Some(s) \in s
    BY <1>4 DEF Some
  <2>2. part[s \ {Some(s)}] \in Int
    BY <1>4, <2>1
  <2>3. f[Some(s)] \in Int
    BY <2>1
  <2>4. part[s] = f[Some(s)] + part[s \ {Some(s)}]
    BY <1>2, <1>4
  <2>5. part[s] \in Int
    BY <2>2, <2>3, <2>4
  <2> QED
    BY <2>5
<1> HIDE DEF G
<1>5. SUBSET D \subseteq G
  BY <1>3, <1>4, SubsetInduction
<1> QED
  BY <1>2, <1>5 DEF part, G

\* Any element may be taken out of the sum first.
LEMMA PartialSumsRemove ==
  ASSUME NEW D, IsFiniteSet(D), NEW f \in [D -> Int]
  PROVE  \A s \in SUBSET D : \A x \in s :
           PartialSums(f)[s] = f[x] + PartialSums(f)[s \ {x}]
<1> DEFINE part == PartialSums(f)
           G == {s \in SUBSET D : \A x \in s : part[s] = f[x] + part[s \ {x}]}
<1>1. /\ \A s \in SUBSET D : s # {} => part[s] = f[Some(s)] + part[s \ {Some(s)}]
      /\ \A s \in SUBSET D : part[s] \in Int
  BY PartialSumsFacts
<1> HIDE DEF part
<1>2. {} \in G
  OBVIOUS
<1>3. ASSUME NEW s \in SUBSET D, s # {}, \A x \in s : s \ {x} \in G
      PROVE  s \in G
  <2> DEFINE y == Some(s)
  <2>1. y \in s
    BY <1>3 DEF Some
  <2> HIDE DEF y
  <2>2. part[s] = f[y] + part[s \ {y}]
    BY <1>1, <1>3 DEF y
  <2>3. ASSUME NEW x \in s, x # y PROVE part[s] = f[x] + part[s \ {x}]
    <3> DEFINE t == s \ {x, y}
    <3>1. (s \ {y}) \ {x} = t /\ (s \ {x}) \ {y} = t
      OBVIOUS
    <3>2. s \ {y} \in G /\ x \in s \ {y}
      BY <1>3, <2>1, <2>3
    <3>3. part[s \ {y}] = f[x] + part[t]
      BY <3>1, <3>2
    <3>4. s \ {x} \in G /\ y \in s \ {x}
      BY <1>3, <2>1, <2>3
    <3>5. part[s \ {x}] = f[y] + part[t]
      BY <3>1, <3>4
    <3>6. part[t] \in Int /\ f[x] \in Int /\ f[y] \in Int
      BY <1>1, <2>1
    <3> QED
      BY <2>2, <3>3, <3>5, <3>6
  <2>4. \A x \in s : part[s] = f[x] + part[s \ {x}]
    BY <2>2, <2>3
  <2> QED
    BY <2>4
<1> HIDE DEF G
<1>4. SUBSET D \subseteq G
  BY <1>2, <1>3, SubsetInduction
<1> QED
  BY <1>4 DEF part, G

\* Functions that agree on a set have the same sum over it.
LEMMA PartialSumsAgree ==
  ASSUME NEW D, IsFiniteSet(D), NEW f \in [D -> Int], NEW g \in [D -> Int], NEW E \in SUBSET D,
         \A x \in E : f[x] = g[x]
  PROVE  PartialSums(f)[E] = PartialSums(g)[E]
<1> DEFINE pf == PartialSums(f)
           pg == PartialSums(g)
           G == {s \in SUBSET D : s \subseteq E => pf[s] = pg[s]}
<1>1. /\ pf[{}] = 0 /\ pg[{}] = 0
      /\ \A s \in SUBSET D : s # {} => /\ pf[s] = f[Some(s)] + pf[s \ {Some(s)}]
                                       /\ pg[s] = g[Some(s)] + pg[s \ {Some(s)}]
  <2>1. /\ pf[{}] = 0
        /\ \A s \in SUBSET D : s # {} => pf[s] = f[Some(s)] + pf[s \ {Some(s)}]
    BY PartialSumsFacts
  <2>2. /\ pg[{}] = 0
        /\ \A s \in SUBSET D : s # {} => pg[s] = g[Some(s)] + pg[s \ {Some(s)}]
    BY PartialSumsFacts
  <2> QED
    BY <2>1, <2>2
<1> HIDE DEF pf, pg
<1>2. {} \in G
  BY <1>1
<1>3. ASSUME NEW s \in SUBSET D, s # {}, \A x \in s : s \ {x} \in G
      PROVE  s \in G
  <2> SUFFICES ASSUME s \subseteq E PROVE pf[s] = pg[s]
    OBVIOUS
  <2>1. Some(s) \in s
    BY <1>3 DEF Some
  <2>2. s \ {Some(s)} \in G
    BY <1>3, <2>1
  <2>3. pf[s \ {Some(s)}] = pg[s \ {Some(s)}]
    BY <2>2
  <2>4. f[Some(s)] = g[Some(s)]
    BY <2>1
  <2> QED
    BY <1>1, <1>3, <2>3, <2>4
<1> HIDE DEF G
<1>4. SUBSET D \subseteq G
  BY <1>2, <1>3, SubsetInduction
<1> QED
  BY <1>4 DEF pf, pg, G

\* A finite sum of integers is an integer.
LEMMA SumInInt ==
  ASSUME NEW D, IsFiniteSet(D), NEW f \in [D -> Int]
  PROVE  SumFunction(f) \in Int
<1>1. DOMAIN f = D
  OBVIOUS
<1> QED
  BY <1>1, SumIsPartial, PartialSumsFacts

\* A sum of which one term changes changes by as much.
LEMMA SumChanges ==
  ASSUME NEW D, IsFiniteSet(D), NEW f \in [D -> Int], NEW g \in [D -> Int], NEW x \in D,
         \A y \in D \ {x} : g[y] = f[y]
  PROVE  SumFunction(g) = SumFunction(f) - f[x] + g[x]
<1>1. DOMAIN f = D /\ DOMAIN g = D
  OBVIOUS
<1>2. SumFunction(f) = PartialSums(f)[D] /\ SumFunction(g) = PartialSums(g)[D]
  BY <1>1, SumIsPartial
<1>3. /\ PartialSums(f)[D] = f[x] + PartialSums(f)[D \ {x}]
      /\ PartialSums(g)[D] = g[x] + PartialSums(g)[D \ {x}]
  BY PartialSumsRemove
<1>4. PartialSums(f)[D \ {x}] = PartialSums(g)[D \ {x}]
  BY PartialSumsAgree
<1>5. PartialSums(f)[D \ {x}] \in Int /\ f[x] \in Int /\ g[x] \in Int
  BY PartialSumsFacts
<1> QED
  BY <1>2, <1>3, <1>4, <1>5

LEMMA SumOfZeros ==
  ASSUME NEW D, IsFiniteSet(D)
  PROVE  SumFunction([x \in D |-> 0]) = 0
<1> DEFINE f == [x \in D |-> 0]
           part == PartialSums(f)
           G == {s \in SUBSET D : part[s] = 0}
<1>0. f \in [D -> Int] /\ DOMAIN f = D
  OBVIOUS
<1>1. /\ part[{}] = 0
      /\ \A s \in SUBSET D : s # {} => part[s] = f[Some(s)] + part[s \ {Some(s)}]
  BY <1>0, PartialSumsFacts
<1> HIDE DEF part
<1>2. {} \in G
  BY <1>1
<1>3. ASSUME NEW s \in SUBSET D, s # {}, \A x \in s : s \ {x} \in G
      PROVE  s \in G
  <2>1. Some(s) \in s
    BY <1>3 DEF Some
  <2>2. part[s \ {Some(s)}] = 0
    BY <1>3, <2>1
  <2>3. f[Some(s)] = 0
    BY <2>1
  <2> QED
    BY <1>1, <1>3, <2>2, <2>3
<1> HIDE DEF G
<1>4. SUBSET D \subseteq G
  BY <1>2, <1>3, SubsetInduction
<1>5. part[D] = 0
  BY <1>4 DEF G
<1> HIDE DEF f
<1>6. SumFunction(f) = part[D]
  BY <1>0, SumIsPartial DEF part
<1> QED
  BY <1>5, <1>6 DEF f

=============================================================================
