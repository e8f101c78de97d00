--------------------------- MODULE CurrencyProofs ---------------------------
(***************************************************************************)
(* Proofs about Currency, for any growth, any amounts and any number of    *)
(* transactions: a team never gets more growth than the time is worth, and *)
(* the row that is settled lazily implements the wallet of module Wallet.  *)
(***************************************************************************)
EXTENDS Currency, TLAPS

Amount == MinInt..MaxInt
TxRow  == [pc: {"idle", "begun", "holds", "done"}, op: Op \cup {None}, start: 0..MaxTime,
           current: Amount]

(* Nothing is of the future, and the ceiling holds.                        *)
Timed ==
  /\ \A x \in Tx : tx[x].start <= now
  /\ row.utime <= now /\ feature.since <= now /\ row.amount <= Max

(* What a transaction holds, and that it has read what is still so.        *)
Holding(x) ==
  tx[x].pc = "holds" =>
    /\ tx[x].op \in {"cost", "add", "set", "adjust"} =>
         rowLock = x /\ gfLock = x /\ tx[x].current = Current(tx[x].start)
    /\ tx[x].op \in {"penalty", "purchase"} => rowLock = x /\ tx[x].current = Settled(tx[x].start)
    /\ tx[x].op = "toggle" => gfLock = x
    /\ tx[x].op = "growth" => rowLock = x /\ gfLock = x

Counted == credited \in Int /\ due \in Int /\ spilled \in Int /\ back \in Int

(* The growth that the row has still to get is within the time, too.       *)
Earned ==
  (credited - spilled) * Minute + (IF feature.open THEN growth * (now - row.utime) ELSE 0)
    <= due + back

IInv == TypeOK /\ Timed /\ Counted /\ Earned /\ \A x \in Tx : Holding(x)

-----------------------------------------------------------------------------
(* Arithmetic: whole minutes, and the growth that they are worth.          *)

LEMMA MinuteIs == Minute \in Nat /\ Minute > 0
BY ConstantAssumption

LEMMA Bounds ==
  /\ MinInt \in Int /\ MinInt < 0 /\ MaxInt \in Nat /\ Max \in Nat /\ Max <= MaxInt
  /\ MaxTime \in Nat /\ InitAmount \in Nat /\ InitAmount <= Max
  /\ \A g \in Growths : g \in Nat
  /\ \A p \in Price \cup Gift : p \in Nat /\ p > 0 /\ p <= MaxInt
BY ConstantAssumption

LEMMA Floor ==
  ASSUME NEW d \in Int
  PROVE  /\ d \div Minute \in Int
         /\ (d \div Minute) * Minute <= d /\ d < (d \div Minute) * Minute + Minute
BY MinuteIs

LEMMA FloorSign ==
  ASSUME NEW d \in Int
  PROVE  /\ d >= 0 => d \div Minute \in Nat
         /\ d < 0 => d \div Minute < 0
BY MinuteIs

LEMMA Below ==
  ASSUME NEW a \in Int, NEW b \in Int, a * Minute < b * Minute
  PROVE  a < b
BY MinuteIs

LEMMA Times ==
  ASSUME NEW g \in Nat, NEW a \in Int, NEW b \in Int, a <= b
  PROVE  g * a \in Int /\ g * b \in Int /\ a * g \in Int /\ b * g \in Int
         /\ g * a <= g * b /\ a * g <= b * g
OBVIOUS

(* Two spans have as many whole minutes as their sum, or one less.         *)
LEMMA FloorSum ==
  ASSUME NEW d \in Nat, NEW e \in Nat
  PROVE  /\ d \div Minute + e \div Minute <= (d + e) \div Minute
         /\ (d + e) \div Minute <= d \div Minute + e \div Minute + 1
<1>1. PICK i \in Int, j \in Int, k \in Int :
        i = d \div Minute /\ j = e \div Minute /\ k = (d + e) \div Minute
  BY Floor
<1>2. /\ i * Minute <= d /\ d < i * Minute + Minute
      /\ j * Minute <= e /\ e < j * Minute + Minute
      /\ k * Minute <= d + e /\ d + e < k * Minute + Minute
  BY <1>1, Floor
<1>3. (i + j) * Minute = i * Minute + j * Minute /\ (k + 1) * Minute = k * Minute + Minute
      /\ (i + j + 2) * Minute = i * Minute + j * Minute + Minute + Minute
      /\ i * Minute \in Int /\ j * Minute \in Int /\ k * Minute \in Int
  BY MinuteIs
<1>4. i + j < k + 1
  <2>1. (i + j) * Minute < (k + 1) * Minute
    BY <1>2, <1>3, MinuteIs
  <2> QED BY <2>1, Below
<1>5. k < i + j + 2
  <2>1. k * Minute < (i + j + 2) * Minute
    BY <1>2, <1>3, MinuteIs
  <2> QED BY <2>1, Below
<1> QED BY <1>1, <1>4, <1>5

LEMMA FloorMonotone ==
  ASSUME NEW d \in Int, NEW e \in Int, d <= e
  PROVE  d \div Minute <= e \div Minute
<1>1. PICK i \in Int, j \in Int : i = d \div Minute /\ j = e \div Minute
  BY Floor
<1>2. i * Minute <= d /\ e < j * Minute + Minute
  BY <1>1, Floor
<1>3. i * Minute < (j + 1) * Minute
  BY <1>2, MinuteIs
<1>4. i < j + 1
  BY <1>3, Below
<1> QED BY <1>1, <1>4

(* What an amount becomes in some time.                                    *)
Grown(a, g, d) == Least(a + (d \div Minute) * g, Max)

LEMMA GrownTyped ==
  ASSUME NEW a \in Int, NEW g \in Nat, NEW d \in Int
  PROVE  /\ Grown(a, g, d) \in Int /\ Grown(a, g, d) <= Max
         /\ d >= 0 /\ a <= Max => a <= Grown(a, g, d)
         /\ d < 0 => Grown(a, g, d) <= a
<1>1. PICK m \in Int : m = d \div Minute
  BY Floor
<1>2. m * g \in Int /\ (m >= 0 => m * g >= 0) /\ (m < 0 => m * g <= 0)
  OBVIOUS
<1>3. (d >= 0 => m >= 0) /\ (d < 0 => m < 0)
  BY <1>1, FloorSign
<1>4. Grown(a, g, d) = IF a + m * g <= Max THEN a + m * g ELSE Max
  BY <1>1 DEF Grown, Least
<1> QED BY <1>2, <1>3, <1>4, Bounds

(* It is not more than the time is worth.                                  *)
LEMMA GrownWorth ==
  ASSUME NEW a \in Int, NEW g \in Nat, NEW d \in Int
  PROVE  (Grown(a, g, d) - a) * Minute <= g * Greatest(0, d)
<1>1. PICK m \in Int : m = d \div Minute
  BY Floor
<1>2. m * Minute <= d /\ (d < 0 => m < 0)
  BY <1>1, Floor, FloorSign
<1>3. PICK z \in Int : z = m * g
  OBVIOUS
<1>4. PICK e \in Int : e = Grown(a, g, d) - a
  BY GrownTyped
<1>5. e <= z
  BY <1>1, <1>3, <1>4, Bounds DEF Grown, Least
<1>6. e * Minute <= z * Minute /\ z * Minute = g * (m * Minute)
  BY <1>3, <1>5, MinuteIs
<1>7. CASE d >= 0
  <2>1. g * (m * Minute) <= g * d
    BY <1>2, MinuteIs, Times
  <2> QED BY <1>4, <1>6, <1>7, <2>1, MinuteIs DEF Greatest
<1>8. CASE d < 0
  <2>1. e <= 0
    BY <1>4, <1>8, GrownTyped
  <2>2. e * Minute <= 0
    BY <2>1, MinuteIs
  <2> QED BY <1>4, <1>8, <2>2, MinuteIs DEF Greatest
<1> QED BY <1>7, <1>8

LEMMA GrownMonotone ==
  ASSUME NEW a \in Int, NEW g \in Nat, NEW d \in Int, NEW e \in Int, d <= e
  PROVE  Grown(a, g, d) <= Grown(a, g, e)
<1>1. PICK i \in Int, j \in Int : i = d \div Minute /\ j = e \div Minute
  BY Floor
<1>2. i <= j
  BY <1>1, FloorMonotone
<1>3. i * g <= j * g /\ i * g \in Int /\ j * g \in Int
  BY <1>2, Times
<1> QED BY <1>1, <1>3, Bounds DEF Grown, Least

(* A payment as of a time, seen a while later: the minute that had begun   *)
(* is lost, and at the ceiling what has grown since takes its place.       *)
LEMMA GrownLess ==
  ASSUME NEW a \in Int, NEW g \in Nat, NEW d \in Nat, NEW e \in Nat, NEW p \in Nat
  PROVE  LET before == Grown(a, g, d + e)
             after  == Grown(Grown(a, g, d) - p, g, e)
         IN  /\ before - p - g <= after
             /\ after <= IF before = Max THEN Max ELSE before - p
<1>1. PICK i \in Int, j \in Int, k \in Int :
        i = d \div Minute /\ j = e \div Minute /\ k = (d + e) \div Minute
  BY Floor
<1>2. PICK x \in Int, y \in Int, z \in Int : x = i * g /\ y = j * g /\ z = k * g
  OBVIOUS
<1>3. i + j <= k /\ k <= i + j + 1 /\ j >= 0
  BY <1>1, FloorSum, FloorSign
<1>4. (i + j) * g <= z /\ z <= (i + j + 1) * g /\ y >= 0
  BY <1>2, <1>3, Times
<1>5. (i + j) * g = x + y /\ (i + j + 1) * g = x + y + g
  BY <1>2
<1>6. PICK c \in Int : c = Least(a + x, Max)
  BY Bounds DEF Least
<1>7. /\ Grown(a, g, d) = c /\ Grown(a, g, d + e) = Least(a + z, Max)
      /\ Grown(c - p, g, e) = Least(c - p + y, Max)
  BY <1>1, <1>2, <1>6 DEF Grown
<1> QED BY <1>4, <1>5, <1>6, <1>7, Bounds DEF Least

LEMMA GrownMore ==
  ASSUME NEW a \in Int, NEW g \in Nat, NEW d \in Nat, NEW e \in Nat, NEW p \in Nat
  PROVE  LET before == Grown(a, g, d + e)
             after  == Grown(Least(Grown(a, g, d) + p, Max), g, e)
         IN  before - g <= after /\ after <= before + p
<1>1. PICK i \in Int, j \in Int, k \in Int :
        i = d \div Minute /\ j = e \div Minute /\ k = (d + e) \div Minute
  BY Floor
<1>2. PICK x \in Int, y \in Int, z \in Int : x = i * g /\ y = j * g /\ z = k * g
  OBVIOUS
<1>3. i + j <= k /\ k <= i + j + 1 /\ j >= 0
  BY <1>1, FloorSum, FloorSign
<1>4. (i + j) * g <= z /\ z <= (i + j + 1) * g /\ y >= 0
  BY <1>2, <1>3, Times
<1>5. (i + j) * g = x + y /\ (i + j + 1) * g = x + y + g
  BY <1>2
<1>6. PICK c \in Int, n \in Int : c = Least(a + x, Max) /\ n = Least(c + p, Max)
  BY Bounds DEF Least
<1>7. /\ Grown(a, g, d) = c /\ Grown(a, g, d + e) = Least(a + z, Max)
      /\ Grown(n, g, e) = Least(n + y, Max)
  BY <1>1, <1>2, <1>6 DEF Grown
<1> QED BY <1>4, <1>5, <1>6, <1>7, Bounds DEF Least

-----------------------------------------------------------------------------
(* The row.                                                                *)

LEMMA Typed ==
  ASSUME TypeOK
  PROVE  /\ now \in Nat /\ now <= MaxTime
         /\ row \in [amount: Amount, utime: 0..MaxTime]
         /\ row.amount \in Int /\ row.amount >= MinInt /\ row.amount <= MaxInt
         /\ row.utime \in Nat
         /\ growth \in Nat /\ feature.open \in BOOLEAN /\ feature.since \in Nat
         /\ tx \in [Tx -> TxRow] /\ \A x \in Tx : tx[x].start \in Nat /\ tx[x].current \in Int
         /\ rowLock \in Tx \cup {None} /\ gfLock \in Tx \cup {None}
BY Bounds DEF TypeOK, TxRow, Amount

LEMMA SettledIs == ASSUME NEW at PROVE Settled(at) = Grown(row.amount, growth, at - row.utime)
BY DEF Settled, Minutes, Grown

LEMMA CurrentTyped ==
  ASSUME TypeOK, Timed, NEW at \in Nat
  PROVE  Current(at) \in Amount /\ Current(at) <= Max
         /\ Settled(at) \in Int /\ Settled(at) <= Max
<1>0. PICK a \in Int, g \in Nat, d \in Int : a = row.amount /\ g = growth /\ d = at - row.utime
  BY Typed
<1>1. PICK s \in Int : s = Settled(at) /\ s <= Max
  BY <1>0, SettledIs, GrownTyped
<1>2. row.amount \in Int /\ row.amount >= MinInt /\ row.amount <= Max
  BY Typed DEF Timed
<1> QED BY <1>1, <1>2, Bounds DEF Current, Amount, Greatest, Least

(* Once the row's time is reached, what is shown is what has grown.        *)
LEMMA CurrentIs ==
  ASSUME TypeOK, Timed, NEW at \in Nat, row.utime <= at
  PROVE  /\ feature.open => Current(at) = Grown(row.amount, growth, at - row.utime)
         /\ ~feature.open => Current(at) = row.amount
<1>0. PICK a \in Int, g \in Nat, d \in Nat :
        a = row.amount /\ g = growth /\ d = at - row.utime /\ a <= Max
  BY Typed DEF Timed
<1>1. PICK s \in Int : s = Grown(row.amount, growth, at - row.utime) /\ row.amount <= s
  <2>1. d \in Int /\ d >= 0 /\ a <= Max
    BY <1>0
  <2>2. Grown(a, g, d) \in Int /\ a <= Grown(a, g, d)
    BY <2>1, GrownTyped
  <2> QED BY <1>0, <2>2
<1> QED BY <1>1, SettledIs, Typed DEF Current, Greatest, Least

(* What a transaction reads is worth no more than the time until it began. *)
LEMMA ReadWorth ==
  ASSUME TypeOK, Timed, NEW at \in Nat, NEW e \in Int,
         \/ e = Settled(at) - row.amount
         \/ e = Current(at) - row.amount
  PROVE  feature.open => e * Minute <= growth * Greatest(0, at - row.utime)
<1>1. PICK s \in Int : s = Settled(at)
  BY CurrentTyped
<1>2. (s - row.amount) * Minute <= growth * Greatest(0, at - row.utime)
  BY <1>1, SettledIs, GrownWorth, Typed
<1>3. CASE e = s - row.amount
  BY <1>2, <1>3
<1>4. CASE e = Current(at) - row.amount /\ e # s - row.amount
  <2>1. feature.open => e <= 0
    BY <1>1, <1>4, Typed DEF Current, Greatest, Least
  <2>2. growth * Greatest(0, at - row.utime) >= 0
    BY Typed DEF Greatest
  <2>3. e <= 0 => e * Minute <= 0
    BY MinuteIs
  <2>4. e * Minute \in Int /\ growth * Greatest(0, at - row.utime) \in Int
    BY Typed, MinuteIs DEF Greatest
  <2> QED BY <2>1, <2>2, <2>3, <2>4
<1> QED BY <1>1, <1>3, <1>4

-----------------------------------------------------------------------------
(* What a step leaves to the transactions that do not take it.             *)

Stays(y) ==
  /\ tx'[y] = tx[y]
  /\ rowLock = y => rowLock' = y /\ row' = row /\ growth' = growth
  /\ gfLock = y => gfLock' = y /\ feature' = feature

LEMMA StaysHolding ==
  ASSUME TypeOK, NEW y \in Tx, Holding(y), Stays(y)
  PROVE  Holding(y)'
<1>1. tx'[y] = tx[y]
  BY DEF Stays
<1>2. tx[y].op \in {"cost", "add", "set", "adjust"} \/ tx[y].op \in {"penalty", "purchase"}
      \/ tx[y].op = "toggle" \/ tx[y].op = "growth" \/ tx[y].op = None
  BY Typed DEF TxRow, Op
<1>3. SUFFICES ASSUME tx[y].pc = "holds" PROVE Holding(y)'
  BY <1>1 DEF Holding
<1>4. PICK at : at = tx[y].start
  OBVIOUS
<1>5. rowLock = y => Settled(at)' = Settled(at)
  BY <1>1, <1>4 DEF Stays, Settled, Minutes
<1>6. rowLock = y /\ gfLock = y => Current(at)' = Current(at)
  BY <1>1, <1>4, <1>5 DEF Stays, Current
<1> QED BY <1>1, <1>3, <1>4, <1>5, <1>6 DEF Holding, Stays

LEMMA Others ==
  ASSUME IInv, TypeOK', Timed', Counted', Earned', NEW x \in Tx, Holding(x)',
         \A y \in Tx \ {x} : Stays(y)
  PROVE  IInv'
BY StaysHolding DEF IInv

(* A step that only moves a transaction.                                   *)
LEMMA Moved ==
  ASSUME IInv, NEW x \in Tx, NEW new \in TxRow, tx' = [tx EXCEPT ![x] = new], new.start <= now,
         UNCHANGED <<now, data, past>>, Holding(x)',
         rowLock' \in Tx \cup {None}, gfLock' \in Tx \cup {None},
         \A y \in Tx \ {x} : (rowLock = y => rowLock' = y) /\ (gfLock = y => gfLock' = y)
  PROVE  IInv'
<1>1. /\ TypeOK /\ Timed /\ Counted /\ Earned /\ now' = now /\ row' = row /\ growth' = growth
      /\ feature' = feature /\ credited' = credited /\ due' = due /\ spilled' = spilled
      /\ back' = back /\ tx \in [Tx -> TxRow]
  BY Typed DEF IInv, data, past
<1>2. tx' \in [Tx -> TxRow] /\ \A y \in Tx : tx'[y] = IF y = x THEN new ELSE tx[y]
  BY <1>1
<1>3. TypeOK'
  BY <1>1, <1>2 DEF TypeOK, TxRow, Amount
<1>4. Timed' /\ Counted' /\ Earned'
  BY <1>1, <1>2 DEF Timed, Counted, Earned
<1>5. \A y \in Tx \ {x} : Stays(y)
  BY <1>1, <1>2 DEF Stays
<1> QED BY <1>3, <1>4, <1>5, Others

(* A transaction ends.                                                     *)
LEMMA Ended ==
  ASSUME TypeOK, NEW x \in Tx, End(x)
  PROVE  /\ \E new \in TxRow : /\ tx' = [tx EXCEPT ![x] = new] /\ new.pc = "done"
                               /\ new.start = tx[x].start
         /\ tx' \in [Tx -> TxRow] /\ tx'[x].pc = "done"
         /\ \A y \in Tx : tx'[y].start = tx[y].start
         /\ \A y \in Tx \ {x} : /\ tx'[y] = tx[y] /\ (rowLock = y => rowLock' = y)
                                /\ (gfLock = y => gfLock' = y)
         /\ rowLock' \in Tx \cup {None} /\ gfLock' \in Tx \cup {None} /\ now' = now
         /\ Holding(x)'
<1>1. tx \in [Tx -> TxRow] /\ tx[x] \in TxRow
  BY Typed
<1>2. PICK new : new = [tx[x] EXCEPT !.pc = "done"]
  OBVIOUS
<1>3. new \in TxRow /\ new.pc = "done" /\ new.start = tx[x].start
  BY <1>1, <1>2 DEF TxRow
<1>4. tx' = [tx EXCEPT ![x] = new]
  BY <1>1, <1>2 DEF End
<1>5. tx' \in [Tx -> TxRow] /\ \A y \in Tx : tx'[y] = IF y = x THEN new ELSE tx[y]
  BY <1>1, <1>3, <1>4
<1>6. rowLock' \in Tx \cup {None} /\ gfLock' \in Tx \cup {None}
  BY Typed DEF End
<1> QED BY <1>3, <1>4, <1>5, <1>6 DEF End, Holding

LEMMA Refused == ASSUME IInv, NEW x \in Tx, Refuse(x) PROVE IInv'
<1>1. TypeOK /\ End(x) /\ UNCHANGED <<data, past>> /\ tx[x].start <= now
  BY DEF Refuse, IInv, Timed
<1> QED BY <1>1, Ended, Moved

LEMMA BeginKeeps == ASSUME IInv, NEW x \in Tx, NEW op \in Op, Begin(x, op) PROVE IInv'
<1>1. /\ TypeOK /\ tx \in [Tx -> TxRow] /\ tx[x] \in TxRow /\ now \in 0..MaxTime
      /\ rowLock \in Tx \cup {None} /\ gfLock \in Tx \cup {None}
  BY Typed DEF IInv, TypeOK
<1>2. PICK new : new = [tx[x] EXCEPT !.pc = "begun", !.op = op, !.start = now]
  OBVIOUS
<1>3. new \in TxRow /\ new.pc = "begun" /\ new.start = now
  BY <1>1, <1>2 DEF TxRow
<1>4. tx' = [tx EXCEPT ![x] = new] /\ UNCHANGED <<now, data, rowLock, gfLock, past>>
  BY <1>1, <1>2 DEF Begin
<1>5. tx'[x] = new
  BY <1>1, <1>4
<1>6. Holding(x)'
  BY <1>3, <1>5 DEF Holding
<1>7. now <= now
  BY Typed DEF IInv
<1> QED BY <1>1, <1>3, <1>4, <1>6, <1>7, Moved

LEMMA TickKeeps == ASSUME IInv, Tick PROVE IInv'
<1>1. /\ TypeOK /\ Timed /\ Counted /\ Earned /\ now' = now + 1 /\ now < MaxTime /\ row' = row
      /\ growth' = growth /\ feature' = feature /\ tx' = tx /\ rowLock' = rowLock
      /\ gfLock' = gfLock /\ credited' = credited /\ spilled' = spilled /\ back' = back
      /\ due' = IF feature.open THEN due + growth ELSE due
  BY DEF IInv, Tick, data
<1>2. TypeOK'
  <2>1. now + 1 \in 0..MaxTime
    BY <1>1, Typed, Bounds
  <2> QED BY <1>1, <2>1 DEF TypeOK
<1>3. Timed' /\ Counted'
  BY <1>1, Typed DEF Timed, Counted
<1>4. growth * (now + 1 - row.utime) = growth * (now - row.utime) + growth
  BY <1>1, Typed
<1>5. Earned'
  <2>1. CASE feature.open
    <3>1. growth * (now - row.utime) \in Int /\ (credited - spilled) * Minute \in Int
      BY <1>1, Typed, MinuteIs DEF Counted
    <3> QED BY <1>1, <1>4, <2>1, <3>1, Typed DEF Earned, Counted
  <2>2. CASE ~feature.open
    BY <1>1, <2>2 DEF Earned
  <2> QED BY <2>1, <2>2
<1>6. \A y \in Tx : Stays(y)
  BY <1>1 DEF Stays
<1> QED BY <1>2, <1>3, <1>5, <1>6, StaysHolding DEF IInv

LEMMA LockKeeps ==
  ASSUME IInv, NEW x \in Tx, LockRuntime(x) \/ LockPurchase(x) \/ LockFeature(x)
  PROVE  IInv'
<1>0. /\ TypeOK /\ Timed /\ tx \in [Tx -> TxRow] /\ tx[x] \in TxRow /\ tx[x].start \in Nat
      /\ tx[x].start <= now
      /\ rowLock \in Tx \cup {None} /\ gfLock \in Tx \cup {None} /\ None \notin Tx
  BY Typed, ConstantAssumption DEF IInv, Timed
<1>1. CASE Refuse(x)
  BY <1>1, Refused
<1>2. PICK at \in Nat : at = tx[x].start
  BY <1>0
<1>3. CASE LockRuntime(x)
  <2>1. PICK current \in Amount : current = Current(at)
    BY <1>0, CurrentTyped
  <2>2. PICK new : new = [tx[x] EXCEPT !.pc = "holds", !.current = current]
    OBVIOUS
  <2>3. /\ new \in TxRow /\ new.pc = "holds" /\ new.current = current /\ new.start = at
        /\ new.op = tx[x].op
    BY <1>0, <1>2, <2>1, <2>2 DEF TxRow
  <2>4. tx' = [tx EXCEPT ![x] = new]
    BY <1>0, <1>2, <1>3, <2>1, <2>2 DEF LockRuntime
  <2>5. /\ tx[x].op \in {"cost", "add", "set", "adjust"} /\ rowLock = None /\ gfLock = None
        /\ rowLock' = x /\ gfLock' = x /\ UNCHANGED <<now, data, past>>
    BY <1>3 DEF LockRuntime
  <2>6. Current(at)' = current
    BY <2>1, <2>5 DEF Current, Settled, Minutes, data
  <2>7. Holding(x)'
    <3>1. tx'[x] = new
      BY <1>0, <2>4
    <3> QED BY <2>3, <2>5, <2>6, <3>1 DEF Holding
  <2> QED BY <1>0, <1>2, <2>3, <2>4, <2>5, <2>7, Moved
<1>4. CASE LockPurchase(x) /\ ~Refuse(x)
  <2>1. PICK current \in Amount : current = Settled(at)
    BY <1>2, <1>4 DEF LockPurchase, Fits, Amount
  <2>2. PICK new : new = [tx[x] EXCEPT !.pc = "holds", !.current = current]
    OBVIOUS
  <2>3. /\ new \in TxRow /\ new.pc = "holds" /\ new.current = current /\ new.start = at
        /\ new.op = tx[x].op
    BY <1>0, <1>2, <2>1, <2>2 DEF TxRow
  <2>4. tx' = [tx EXCEPT ![x] = new]
    BY <1>0, <1>2, <1>4, <2>1, <2>2 DEF LockPurchase
  <2>5. /\ tx[x].op \in {"penalty", "purchase"} /\ rowLock = None
        /\ rowLock' = x /\ UNCHANGED <<now, data, gfLock, past>>
    BY <1>4 DEF LockPurchase
  <2>6. Settled(at)' = current
    BY <2>1, <2>5 DEF Settled, Minutes, data
  <2>7. Holding(x)'
    <3>1. tx'[x] = new
      BY <1>0, <2>4
    <3> QED BY <2>3, <2>5, <2>6, <3>1 DEF Holding
  <2> QED BY <1>0, <1>2, <2>3, <2>4, <2>5, <2>7, Moved
<1>5. CASE LockFeature(x)
  <2>1. PICK new : new = [tx[x] EXCEPT !.pc = "holds"]
    OBVIOUS
  <2>2. new \in TxRow /\ new.pc = "holds" /\ new.start = at /\ new.op = tx[x].op
    BY <1>0, <1>2, <2>1 DEF TxRow
  <2>3. tx' = [tx EXCEPT ![x] = new]
    BY <1>0, <1>5, <2>1 DEF LockFeature
  <2>4. /\ tx[x].op \in {"toggle", "growth"} /\ gfLock = None /\ gfLock' = x
        /\ tx[x].op = "growth" => rowLock = None
        /\ rowLock' = IF tx[x].op = "growth" THEN x ELSE rowLock
        /\ UNCHANGED <<now, data, past>>
    BY <1>5 DEF LockFeature
  <2>5. Holding(x)'
    <3>1. tx'[x] = new
      BY <1>0, <2>3
    <3> QED BY <2>2, <2>4, <3>1 DEF Holding
  <2> QED BY <1>0, <1>2, <2>2, <2>3, <2>4, <2>5, Moved
<1> QED BY <1>1, <1>3, <1>4, <1>5

-----------------------------------------------------------------------------
(* Writes.                                                                 *)

LEMMA WriteWorth ==
  ASSUME NEW m \in Nat, NEW s \in Nat, NEW u \in Nat, s <= m, u <= m, NEW g \in Nat, NEW h \in Nat,
         NEW e \in Int, NEW c \in Int, NEW p \in Int, NEW d \in Int, NEW b \in Int,
         e * Minute <= g * Greatest(0, s - u),
         (c - p) * Minute + g * (m - u) <= d + b
  PROVE  (c + e - p) * Minute + h * (m - s)
           <= d + (b + g * Greatest(0, u - s) + Greatest(0, h - g) * (m - s))
<1>1. PICK x \in Nat, y \in Nat, z \in Nat :
        x = Greatest(0, s - u) /\ y = Greatest(0, u - s) /\ z = Greatest(0, h - g)
  <2>1. Greatest(0, s - u) \in Nat /\ Greatest(0, u - s) \in Nat /\ Greatest(0, h - g) \in Nat
    BY DEF Greatest
  <2> QED BY <2>1
<1>2. x + (m - s) <= (m - u) + y /\ h <= g + z
  BY <1>1 DEF Greatest
<1>3. PICK k \in Nat, l \in Nat : k = m - s /\ l = m - u
  OBVIOUS
<1>4. g * (x + k) <= g * (l + y) /\ h * k <= (g + z) * k
  BY <1>2, <1>3, Times
<1>5. g * (x + k) = g * x + g * k /\ g * (l + y) = g * l + g * y /\ (g + z) * k = g * k + z * k
  OBVIOUS
<1>6. (c + e - p) * Minute = (c - p) * Minute + e * Minute
  BY MinuteIs
<1>7. /\ g * x \in Int /\ g * k \in Int /\ g * l \in Int /\ g * y \in Int /\ z * k \in Int
      /\ h * k \in Int /\ (c - p) * Minute \in Int /\ e * Minute \in Int
  BY MinuteIs
<1>8. e * Minute <= g * x /\ (c - p) * Minute + g * l <= d + b
  BY <1>1, <1>3
<1>9. (c - p) * Minute + e * Minute + h * k <= d + (b + g * y + z * k)
  BY <1>4, <1>5, <1>7, <1>8
<1> QED BY <1>1, <1>3, <1>6, <1>9

LEMMA SpillWorth ==
  ASSUME NEW e \in Int, NEW c \in Int, NEW p \in Int, NEW d \in Int, NEW b \in Int, NEW y \in Nat,
         NEW z \in Nat, (c - p) * Minute <= d + b
  PROVE  (c + e - (IF e < 0 THEN p ELSE p + e)) * Minute <= d + (b + y + z)
<1>1. PICK q \in Int : q = IF e < 0 THEN p ELSE p + e
  OBVIOUS
<1>2. PICK i \in Int, j \in Int : i = c + e - q /\ j = c - p /\ i <= j
  <2>1. c + e - q \in Int /\ c - p \in Int /\ c + e - q <= c - p
    BY <1>1
  <2> QED BY <2>1
<1>3. i * Minute <= j * Minute /\ i * Minute \in Int /\ j * Minute \in Int
  BY <1>2, MinuteIs
<1> QED BY <1>1, <1>2, <1>3

LEMMA WriteKeeps ==
  ASSUME IInv, NEW x \in Tx, tx[x].pc = "holds",
         tx[x].op \in {"cost", "add", "set", "adjust", "penalty", "purchase"},
         NEW amount \in Amount, amount <= Max, NEW g \in Growths, NEW why, Write(x, why, amount, g)
  PROVE  IInv'
<1>1. /\ TypeOK /\ Timed /\ Counted /\ Earned /\ Holding(x) /\ rowLock = x
      /\ tx[x].start \in 0..MaxTime
  BY Typed DEF IInv, Holding, TxRow
<1>2. PICK s \in Nat, e \in Int :
        s = tx[x].start /\ e = tx[x].current - row.amount /\ s <= now
  BY <1>1, Typed DEF Timed
<1>3. /\ row' = [amount |-> amount, utime |-> s] /\ credited' = credited + e
      /\ spilled' = IF feature.open \/ e < 0 THEN spilled ELSE spilled + e
      /\ back' = back + growth * Greatest(0, row.utime - s) + Greatest(0, g - growth) * (now - s)
      /\ growth' = g /\ feature' = feature /\ due' = due /\ End(x)
  BY <1>2 DEF Write
<1>4. feature.open => e * Minute <= growth * Greatest(0, s - row.utime)
  BY <1>1, <1>2, ReadWorth DEF IInv, Holding
<1>5. /\ tx' \in [Tx -> TxRow] /\ \A y \in Tx : tx'[y].start = tx[y].start
      /\ \A y \in Tx \ {x} : /\ tx'[y] = tx[y] /\ (rowLock = y => rowLock' = y)
                             /\ (gfLock = y => gfLock' = y)
      /\ rowLock' \in Tx \cup {None} /\ gfLock' \in Tx \cup {None} /\ now' = now /\ Holding(x)'
  BY <1>1, <1>3, Ended
<1>6. TypeOK'
  BY <1>1, <1>2, <1>3, <1>5 DEF TypeOK, TxRow, Amount
<1>7. Timed'
  BY <1>1, <1>2, <1>3, <1>5 DEF Timed
<1>8. /\ g \in Nat /\ growth \in Nat /\ row.utime \in Nat /\ now \in Nat /\ row.utime <= now
      /\ feature.open \in BOOLEAN
  BY <1>1, Typed, Bounds DEF Timed
<1>9. Greatest(0, row.utime - s) \in Nat /\ Greatest(0, g - growth) \in Nat /\ now - s \in Nat
  BY <1>2, <1>8 DEF Greatest
<1>10. PICK y \in Nat, z \in Nat :
         y = growth * Greatest(0, row.utime - s) /\ z = Greatest(0, g - growth) * (now - s)
  BY <1>8, <1>9
<1>11. Counted'
  BY <1>1, <1>3, <1>10 DEF Counted
<1>12. Earned'
  <2>1. CASE feature.open
    <3>1. (credited - spilled) * Minute + growth * (now - row.utime) <= due + back
      BY <1>1, <2>1 DEF Earned
    <3>2. (credited + e - spilled) * Minute + g * (now - s)
            <= due + (back + growth * Greatest(0, row.utime - s)
                           + Greatest(0, g - growth) * (now - s))
      BY <1>1, <1>2, <1>4, <1>8, <2>1, <3>1, WriteWorth DEF Counted
    <3>3. (credited' - spilled') * Minute = (credited + e - spilled) * Minute
      <4>1. credited' = credited + e /\ spilled' = spilled
        BY <1>3, <2>1
      <4> QED BY <1>1, <1>11, <4>1, MinuteIs DEF Counted
    <3>4. growth' * (now' - row'.utime) = g * (now - s) /\ feature'.open
      BY <1>3, <1>5, <2>1
    <3> QED BY <1>3, <3>2, <3>3, <3>4 DEF Earned
  <2>2. CASE ~feature.open
    <3>1. (credited - spilled) * Minute <= due + back
      <4>1. (credited - spilled) * Minute \in Int
        BY <1>1, MinuteIs DEF Counted
      <4> QED BY <1>1, <2>2, <4>1 DEF Earned
    <3>2. PICK q : q = IF e < 0 THEN spilled ELSE spilled + e
      OBVIOUS
    <3>3. (credited + e - q) * Minute <= due + (back + y + z)
      BY <1>1, <3>1, <3>2, SpillWorth DEF Counted
    <3>4. spilled' = q /\ credited' = credited + e /\ back' = back + y + z /\ due' = due
          /\ ~feature'.open
      BY <1>3, <1>10, <2>2, <3>2
    <3>5. (credited' - spilled') * Minute <= due' + back'
      <4>1. credited' = credited + e /\ spilled' = q /\ due' = due /\ back' = back + y + z
        BY <3>4
      <4> QED BY <1>1, <1>11, <3>3, <4>1, MinuteIs DEF Counted
    <3>6. (credited' - spilled') * Minute \in Int
      BY <1>11, MinuteIs DEF Counted
    <3> QED BY <3>4, <3>5, <3>6 DEF Earned
  <2> QED BY <2>1, <2>2
<1>13. \A v \in Tx \ {x} : Stays(v)
  BY <1>1, <1>3, <1>5 DEF Stays
<1> QED BY <1>5, <1>6, <1>7, <1>11, <1>12, <1>13, Others

LEMMA ReadMax ==
  ASSUME IInv, NEW x \in Tx, tx[x].pc = "holds",
         tx[x].op \in {"cost", "add", "set", "adjust", "penalty", "purchase"}
  PROVE  tx[x].current \in Int /\ tx[x].current \in Amount /\ tx[x].current <= Max
<1>1. TypeOK /\ Timed /\ Holding(x) /\ tx \in [Tx -> TxRow] /\ tx[x].start \in Nat
      /\ tx[x].current \in Int
  BY Typed DEF IInv
<1>2. tx[x].current \in Amount
  BY <1>1 DEF TxRow
<1>3. tx[x].current = Current(tx[x].start) \/ tx[x].current = Settled(tx[x].start)
  BY <1>1 DEF Holding
<1> QED BY <1>1, <1>2, <1>3, CurrentTyped

LEMMA WritesKeep ==
  ASSUME IInv, NEW x \in Tx,
         Cost(x) \/ Add(x) \/ Update(x) \/ Adjust(x) \/ Purchase(x) \/ Penalty(x)
  PROVE  IInv'
<1>1. CASE Refuse(x)
  BY <1>1, Refused
<1>2. /\ tx[x].pc = "holds"
      /\ tx[x].op \in {"cost", "add", "set", "adjust", "penalty", "purchase"}
      /\ growth \in Growths
  BY DEF Cost, Add, Update, Adjust, Purchase, Penalty, Holds, IInv, TypeOK
<1>3. PICK c \in Int : c = tx[x].current /\ c >= MinInt /\ c <= Max
  BY <1>2, ReadMax, Bounds DEF Amount
<1>4. ASSUME NEW n \in Int, n >= MinInt, n <= Max PROVE n \in Amount
  BY <1>4, Bounds DEF Amount
<1>5. CASE Cost(x) /\ ~Refuse(x)
  <2>0. PICK p \in Price : \E n \in CostChange(c, p) : Write(x, "spend", n, growth)
    BY <1>3, <1>5 DEF Cost
  <2>1. PICK n \in CostChange(c, p) : Write(x, "spend", n, growth)
    BY <2>0
  <2>2. n \in Int /\ n >= MinInt /\ n <= Max
    <3>1. p \in Nat /\ n = c - p /\ n \in MinInt..MaxInt
      BY <2>1, Bounds DEF CostChange, Fits
    <3> QED BY <1>3, <3>1, Bounds
  <2>3. n \in Amount
    BY <1>4, <2>2
  <2> QED BY <1>2, <2>1, <2>2, <2>3, WriteKeeps
<1>6. CASE Add(x)
  <2>1. PICK g \in Gift : Write(x, "reward", Added(c, g), growth)
    BY <1>3, <1>6 DEF Add
  <2>2. Added(c, g) \in Int /\ Added(c, g) >= MinInt /\ Added(c, g) <= Max
    BY <1>3, Bounds DEF Added, Greatest, Least
  <2>3. Added(c, g) \in Amount
    BY <1>4, <2>2
  <2> QED BY <1>2, <2>1, <2>2, <2>3, WriteKeeps
<1>7. CASE Update(x)
  <2>1. PICK a \in Price \cup Gift \cup {c}, g \in Growths : Write(x, "staff", Least(a, Max), g)
    BY <1>2, <1>3, <1>7 DEF Update
  <2>2. a \in Int /\ a >= MinInt
    BY <1>3, Bounds
  <2>3. Least(a, Max) \in Int /\ Least(a, Max) >= MinInt /\ Least(a, Max) <= Max
    BY <2>2, Bounds DEF Least
  <2>4. Least(a, Max) \in Amount
    BY <1>4, <2>3
  <2> QED BY <1>2, <2>1, <2>3, <2>4, WriteKeeps
<1>8. CASE Adjust(x) /\ ~Refuse(x)
  <2>0. PICK d \in Gift \cup {-p : p \in Price} :
          \E n \in StrictNext(c, d) : Write(x, "staff", n, growth)
    BY <1>3, <1>8 DEF Adjust
  <2>1. PICK n \in StrictNext(c, d) : Write(x, "staff", n, growth)
    BY <2>0
  <2>2. n \in Amount /\ n <= Max
    BY <2>1 DEF StrictNext, Fits, Amount
  <2> QED BY <1>2, <2>1, <2>2, WriteKeeps
<1>9. CASE Purchase(x) /\ ~Refuse(x)
  <2>1. PICK p \in Price, why \in {"spend", "purchase"} : c >= p /\ Write(x, why, c - p, growth)
    BY <1>3, <1>9 DEF Purchase
  <2>2. c - p \in Int /\ c - p >= MinInt /\ c - p <= Max
    BY <1>3, <2>1, Bounds
  <2>3. c - p \in Amount
    BY <1>4, <2>2
  <2> QED BY <1>2, <2>1, <2>2, <2>3, WriteKeeps
<1>10. CASE Penalty(x) /\ ~Refuse(x)
  <2>1. PICK p \in Price : Fits(c - p) /\ Write(x, "penalty", c - p, growth)
    BY <1>3, <1>10 DEF Penalty
  <2>2. c - p \in Amount /\ c - p <= Max
    BY <1>3, <2>1, Bounds DEF Fits, Amount
  <2> QED BY <1>2, <2>1, <2>2, WriteKeeps
<1> QED BY <1>1, <1>5, <1>6, <1>7, <1>8, <1>9, <1>10

-----------------------------------------------------------------------------
(* The feature opens and closes, the growth changes.                       *)

LEMMA SettleIs ==
  ASSUME NEW a \in Int, a <= Max, NEW g \in Nat, NEW d \in Int
  PROVE  Greatest(Least(a, 0), Least(a + Greatest(d \div Minute, 0) * g, Max))
           = Grown(a, g, Greatest(0, d))
<1>1. PICK m \in Nat : m = Greatest(d \div Minute, 0) /\ m = Greatest(0, d) \div Minute
  <2>1. CASE d >= 0
    <3>1. d \div Minute \in Nat
      BY <2>1, FloorSign
    <3> QED BY <2>1, <3>1 DEF Greatest
  <2>2. CASE d < 0
    <3>1. d \div Minute \in Int /\ d \div Minute < 0
      BY <2>2, Floor, FloorSign
    <3>2. 0 \div Minute = 0
      BY MinuteIs
    <3> QED BY <2>2, <3>1, <3>2 DEF Greatest
  <2> QED BY <2>1, <2>2
<1>2. PICK z \in Nat : z = m * g
  OBVIOUS
<1>3. Greatest(Least(a, 0), Least(a + z, Max)) = Least(a + z, Max)
  BY <1>2, Bounds DEF Greatest, Least
<1> QED BY <1>1, <1>2, <1>3 DEF Grown

LEMMA Settles ==
  ASSUME TypeOK, Timed, Counted, NEW at \in Nat, at <= now, SettleAt(at)
  PROVE  \E n \in Amount, t \in 0..MaxTime :
           /\ n = Grown(row.amount, growth, Greatest(0, at - row.utime))
           /\ t = Greatest(row.utime, at) /\ t <= now
           /\ row' = [amount |-> n, utime |-> t] /\ n <= Max
           /\ credited' = credited + (n - row.amount)
           /\ (n - row.amount) * Minute <= growth * (now - row.utime)
<1>1. PICK a \in Int, g \in Nat, d \in Int, e \in Nat :
        /\ a = row.amount /\ g = growth /\ d = at - row.utime /\ e = Greatest(0, d)
        /\ a <= Max /\ a >= MinInt /\ row.utime <= now /\ row.utime \in Nat
  <2>1. at - row.utime \in Int /\ Greatest(0, at - row.utime) \in Nat
    BY Typed DEF Greatest
  <2> QED BY <2>1, Typed DEF Timed
<1>2. PICK n : n = Greatest(Least(a, 0), Least(a + Greatest(d \div Minute, 0) * g, Max))
  OBVIOUS
<1>3. n = Grown(a, g, e)
  BY <1>1, <1>2, SettleIs
<1>4. n \in Int /\ n <= Max /\ a <= n
  <2>1. e \in Int /\ e >= 0
    BY <1>1
  <2> QED BY <1>1, <1>3, <2>1, GrownTyped
<1>5. n \in Amount
  BY <1>1, <1>4, Bounds DEF Amount
<1>6. PICK t \in 0..MaxTime : t = Greatest(row.utime, at) /\ t <= now
  <2>1. Greatest(row.utime, at) \in {row.utime, at}
    BY DEF Greatest
  <2> QED BY <1>1, <2>1, Typed, Bounds
<1>7. row' = [amount |-> n, utime |-> t] /\ credited' = credited + (n - a)
  BY <1>1, <1>2, <1>6 DEF SettleAt, Minutes
<1>8. (n - a) * Minute <= g * (now - row.utime)
  <2>1. (n - a) * Minute <= g * Greatest(0, e)
    BY <1>1, <1>3, GrownWorth
  <2>2. Greatest(0, e) = e /\ e <= now - row.utime
    BY <1>1, Typed DEF Greatest
  <2>3. g * e <= g * (now - row.utime) /\ g * e \in Int /\ g * (now - row.utime) \in Int
    BY <1>1, <2>2, Times, Typed
  <2>4. (n - a) * Minute \in Int
    BY <1>4, MinuteIs
  <2> QED BY <2>1, <2>2, <2>3, <2>4
<1> QED BY <1>1, <1>3, <1>4, <1>5, <1>6, <1>7, <1>8

(* What is left when the growth of an open currency has been added.        *)
LEMMA ClosingWorth ==
  ASSUME NEW c \in Int, NEW p \in Int, NEW e \in Int, NEW d \in Int, NEW b \in Int, NEW k \in Int,
         e * Minute <= k, (c - p) * Minute + k <= d + b
  PROVE  (c + e - p) * Minute <= d + b /\ (c + e - p) * Minute \in Int
<1>1. (c + e - p) * Minute = (c - p) * Minute + e * Minute
  BY MinuteIs
<1>2. (c - p) * Minute \in Int /\ e * Minute \in Int
  BY MinuteIs
<1> QED BY <1>1, <1>2

LEMMA ToggleKeeps == ASSUME IInv, NEW x \in Tx, Toggle(x) PROVE IInv'
<1>1. /\ TypeOK /\ Timed /\ Counted /\ Earned /\ Holding(x) /\ rowLock = None /\ gfLock = x
      /\ End(x) /\ growth' = growth /\ spilled' = spilled /\ back' = back
      /\ None \notin Tx
  BY ConstantAssumption DEF IInv, Toggle, Holds, Holding
<1>2. PICK at \in Nat :
        /\ at <= now /\ feature' = [open |-> ~feature.open, since |-> at]
        /\ IF feature.open THEN SettleAt(at) ELSE Enable(at)
        /\ due' = IF feature.open THEN due ELSE due + growth * (now - at)
  BY <1>1, Typed DEF Toggle
<1>3. /\ tx' \in [Tx -> TxRow] /\ \A y \in Tx : tx'[y].start = tx[y].start
      /\ \A y \in Tx \ {x} : /\ tx'[y] = tx[y] /\ (rowLock = y => rowLock' = y)
                             /\ (gfLock = y => gfLock' = y)
      /\ rowLock' \in Tx \cup {None} /\ gfLock' \in Tx \cup {None} /\ now' = now /\ Holding(x)'
  BY <1>1, Ended
<1>4. /\ now \in Nat /\ now <= MaxTime /\ growth \in Nat /\ row.utime \in Nat /\ row.utime <= now
      /\ row.amount \in Amount /\ row.amount <= Max /\ row.amount \in Int
      /\ now \in 0..MaxTime /\ growth \in Growths /\ MaxTime \in Nat
  BY <1>1, Typed, Bounds DEF Timed, TypeOK, Amount
<1>5. feature' \in [open: BOOLEAN, since: 0..MaxTime] /\ feature'.since = at
      /\ (feature'.open <=> ~feature.open)
  <2>1. PICK b \in BOOLEAN : b <=> ~feature.open
    OBVIOUS
  <2>2. feature' = [open |-> b, since |-> at]
    BY <1>2, <2>1
  <2>3. at \in 0..MaxTime
    BY <1>2, <1>4
  <2> QED BY <2>1, <2>2, <2>3
<1>6. /\ row' \in [amount: Amount, utime: 0..MaxTime] /\ row'.amount <= Max /\ row'.utime <= now
      /\ credited' \in Int /\ due' \in Int /\ Earned'
  <2>1. CASE feature.open
    <3>1. PICK n \in Amount, t \in 0..MaxTime :
            /\ t <= now /\ row' = [amount |-> n, utime |-> t] /\ n <= Max
            /\ credited' = credited + (n - row.amount)
            /\ (n - row.amount) * Minute <= growth * (now - row.utime)
      BY <1>1, <1>2, <2>1, Settles
    <3>2. PICK e \in Int, k \in Int : e = n - row.amount /\ k = growth * (now - row.utime)
      BY <1>4, Bounds DEF Amount
    <3>3. (credited - spilled) * Minute + k <= due + back
      BY <1>1, <2>1, <3>2 DEF Earned
    <3>4. (credited + e - spilled) * Minute <= due + back
          /\ (credited + e - spilled) * Minute \in Int
      BY <1>1, <3>1, <3>2, <3>3, ClosingWorth DEF Counted
    <3>5. credited' = credited + e /\ due' = due /\ ~feature'.open
      BY <1>2, <1>5, <2>1, <3>1, <3>2
    <3>6. Earned'
      BY <1>1, <3>4, <3>5 DEF Earned, Counted
    <3> QED BY <1>1, <3>1, <3>2, <3>5, <3>6 DEF Counted
  <2>2. CASE ~feature.open
    <3>1. row' = [row EXCEPT !.utime = Greatest(@, at)] /\ credited' = credited
      BY <1>2, <2>2 DEF Enable
    <3>2. PICK t \in 0..MaxTime : t = Greatest(row.utime, at) /\ t <= now /\ at <= t
      BY <1>2, <1>4 DEF Greatest
    <3>3. row' = [row EXCEPT !.utime = t]
      BY <3>1, <3>2
    <3>4. row'.utime = t /\ row'.amount = row.amount /\ row' \in [amount: Amount, utime: 0..MaxTime]
      BY <1>1, <3>3, Typed
    <3>5. growth * (now - t) <= growth * (now - at) /\ growth * (now - t) \in Int
          /\ growth * (now - at) \in Int
      BY <1>2, <1>4, <3>2, Times
    <3>6. (credited - spilled) * Minute <= due + back /\ (credited - spilled) * Minute \in Int
      <4>1. (credited - spilled) * Minute \in Int
        BY <1>1, MinuteIs DEF Counted
      <4> QED BY <1>1, <2>2, <4>1 DEF Earned, Counted
    <3>7. due' = due + growth * (now - at) /\ feature'.open
      BY <1>2, <1>5, <2>2
    <3>8. (credited - spilled) * Minute + growth * (now - t) <= due + growth * (now - at) + back
      BY <1>1, <3>5, <3>6 DEF Counted
    <3>9. Earned'
      BY <1>1, <1>3, <3>1, <3>4, <3>7, <3>8 DEF Earned
    <3> QED BY <1>1, <1>4, <3>1, <3>2, <3>4, <3>5, <3>7, <3>9 DEF Counted
  <2> QED BY <2>1, <2>2
<1>7. TypeOK'
  BY <1>1, <1>3, <1>4, <1>5, <1>6 DEF TypeOK, TxRow, Amount
<1>8. Timed' /\ Counted'
  BY <1>1, <1>2, <1>3, <1>5, <1>6 DEF Timed, Counted
<1>9. \A y \in Tx \ {x} : Stays(y)
  BY <1>1, <1>3 DEF Stays
<1> QED BY <1>3, <1>6, <1>7, <1>8, <1>9, Others

LEMMA GrowthKeeps == ASSUME IInv, NEW x \in Tx, ChangeGrowth(x) PROVE IInv'
<1>1. /\ TypeOK /\ Timed /\ Counted /\ Earned /\ Holding(x) /\ rowLock = x /\ gfLock = x
      /\ End(x) /\ feature' = feature /\ due' = due /\ spilled' = spilled /\ back' = back
      /\ IF feature.open THEN SettleAt(now) ELSE UNCHANGED <<row, credited>>
  BY DEF IInv, ChangeGrowth, Holds, Holding
<1>2. PICK g \in Growths : growth' = g
  BY DEF ChangeGrowth
<1>3. /\ tx' \in [Tx -> TxRow] /\ \A y \in Tx : tx'[y].start = tx[y].start
      /\ \A y \in Tx \ {x} : /\ tx'[y] = tx[y] /\ (rowLock = y => rowLock' = y)
                             /\ (gfLock = y => gfLock' = y)
      /\ rowLock' \in Tx \cup {None} /\ gfLock' \in Tx \cup {None} /\ now' = now /\ Holding(x)'
  BY <1>1, Ended
<1>4. /\ now \in Nat /\ growth \in Nat /\ row.utime \in Nat /\ row.utime <= now
      /\ row.amount \in Int /\ g \in Nat /\ row \in [amount: Amount, utime: 0..MaxTime]
      /\ row.amount <= Max
  BY <1>1, Typed, Bounds DEF Timed
<1>5. /\ row' \in [amount: Amount, utime: 0..MaxTime] /\ row'.amount <= Max /\ row'.utime <= now
      /\ credited' \in Int /\ Earned'
  <2>1. CASE feature.open
    <3>1. PICK n \in Amount, t \in 0..MaxTime :
            /\ t = Greatest(row.utime, now) /\ row' = [amount |-> n, utime |-> t] /\ n <= Max
            /\ credited' = credited + (n - row.amount)
            /\ (n - row.amount) * Minute <= growth * (now - row.utime)
      <4>1. now <= now
        BY <1>4
      <4> QED BY <1>1, <1>4, <2>1, <4>1, Settles
    <3>2. PICK e \in Int, k \in Int : e = n - row.amount /\ k = growth * (now - row.utime)
      BY <1>4, Bounds DEF Amount
    <3>3. (credited - spilled) * Minute + k <= due + back
      BY <1>1, <2>1, <3>2 DEF Earned
    <3>4. (credited + e - spilled) * Minute <= due + back
          /\ (credited + e - spilled) * Minute \in Int
      BY <1>1, <3>1, <3>2, <3>3, ClosingWorth DEF Counted
    <3>5. t = now /\ g * (now - t) = 0
      BY <1>4, <3>1 DEF Greatest
    <3>6. credited' = credited + e /\ row'.utime = t /\ feature'.open
      BY <1>1, <2>1, <3>1, <3>2
    <3>7. (credited + e - spilled) * Minute + g * (now - t) <= due + back
      BY <3>4, <3>5
    <3>8. Earned'
      <4>1. growth' * (now' - row'.utime) = g * (now - t)
        BY <1>2, <1>3, <3>6
      <4>2. (credited' - spilled') * Minute = (credited + e - spilled) * Minute
        BY <1>1, <3>6 DEF Counted
      <4> QED BY <1>1, <3>6, <3>7, <4>1, <4>2 DEF Earned
    <3> QED BY <1>1, <1>4, <3>1, <3>2, <3>5, <3>6, <3>8 DEF Counted
  <2>2. CASE ~feature.open
    BY <1>1, <1>4, <2>2 DEF Earned, Counted
  <2> QED BY <2>1, <2>2
<1>6. TypeOK'
  BY <1>1, <1>2, <1>3, <1>5 DEF TypeOK, TxRow, Amount
<1>7. Timed' /\ Counted'
  BY <1>1, <1>3, <1>5 DEF Timed, Counted
<1>8. \A y \in Tx \ {x} : Stays(y)
  BY <1>1, <1>3, ConstantAssumption DEF Stays
<1> QED BY <1>3, <1>5, <1>6, <1>7, <1>8, Others

-----------------------------------------------------------------------------
(* The inductive invariant.                                                *)

LEMMA InitIInv == ASSUME Init PROVE IInv
<1>1. /\ now = 0 /\ row = [amount |-> InitAmount, utime |-> 0] /\ growth \in Growths
      /\ feature = [open |-> TRUE, since |-> 0]
      /\ tx = [x \in Tx |-> [pc |-> "idle", op |-> None, start |-> 0, current |-> 0]]
      /\ rowLock = None /\ gfLock = None
      /\ credited = 0 /\ due = 0 /\ spilled = 0 /\ back = 0
  BY DEF Init
<1>2. TypeOK
  BY <1>1, Bounds DEF TypeOK
<1>3. Timed /\ Counted
  BY <1>1, Bounds DEF Timed, Counted
<1>4. Earned
  BY <1>1, Bounds, MinuteIs DEF Earned
<1>5. \A x \in Tx : Holding(x)
  BY <1>1 DEF Holding
<1> QED BY <1>2, <1>3, <1>4, <1>5 DEF IInv

LEMMA StutterKeeps == ASSUME IInv, UNCHANGED vars PROVE IInv'
<1>1. /\ now' = now /\ row' = row /\ growth' = growth /\ feature' = feature /\ tx' = tx
      /\ rowLock' = rowLock /\ gfLock' = gfLock /\ credited' = credited /\ due' = due
      /\ spilled' = spilled /\ back' = back /\ TypeOK
  BY DEF vars, data, past, IInv
<1>2. TypeOK'
  BY <1>1 DEF TypeOK
<1>3. Timed' /\ Counted' /\ Earned'
  BY <1>1 DEF IInv, Timed, Counted, Earned
<1>4. \A y \in Tx : Stays(y)
  BY <1>1 DEF Stays
<1> QED BY <1>2, <1>3, <1>4, StaysHolding DEF IInv

LEMMA NextKeeps == ASSUME IInv, [Next]_vars PROVE IInv'
BY TickKeeps, BeginKeeps, LockKeeps, WritesKeep, ToggleKeeps, GrowthKeeps, StutterKeeps DEF Next

(* The locks of lock_currency_runtime_conn keep what a transaction has      *)
(* read, and the row is never ahead of the time it was right at.           *)
THEOREM Invariance == Spec => []IInv
<1>1. Init => IInv
  BY InitIInv
<1>2. IInv /\ [Next]_vars => IInv'
  BY NextKeeps
<1> QED BY <1>1, <1>2, PTL DEF Spec

(* A team never gets more growth than the time its currency was open is    *)
(* worth, but for the growth that purchases settle while it is closed and  *)
(* the time that a late writer sets utime_at back by.                      *)
THEOREM GrowthAlwaysSound == Spec => []GrowthSound
<1>1. IInv => GrowthSound
  <2> SUFFICES ASSUME IInv PROVE GrowthBounded
    BY DEF GrowthSound, IInv
  <2>1. growth * (now - row.utime) \in Nat
    <3>1. growth \in Nat /\ now - row.utime \in Nat
      BY Typed DEF IInv, Timed
    <3> QED BY <3>1
  <2>2. (credited - spilled) * Minute \in Int /\ due + back \in Int
    BY MinuteIs DEF IInv, Counted
  <2> QED BY <2>1, <2>2 DEF IInv, Earned, GrowthBounded
<1> QED BY <1>1, Invariance, PTL

-----------------------------------------------------------------------------
(* The wallet.                                                             *)

LEMMA Largest ==
  MaxGrowth \in Nat /\ \A g \in Growths : g <= MaxGrowth
<1>1. MaxGrowth \in Growths /\ \A g \in Growths : g <= MaxGrowth
  BY ConstantAssumption DEF MaxGrowth
<1> QED BY <1>1, Bounds

LEMMA InitMaps == ASSUME Init PROVE Shown!Init
<1>1. IInv /\ now = 0 /\ row.utime = 0 /\ row.amount = InitAmount /\ feature.open = TRUE
      /\ cause = "start" /\ growth \in Nat
  BY InitIInv, Bounds DEF Init
<1>2. Current(0) = Grown(row.amount, growth, 0 - row.utime)
  BY <1>1, CurrentIs DEF IInv
<1>3. 0 \div Minute = 0
  BY MinuteIs
<1>4. Grown(InitAmount, growth, 0) = InitAmount
  BY <1>1, <1>3, Bounds DEF Grown, Least
<1>5. Current(now) = InitAmount
  <2>1. 0 - row.utime = 0
    BY <1>1
  <2> QED BY <1>1, <1>2, <1>4, <2>1
<1> QED BY <1>1, <1>5, Bounds DEF Shown!Init

(* A step that leaves the row, and the clock, leaves what is shown.         *)
LEMMA Hidden ==
  ASSUME UNCHANGED <<now, data, past>>
  PROVE  UNCHANGED Shown!vars
BY DEF Shown!vars, data, past, Current, Settled, Minutes

(* What is shown, from the time of the row on.                             *)
ShownSound ==
  /\ Current(now) \in Int /\ Current(now) <= Max
  /\ feature.open => Current(now) = Grown(row.amount, growth, now - row.utime)
  /\ ~feature.open => Current(now) = row.amount

LEMMA ShownIs == IInv => ShownSound
<1> SUFFICES ASSUME IInv PROVE ShownSound
  OBVIOUS
<1>1. TypeOK /\ Timed /\ now \in Nat /\ row.utime <= now /\ MinInt \in Int
  BY Typed, Bounds DEF IInv, Timed
<1>2. Current(now) \in Int /\ Current(now) <= Max
  BY <1>1, CurrentTyped, Bounds DEF Amount
<1> QED BY <1>1, <1>2, CurrentIs DEF ShownSound

LEMMA WriteShown ==
  ASSUME IInv, IInv', NEW x \in Tx, NEW amount \in Amount, NEW why, NEW g \in Growths,
         Write(x, why, amount, g)
  PROVE  /\ now' = now /\ feature' = feature
         /\ tx[x].start < row.utime => Shown!Overtaken
         /\ tx[x].start >= row.utime =>
              /\ cause' = why
              /\ feature.open => Current(now)' = Grown(amount, g, now - tx[x].start)
              /\ ~feature.open => Current(now)' = amount
<1>1. /\ now' = now /\ feature' = feature /\ growth' = g
      /\ row'.amount = amount /\ row'.utime = tx[x].start
      /\ cause' = IF tx[x].start < row.utime THEN "overtaken" ELSE why
  BY DEF Write, End
<1>2. ShownSound'
  BY ShownIs, PTL
<1>3. tx[x].start \in Nat /\ row.utime \in Nat
  BY Typed DEF IInv
<1> QED BY <1>1, <1>2, <1>3 DEF ShownSound, Shown!Overtaken

(* A payment out of an open currency that nobody overtook.                 *)
LEMMA PayShown ==
  ASSUME IInv, IInv', NEW x \in Tx, NEW c \in Int, NEW p \in Nat, c - p \in Amount, NEW why,
         Write(x, why, c - p, growth), tx[x].start >= row.utime, feature.open,
         c = Settled(tx[x].start)
  PROVE  /\ Current(now) >= c /\ Current(now)' >= c - p
         /\ Current(now)' >= Current(now) - p - MaxGrowth
         /\ Current(now)' <= Shown!Less(p)
<1>1. PICK a \in Int, g \in Nat, d \in Nat, e \in Nat :
        /\ a = row.amount /\ g = growth /\ d = tx[x].start - row.utime /\ e = now - tx[x].start
        /\ a <= Max /\ now - row.utime = d + e /\ g <= MaxGrowth /\ g \in Growths
  <2>1. /\ tx[x].start \in Nat /\ now \in Nat /\ row.utime \in Nat /\ tx[x].start <= now
        /\ row.amount \in Int /\ growth \in Nat /\ growth \in Growths /\ row.amount <= Max
    BY Typed DEF IInv, Timed, TypeOK
  <2>2. /\ tx[x].start - row.utime \in Nat /\ now - tx[x].start \in Nat
        /\ now - row.utime = (tx[x].start - row.utime) + (now - tx[x].start)
    BY <2>1
  <2> QED BY <2>1, <2>2, Largest
<1>2. c = Grown(a, g, d)
  BY <1>1, SettledIs
<1>3. Current(now) = Grown(a, g, d + e)
  BY <1>1, ShownIs DEF ShownSound
<1>4. Current(now)' = Grown(c - p, g, e)
  BY <1>1, WriteShown
<1>5. d \in Int /\ e \in Int /\ d + e \in Int /\ d <= d + e /\ e >= 0
  OBVIOUS
<1>6. c <= Max /\ c - p <= Max /\ c - p \in Int
  <2>1. Grown(a, g, d) <= Max
    BY <1>5, GrownTyped
  <2> QED BY <1>2, <2>1, Bounds
<1>7. Current(now) >= c
  BY <1>1, <1>2, <1>3, <1>5, GrownMonotone
<1>8. Current(now)' >= c - p
  <2>1. PICK n \in Int : n = c - p /\ n <= Max
    BY <1>6
  <2>2. n <= Grown(n, g, e)
    BY <1>5, <2>1, GrownTyped
  <2> QED BY <1>4, <2>1, <2>2
<1>9. PICK before, after :
        before = Grown(a, g, d + e) /\ after = Grown(Grown(a, g, d) - p, g, e)
  OBVIOUS
<1>10. before \in Int /\ after \in Int
  BY <1>1, <1>2, <1>5, <1>6, <1>9, GrownTyped
<1>11. before - p - g <= after /\ after <= IF before = Max THEN Max ELSE before - p
  BY <1>9, GrownLess
<1>12. Current(now) = before /\ Current(now)' = after
  BY <1>2, <1>3, <1>4, <1>9
<1>13. after >= before - p - MaxGrowth
  BY <1>1, <1>10, <1>11, Largest
<1> QED BY <1>7, <1>8, <1>11, <1>12, <1>13 DEF Shown!Less

LEMMA CostMaps ==
  ASSUME IInv, IInv', NEW x \in Tx, Cost(x), ~Refuse(x)
  PROVE  Shown!Overtaken \/ Shown!Spend
<1>0. PICK p \in Price : \E n \in CostChange(tx[x].current, p) : Write(x, "spend", n, growth)
  BY DEF Cost
<1>1. PICK n \in CostChange(tx[x].current, p) : Write(x, "spend", n, growth)
  BY <1>0
<1>2. /\ tx[x].pc = "holds" /\ tx[x].op = "cost" /\ growth \in Growths
      /\ tx[x].current = Current(tx[x].start)
      /\ TypeOK /\ Timed /\ tx[x].start \in Nat
  BY Typed DEF Cost, Holds, IInv, Holding, TypeOK
<1>3. PICK c \in Int : c = tx[x].current /\ c <= Max
  BY <1>2, ReadMax
<1>4. /\ p \in Nat /\ p > 0 /\ n = c - p /\ n \in Amount /\ n >= 0
  BY <1>1, <1>3, Bounds DEF CostChange, Fits, Amount
<1>5. CASE tx[x].start < row.utime
  BY <1>1, <1>2, <1>4, <1>5, WriteShown
<1>6. CASE tx[x].start >= row.utime
  <2>1. /\ cause' = "spend" /\ feature' = feature
        /\ ~feature.open => Current(now)' = n
    BY <1>1, <1>2, <1>4, <1>6, WriteShown
  <2>2. /\ Current(now) >= p /\ Current(now)' >= 0
        /\ Current(now)' >= Current(now) - p - MaxGrowth /\ Current(now)' <= Shown!Less(p)
        /\ Current(now) \in Int /\ Current(now)' \in Int
    <3>1. ShownSound /\ ShownSound'
      BY ShownIs, PTL
    <3>2. CASE feature.open
      <4>1. Current(tx[x].start) = Settled(tx[x].start)
        <5>1. row.utime <= tx[x].start
          BY <1>2, <1>6, Typed
        <5> QED BY <1>2, <3>2, <5>1, CurrentIs, SettledIs
      <4>2. /\ Current(now) >= c /\ Current(now)' >= c - p
            /\ Current(now)' >= Current(now) - p - MaxGrowth
            /\ Current(now)' <= Shown!Less(p)
        BY <1>1, <1>2, <1>3, <1>4, <1>6, <3>2, <4>1, PayShown
      <4> QED BY <1>3, <1>4, <3>1, <4>2 DEF ShownSound
    <3>3. CASE ~feature.open
      <4>1. c = Current(now)
        BY <1>2, <1>3, <3>1, <3>3 DEF Current, ShownSound
      <4> QED BY <1>3, <1>4, <2>1, <3>1, <3>3, <4>1, Largest DEF ShownSound, Shown!Less
    <3> QED BY <3>2, <3>3
  <2> QED BY <1>4, <2>1, <2>2, Largest, Bounds DEF Shown!Spend, Shown!Less
<1> QED BY <1>2, <1>5, <1>6, Typed

(* A purchase and a penalty read the row whether the currency is open or   *)
(* not.                                                                    *)
LEMMA SettledMaps ==
  ASSUME IInv, IInv', NEW x \in Tx, NEW p \in Price, NEW why,
         tx[x].pc = "holds", tx[x].op \in {"penalty", "purchase"}, tx[x].current - p \in Amount,
         Write(x, why, tx[x].current - p, growth), tx[x].start >= row.utime
  PROVE  /\ cause' = why /\ feature' = feature /\ p \in Nat
         /\ Current(now) \in Int /\ Current(now)' \in Int
         /\ Current(now)' >= Current(now) - p - MaxGrowth
         /\ tx[x].current \in Int /\ Current(now)' >= tx[x].current - p
         /\ feature.open => Current(now) >= tx[x].current /\ Current(now)' <= Shown!Less(p)
         /\ ~feature.open => Current(now)' >= Current(now) - p
<1>1. /\ TypeOK /\ Timed /\ growth \in Growths /\ p \in Nat /\ p > 0
      /\ tx[x].current = Settled(tx[x].start)
  BY Bounds DEF IInv, Holding, TypeOK
<1>2. PICK c \in Int : c = tx[x].current /\ c <= Max
  BY <1>1, ReadMax
<1>3. ShownSound /\ ShownSound'
  BY ShownIs, PTL
<1>4. /\ cause' = why /\ feature' = feature
      /\ ~feature.open => Current(now)' = c - p
  BY <1>1, <1>2, WriteShown
<1>5. CASE feature.open
  <2>1. /\ Current(now) >= c /\ Current(now)' >= c - p
        /\ Current(now)' >= Current(now) - p - MaxGrowth
        /\ Current(now)' <= Shown!Less(p)
    BY <1>1, <1>2, <1>5, PayShown
  <2> QED BY <1>1, <1>2, <1>3, <1>4, <1>5, <2>1 DEF ShownSound
<1>6. CASE ~feature.open
  <2>1. PICK a \in Int, g \in Nat, d \in Int :
          a = row.amount /\ g = growth /\ d = tx[x].start - row.utime /\ a <= Max /\ d >= 0
    BY <1>1, Typed DEF Timed
  <2>2. c = Grown(a, g, d) /\ a <= Grown(a, g, d)
    BY <1>1, <1>2, <2>1, SettledIs, GrownTyped
  <2>3. Current(now) = a
    BY <1>3, <1>6, <2>1 DEF ShownSound
  <2> QED BY <1>1, <1>2, <1>3, <1>4, <1>6, <2>1, <2>2, <2>3, Largest DEF ShownSound
<1> QED BY <1>5, <1>6

LEMMA PurchaseMaps ==
  ASSUME IInv, IInv', NEW x \in Tx, Purchase(x), ~Refuse(x)
  PROVE  Shown!Overtaken \/ Shown!Spend \/ Shown!SpendClosed
<1>1. PICK p \in Price :
        /\ tx[x].current >= p
        /\ Write(x, IF feature.open THEN "spend" ELSE "purchase", tx[x].current - p, growth)
  BY DEF Purchase
<1>2. PICK why : why = IF feature.open THEN "spend" ELSE "purchase"
  OBVIOUS
<1>3. /\ tx[x].pc = "holds" /\ tx[x].op = "purchase" /\ growth \in Growths
      /\ Write(x, why, tx[x].current - p, growth) /\ tx[x].start \in Nat /\ row.utime \in Nat
  BY <1>1, <1>2, Typed DEF Purchase, Holds, IInv, TypeOK
<1>4. /\ tx[x].current \in Int /\ tx[x].current <= Max /\ p \in Nat
      /\ tx[x].current - p \in Amount /\ tx[x].current - p >= 0
  BY <1>1, <1>3, ReadMax, Bounds DEF Amount
<1>5. CASE tx[x].start < row.utime
  BY <1>3, <1>4, <1>5, WriteShown
<1>6. CASE tx[x].start >= row.utime
  <2>1. /\ cause' = why /\ feature' = feature
        /\ Current(now) \in Int /\ Current(now)' \in Int
        /\ Current(now)' >= Current(now) - p - MaxGrowth
        /\ Current(now)' >= tx[x].current - p
        /\ feature.open => Current(now) >= tx[x].current /\ Current(now)' <= Shown!Less(p)
        /\ ~feature.open => Current(now)' >= Current(now) - p
    BY <1>3, <1>4, <1>6, SettledMaps
  <2>2. CASE feature.open
    BY <1>1, <1>2, <1>4, <2>1, <2>2, Largest, Bounds DEF Shown!Spend, Shown!Less
  <2>3. CASE ~feature.open
    BY <1>1, <1>2, <1>4, <2>1, <2>3 DEF Shown!SpendClosed
  <2> QED BY <2>2, <2>3
<1> QED BY <1>3, <1>5, <1>6

LEMMA PenaltyMaps ==
  ASSUME IInv, IInv', NEW x \in Tx, Penalty(x), ~Refuse(x)
  PROVE  Shown!Overtaken \/ Shown!Pay
<1>1. PICK p \in Price :
        Fits(tx[x].current - p) /\ Write(x, "penalty", tx[x].current - p, growth)
  BY DEF Penalty
<1>2. /\ tx[x].pc = "holds" /\ tx[x].op = "penalty" /\ growth \in Growths
      /\ tx[x].start \in Nat /\ row.utime \in Nat /\ tx[x].current - p \in Amount
  BY <1>1, Typed DEF Penalty, Holds, IInv, TypeOK, Fits, Amount
<1>3. CASE tx[x].start < row.utime
  BY <1>1, <1>2, <1>3, WriteShown
<1>4. CASE tx[x].start >= row.utime
  BY <1>1, <1>2, <1>4, SettledMaps DEF Shown!Pay
<1> QED BY <1>2, <1>3, <1>4

LEMMA AddMaps ==
  ASSUME IInv, IInv', NEW x \in Tx, Add(x)
  PROVE  Shown!Overtaken \/ Shown!Receive
<1>1. PICK p \in Gift : Write(x, "reward", Added(tx[x].current, p), growth)
  BY DEF Add
<1>2. /\ tx[x].pc = "holds" /\ tx[x].op = "add" /\ growth \in Growths
      /\ tx[x].current = Current(tx[x].start) /\ TypeOK /\ Timed
      /\ tx[x].start \in Nat /\ row.utime \in Nat /\ p \in Nat /\ p > 0
  BY Typed, Bounds DEF Add, Holds, IInv, Holding, TypeOK
<1>3. PICK c \in Int : c = tx[x].current /\ c <= Max /\ c >= MinInt
  BY <1>2, ReadMax, Bounds DEF Amount
<1>4. PICK n \in Int : n = Least(c + p, Max)
  BY <1>2, Bounds DEF Least
<1>5. Added(c, p) = n /\ n <= Max /\ c <= n
  BY <1>2, <1>3, <1>4, Bounds DEF Added, Greatest, Least
<1>6. n \in Amount /\ Write(x, "reward", n, growth)
  BY <1>1, <1>3, <1>5, Bounds DEF Amount
<1>7. CASE tx[x].start < row.utime
  BY <1>2, <1>6, <1>7, WriteShown
<1>8. CASE tx[x].start >= row.utime
  <2>1. /\ cause' = "reward" /\ feature' = feature /\ now' = now
        /\ feature.open => Current(now)' = Grown(n, growth, now - tx[x].start)
        /\ ~feature.open => Current(now)' = n
    BY <1>2, <1>6, <1>8, WriteShown
  <2>2. ShownSound /\ ShownSound'
    BY ShownIs, PTL
  <2>3. Current(now) - MaxGrowth <= Current(now)' /\ Current(now)' <= Current(now) + p
    <3>1. CASE feature.open
      <4>1. Current(tx[x].start) = Grown(row.amount, growth, tx[x].start - row.utime)
        BY <1>2, <1>8, <3>1, CurrentIs
      <4>2. /\ tx[x].start - row.utime \in Nat /\ now - tx[x].start \in Nat
            /\ now - row.utime = (tx[x].start - row.utime) + (now - tx[x].start)
        BY <1>2, <1>8, Typed DEF Timed
      <4>3. PICK a \in Int, g \in Nat, d \in Nat, e \in Nat :
              /\ a = row.amount /\ g = growth /\ d = tx[x].start - row.utime
              /\ e = now - tx[x].start /\ now - row.utime = d + e /\ g <= MaxGrowth
        BY <1>2, <4>2, Typed, Largest
      <4>4. PICK before, after :
              /\ before = Grown(a, g, d + e)
              /\ after = Grown(Least(Grown(a, g, d) + p, Max), g, e)
        OBVIOUS
      <4>5. before - g <= after /\ after <= before + p
        BY <1>2, <4>4, GrownMore
      <4>6. Current(now) = before /\ Current(now)' = after
        BY <1>2, <1>3, <1>4, <2>1, <2>2, <3>1, <4>1, <4>3, <4>4 DEF ShownSound
      <4>7. before \in Int /\ after \in Int
        BY <2>2, <4>6 DEF ShownSound
      <4> QED BY <1>2, <4>3, <4>5, <4>6, <4>7, Largest
    <3>2. CASE ~feature.open
      <4>1. c = Current(now)
        BY <1>2, <1>3, <2>2, <3>2 DEF Current, ShownSound
      <4> QED BY <1>2, <1>3, <1>4, <1>5, <2>1, <3>2, <4>1, Largest, Bounds DEF Least
    <3> QED BY <3>1, <3>2
  <2> QED BY <1>2, <2>1, <2>2, <2>3, Largest DEF Shown!Receive, ShownSound
<1> QED BY <1>2, <1>7, <1>8

LEMMA StaffMaps ==
  ASSUME IInv, IInv', NEW x \in Tx, Update(x) \/ (Adjust(x) /\ ~Refuse(x))
  PROVE  Shown!Overtaken \/ Shown!Set
<1>1. /\ tx[x].pc = "holds" /\ tx[x].op \in {"set", "adjust"} /\ growth \in Growths
      /\ tx[x].start \in Nat /\ row.utime \in Nat
  BY Typed DEF Update, Adjust, Holds, IInv, TypeOK
<1>2. PICK c \in Int : c = tx[x].current /\ c >= MinInt
  BY <1>1, ReadMax, Bounds DEF Amount
<1>3. PICK n \in Amount, g \in Growths : Write(x, "staff", n, g)
  <2>1. CASE Update(x)
    <3>1. PICK a \in Price \cup Gift \cup {c}, g \in Growths : Write(x, "staff", Least(a, Max), g)
      BY <1>1, <1>2, <2>1 DEF Update
    <3>2. a \in Int /\ a >= MinInt
      BY <1>2, Bounds
    <3>3. Least(a, Max) \in Amount
      BY <3>2, Bounds DEF Least, Amount
    <3> QED BY <3>1, <3>3
  <2>2. CASE Adjust(x) /\ ~Refuse(x)
    <3>0. PICK d \in Gift \cup {-p : p \in Price} :
            \E n \in StrictNext(c, d) : Write(x, "staff", n, growth)
      BY <1>2, <2>2 DEF Adjust
    <3>1. PICK n \in StrictNext(c, d) : Write(x, "staff", n, growth)
      BY <3>0
    <3>2. n \in Amount
      BY <3>1 DEF StrictNext, Fits, Amount
    <3> QED BY <1>1, <3>1, <3>2
  <2> QED BY <2>1, <2>2
<1>4. CASE tx[x].start < row.utime
  BY <1>3, <1>4, WriteShown
<1>5. CASE tx[x].start >= row.utime
  <2>1. cause' = "staff" /\ feature' = feature
    BY <1>3, <1>5, WriteShown
  <2> QED BY <2>1 DEF Shown!Set
<1> QED BY <1>1, <1>4, <1>5

LEMMA ToggleMaps ==
  ASSUME IInv, IInv', NEW x \in Tx, Toggle(x)
  PROVE  Shown!Open \/ Shown!Close
<1>1. /\ TypeOK /\ Timed /\ Counted /\ now' = now /\ growth' = growth /\ cause' = "feature"
      /\ now \in Nat /\ row.utime \in Nat /\ row.utime <= now
  BY Typed DEF IInv, Timed, Toggle, End
<1>2. PICK at \in Nat :
        /\ at <= now /\ feature' = [open |-> ~feature.open, since |-> at]
        /\ IF feature.open THEN SettleAt(at) ELSE Enable(at)
  BY <1>1, Typed DEF Toggle
<1>3. ShownSound /\ ShownSound'
  BY ShownIs, PTL
<1>4. PICK a \in Int, g \in Nat : a = row.amount /\ g = growth /\ a <= Max
  BY <1>1, Typed DEF Timed
<1>5. CASE feature.open
  <2>1. feature'.open = FALSE
    BY <1>2, <1>5
  <2>2. row'.amount = Grown(a, g, Greatest(0, at - row.utime))
    BY <1>1, <1>2, <1>4, <1>5, Settles
  <2>3. PICK d \in Int, e \in Int :
          d = Greatest(0, at - row.utime) /\ e = now - row.utime /\ d <= e
    <3>1. Greatest(0, at - row.utime) \in Int /\ Greatest(0, at - row.utime) <= now - row.utime
      BY <1>1, <1>2 DEF Greatest
    <3> QED BY <1>1, <3>1
  <2>4. Grown(a, g, d) <= Grown(a, g, e)
    BY <2>3, GrownMonotone
  <2>5. Current(now)' = Grown(a, g, d) /\ Current(now) = Grown(a, g, e)
    BY <1>3, <1>4, <1>5, <2>1, <2>2, <2>3 DEF ShownSound
  <2> QED BY <1>1, <2>1, <2>4, <2>5 DEF Shown!Close
<1>6. CASE ~feature.open
  <2>1. feature'.open = TRUE
    BY <1>2, <1>6
  <2>2. row'.amount = a /\ row'.utime = Greatest(row.utime, at)
    BY <1>1, <1>2, <1>4, <1>6, Typed DEF Enable
  <2>3. PICK d \in Int : d = now - row'.utime /\ d >= 0
    BY <1>1, <1>2, <2>2 DEF Greatest
  <2>4. a <= Grown(a, g, d)
    BY <1>4, <2>3, GrownTyped
  <2>5. Current(now)' = Grown(a, g, d) /\ Current(now) = a
    BY <1>1, <1>3, <1>4, <1>6, <2>1, <2>2, <2>3 DEF ShownSound
  <2> QED BY <1>1, <2>1, <2>4, <2>5 DEF Shown!Open
<1> QED BY <1>5, <1>6

LEMMA TickMaps ==
  ASSUME IInv, IInv', Tick
  PROVE  Shown!Grow \/ UNCHANGED Shown!vars
<1>1. /\ now' = now + 1 /\ row' = row /\ growth' = growth /\ feature' = feature /\ cause' = cause
      /\ TypeOK
  BY DEF Tick, data, IInv
<1>2. ShownSound /\ ShownSound'
  BY ShownIs, PTL
<1>3. CASE feature.open
  <2>1. PICK a \in Int, g \in Nat, n \in Int, u \in Int :
          a = row.amount /\ g = growth /\ n = now /\ u = row.utime
    BY <1>1, Typed
  <2>2. Grown(a, g, n - u) <= Grown(a, g, n + 1 - u)
    BY GrownMonotone
  <2>3. Current(now) = Grown(a, g, n - u)
    BY <1>2, <1>3, <2>1 DEF ShownSound
  <2>4. Current(now)' = Grown(a, g, n + 1 - u)
    <3>1. /\ feature'.open /\ row'.amount = a /\ growth' = g
          /\ now' = n + 1 /\ row'.utime = u
      BY <1>1, <1>3, <2>1
    <3> QED BY <1>2, <3>1 DEF ShownSound
  <2> QED BY <1>1, <1>3, <2>2, <2>3, <2>4 DEF Shown!Grow
<1>4. CASE ~feature.open
  <2>1. Current(now)' = Current(now)
    BY <1>1, <1>2, <1>4 DEF ShownSound
  <2> QED BY <1>1, <2>1 DEF Shown!vars
<1> QED BY <1>3, <1>4

LEMMA GrowthMaps == ASSUME NEW x \in Tx, ChangeGrowth(x) PROVE Shown!Set
BY DEF ChangeGrowth, Shown!Set

LEMMA NextMaps ==
  ASSUME IInv, IInv', [Next]_vars
  PROVE  [Shown!Next]_Shown!vars
<1>1. CASE UNCHANGED <<now, data, past>>
  BY <1>1, Hidden
<1>2. CASE Tick
  BY <1>2, TickMaps DEF Shown!Next
<1>3. CASE UNCHANGED vars
  BY <1>1, <1>3 DEF vars
<1>4. ASSUME NEW x \in Tx, (\E op \in Op : Begin(x, op)) \/ Refuse(x) PROVE [Shown!Next]_Shown!vars
  BY <1>1, <1>4 DEF Begin, Refuse, End
<1>5. ASSUME NEW x \in Tx, LockRuntime(x) \/ LockPurchase(x) \/ LockFeature(x)
      PROVE  [Shown!Next]_Shown!vars
  BY <1>1, <1>4, <1>5 DEF LockRuntime, LockPurchase, LockFeature
<1>6. ASSUME NEW x \in Tx, ~Refuse(x),
             Cost(x) \/ Add(x) \/ Update(x) \/ Adjust(x) \/ Purchase(x) \/ Penalty(x)
      PROVE  [Shown!Next]_Shown!vars
  BY <1>6, CostMaps, AddMaps, StaffMaps, PurchaseMaps, PenaltyMaps DEF Shown!Next
<1>7. ASSUME NEW x \in Tx, Toggle(x) \/ ChangeGrowth(x) PROVE [Shown!Next]_Shown!vars
  BY <1>7, ToggleMaps, GrowthMaps DEF Shown!Next
<1> QED BY <1>2, <1>3, <1>4, <1>5, <1>6, <1>7 DEF Next

(* The row that is settled when somebody touches it implements the wallet: *)
(* nobody spends more than is shown, no debt comes from spending, a closed *)
(* currency does not grow, and settling costs a minute that has begun.     *)
THEOREM ImplementsWallet == Spec => ShownWallet
<1>1. Init => Shown!Init
  BY InitMaps
<1>2. IInv /\ IInv' /\ [Next]_vars => [Shown!Next]_Shown!vars
  BY NextMaps
<1> QED BY <1>1, <1>2, Invariance, PTL DEF Spec, ShownWallet, Shown!Spec
=============================================================================
