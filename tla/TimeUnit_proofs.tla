--------------------------- MODULE TimeUnit_proofs ---------------------------
(***************************************************************************)
(* What is proved of the time unit.                                        *)
(*                                                                         *)
(* A word that fits into a register is the word of its bytes (WordOfBytes);*)
(* the bytes read so far are those of the sample the reading began with;   *)
(* and the time that msleep has slept never falls more than a millisecond  *)
(* behind what the register of milliseconds has advanced (ClockBehind).    *)
(***************************************************************************)
EXTENDS TimeUnit, Induction

-----------------------------------------------------------------------------
(***************************************************************************)
(* Division.                                                               *)
(***************************************************************************)
LEMMA DivMod ==
  ASSUME NEW a \in Nat, NEW b \in Nat \ {0}
  PROVE  /\ a \div b \in Nat /\ a % b \in 0 .. b - 1
         /\ a = (a \div b) * b + (a % b)
OBVIOUS

LEMMA DivUnique ==
  ASSUME NEW b \in Nat \ {0}, NEW q \in Nat, NEW r \in 0 .. b - 1
  PROVE  (q * b + r) \div b = q /\ (q * b + r) % b = r
OBVIOUS

LEMMA MultipleLess ==
  ASSUME NEW b \in Nat \ {0}, NEW q \in Int, NEW p \in Int, q < p
  PROVE  q * b + b <= p * b
OBVIOUS

LEMMA DivMonotone ==
  ASSUME NEW b \in Nat \ {0}, NEW x \in Nat, NEW y \in Nat, x <= y
  PROVE  x \div b <= y \div b
BY DivMod, MultipleLess

LEMMA DivBelow ==
  ASSUME NEW b \in Nat \ {0}, NEW x \in Nat, NEW k \in Nat, x < k * b
  PROVE  x \div b < k
BY DivMod, MultipleLess

LEMMA ModStep ==
  ASSUME NEW b \in Nat \ {0}, NEW a \in Nat
  PROVE  (a + 1) % b \in {0, (a % b) + 1}
<1> DEFINE q == a \div b
           r == a % b
<1>1. r \in 0 .. b - 1 /\ q \in Nat /\ a = q * b + r
  BY DivMod
<1> HIDE DEF q, r
<1>2. CASE r = b - 1
  <2>1. a + 1 = (q + 1) * b + 0 /\ q + 1 \in Nat /\ 0 \in 0 .. b - 1
    BY <1>1, <1>2
  <2>2. ((q + 1) * b + 0) % b = 0
    BY <2>1, DivUnique
  <2>3. (a + 1) % b = 0
    BY <2>1, <2>2, Zenon
  <2> QED BY <2>3
<1>3. CASE r # b - 1
  <2>1. a + 1 = q * b + (r + 1)
    BY <1>1
  <2>2. r + 1 \in 0 .. b - 1
    BY <1>1, <1>3
  <2>3. (q * b + (r + 1)) % b = r + 1
    BY <1>1, <2>2, DivUnique
  <2>4. (a + 1) % b = r + 1
    BY <2>1, <2>3, Zenon
  <2> QED BY <2>4 DEF r
<1> QED BY <1>1, <1>2, <1>3

-----------------------------------------------------------------------------
(***************************************************************************)
(* Words and their bytes.                                                  *)
(***************************************************************************)
LEMMA ShiftedValues ==
  ASSUME NEW w \in Nat
  PROVE  /\ Shifted(w)[0] = w
         /\ \A n \in 1 .. WordBytes : Shifted(w)[n] = Shifted(w)[n - 1] \div Base
         /\ \A n \in 0 .. WordBytes : Shifted(w)[n] \in Nat
<1> DEFINE Value(f, n) == IF n = 0 THEN w ELSE f[n - 1] \div Base
           step == [n \in 1 .. WordBytes |-> [v \in Nat |-> v \div Base]]
<1>0. WordBytes \in Nat /\ Base \in Nat \ {0}
  BY UnitsAssumption
<1>1. step \in [1 .. WordBytes -> [Nat -> Nat]]
  BY <1>0, DivMod
<1>2. PICK f \in [0 .. WordBytes -> Nat] : IsRecursion(f, WordBytes, w, step)
  <2> HIDE DEF step
  <2> QED BY <1>0, <1>1, PrimitiveRecursion
<1>3. f = [n \in 0 .. WordBytes |-> Value(f, n)]
  <2>1. ASSUME NEW n \in 0 .. WordBytes
        PROVE  (IF n = 0 THEN w ELSE step[n][f[n - 1]]) = Value(f, n)
    <3>1. n # 0 => n \in 1 .. WordBytes /\ f[n - 1] \in Nat
      BY <1>0
    <3> QED BY <3>1
  <2> HIDE DEF step, Value
  <2> QED BY <1>2, <2>1 DEF IsRecursion
<1>4. Shifted(w) = [n \in 0 .. WordBytes |-> Value(Shifted(w), n)]
  BY <1>3, Zenon DEF Shifted
<1>5. /\ Shifted(w)[0] = w
      /\ \A n \in 1 .. WordBytes : Shifted(w)[n] = Shifted(w)[n - 1] \div Base
  <2>1. \A n \in 0 .. WordBytes : Shifted(w)[n] = Value(Shifted(w), n)
    <3> HIDE DEF Value
    <3> QED BY <1>4
  <2> QED BY <1>0, <2>1
<1> DEFINE S == {n \in Nat : n <= WordBytes => Shifted(w)[n] \in Nat}
<1>6. 0 \in S
  BY <1>5
<1>7. ASSUME NEW n \in Nat, n \in S
      PROVE  n + 1 \in S
  <2>1. CASE n + 1 <= WordBytes
    <3>1. Shifted(w)[n] \in Nat /\ Shifted(w)[n + 1] = Shifted(w)[n] \div Base
      <4>1. n + 1 \in 1 .. WordBytes /\ n + 1 - 1 = n /\ n <= WordBytes
        BY <1>0, <2>1
      <4> QED BY <1>5, <1>7, <4>1
    <3>2. Shifted(w)[n] \div Base \in Nat
      BY <1>0, <3>1, DivMod
    <3> QED BY <3>1, <3>2
  <2>2. CASE ~ n + 1 <= WordBytes
    BY <2>2
  <2> QED BY <2>1, <2>2
<1>8. Nat \subseteq S
  <2> HIDE DEF S
  <2> QED BY <1>6, <1>7, SetInduction
<1> QED BY <1>0, <1>5, <1>8

\* What is no greater than a word that fits, fits.
LEMMA FitsBelow ==
  ASSUME NEW x \in Nat, NEW y \in Nat, x <= y, Fits(y)
  PROVE  Fits(x)
<1> DEFINE S == {n \in Nat : n <= WordBytes => Shifted(x)[n] <= Shifted(y)[n]}
<1>0. WordBytes \in Nat /\ Base \in Nat \ {0}
  BY UnitsAssumption
<1>1. 0 \in S
  BY ShiftedValues
<1>2. ASSUME NEW n \in Nat, n \in S
      PROVE  n + 1 \in S
  <2> SUFFICES ASSUME n + 1 <= WordBytes
               PROVE  Shifted(x)[n + 1] <= Shifted(y)[n + 1]
    OBVIOUS
  <2>1. n + 1 \in 1 .. WordBytes /\ n + 1 - 1 = n /\ n \in 0 .. WordBytes
    BY <1>0
  <2>2. /\ Shifted(x)[n] \in Nat /\ Shifted(y)[n] \in Nat
        /\ Shifted(x)[n] <= Shifted(y)[n]
        /\ Shifted(x)[n + 1] = Shifted(x)[n] \div Base
        /\ Shifted(y)[n + 1] = Shifted(y)[n] \div Base
    BY <1>2, <2>1, ShiftedValues
  <2> QED BY <1>0, <2>2, DivMonotone
<1>3. Nat \subseteq S
  <2> HIDE DEF S
  <2> QED BY <1>1, <1>2, SetInduction
<1>4. Shifted(x)[WordBytes] <= 0 /\ Shifted(x)[WordBytes] \in Nat
  BY <1>0, <1>3, ShiftedValues DEF Fits
<1> QED BY <1>4 DEF Fits

\* The bytes of a word, highest first.
BytesOf(w, bytes) ==
    /\ Len(bytes) = WordBytes
    /\ \A i \in 1 .. WordBytes : bytes[i] = Byte(w, WordBytes - i)

LEMMA WordOfBytes ==
  ASSUME NEW w \in Nat, Fits(w), NEW bytes, BytesOf(w, bytes)
  PROVE  WordOf(bytes) = w
<1> DEFINE Value(f, n) == IF n = 0 THEN 0 ELSE f[n - 1] * Base + bytes[n]
           s == Shifted(w)
           v == [n \in 0 .. WordBytes |-> s[WordBytes - n]]
<1>0. WordBytes \in Nat \ {0} /\ Base \in Nat \ {0} /\ Len(bytes) = WordBytes
  BY UnitsAssumption DEF BytesOf
<1>1. ASSUME NEW n \in 1 .. WordBytes
      PROVE  v[n] = v[n - 1] * Base + bytes[n]
  <2>1. /\ WordBytes - n \in 0 .. WordBytes /\ WordBytes - (n - 1) \in 1 .. WordBytes
        /\ WordBytes - (n - 1) - 1 = WordBytes - n /\ n \in 0 .. WordBytes /\ n - 1 \in 0 .. WordBytes
    BY <1>0
  <2>2. /\ s[WordBytes - n] \in Nat
        /\ s[WordBytes - (n - 1)] = s[WordBytes - n] \div Base
    BY <2>1, ShiftedValues
  <2>3. bytes[n] = s[WordBytes - n] % Base
    BY DEF BytesOf, Byte
  <2>4. v[n] = s[WordBytes - n] /\ v[n - 1] = s[WordBytes - (n - 1)]
    BY <2>1
  <2>5. s[WordBytes - n]
          = (s[WordBytes - n] \div Base) * Base + (s[WordBytes - n] % Base)
    BY <1>0, <2>2, DivMod
  <2> HIDE DEF s, v
  <2> QED BY <2>2, <2>3, <2>4, <2>5
<1>2. v[0] = 0 /\ v[WordBytes] = w
  BY <1>0, ShiftedValues DEF Fits
<1>3. v = [n \in 0 .. Len(bytes) |-> Value(v, n)]
  <2>1. \A n \in 0 .. WordBytes : v[n] = Value(v, n)
    <3> HIDE DEF v
    <3> QED BY <1>0, <1>1, <1>2
  <2>2. v = [n \in 0 .. WordBytes |-> v[n]]
    OBVIOUS
  <2> HIDE DEF v, Value
  <2> QED BY <1>0, <2>1, <2>2
<1> DEFINE f == CHOOSE f : f = [n \in 0 .. Len(bytes) |-> Value(f, n)]
<1>4. f = [n \in 0 .. Len(bytes) |-> Value(f, n)] /\ WordOf(bytes) = f[Len(bytes)]
  BY <1>3, Zenon DEF WordOf
<1> HIDE DEF f, v
<1> DEFINE S == {n \in Nat : n <= WordBytes => f[n] = v[n]}
<1>5. \A n \in 0 .. WordBytes : f[n] = Value(f, n)
  <2> HIDE DEF Value
  <2> QED BY <1>0, <1>4
<1>6. 0 \in S
  BY <1>0, <1>2, <1>5
<1>7. ASSUME NEW n \in Nat, n \in S
      PROVE  n + 1 \in S
  <2> SUFFICES ASSUME n + 1 <= WordBytes PROVE f[n + 1] = v[n + 1]
    OBVIOUS
  <2>1. n + 1 \in 1 .. WordBytes /\ n + 1 \in 0 .. WordBytes /\ n + 1 - 1 = n /\ n + 1 # 0
    BY <1>0
  <2>2. f[n + 1] = f[n] * Base + bytes[n + 1] /\ v[n + 1] = v[n] * Base + bytes[n + 1]
    BY <1>1, <1>5, <2>1
  <2>3. f[n] = v[n]
    BY <1>0, <1>7
  <2> QED BY <2>2, <2>3
<1>8. Nat \subseteq S
  <2> HIDE DEF S
  <2> QED BY <1>6, <1>7, SetInduction
<1>9. f[WordBytes] = v[WordBytes]
  BY <1>0, <1>8
<1> HIDE DEF S
<1> QED BY <1>0, <1>2, <1>4, <1>9
-----------------------------------------------------------------------------
(***************************************************************************)
(* The clock.                                                              *)
(***************************************************************************)
LEMMA UnitTypes ==
  /\ UsPerMs \in Nat \ {0} /\ MsPerSec \in Nat \ {0} /\ SecWrap \in Nat \ {0}
  /\ Horizon \in Nat \ {0} /\ WordBytes \in Nat \ {0} /\ Base \in Nat \ {0}
  /\ UsPerSec \in Nat \ {0} /\ UsPerSec = MsPerSec * UsPerMs
  /\ MsWrap \in Nat \ {0} /\ MsWrap = SecWrap * MsPerSec
  /\ Horizon * UsPerSec \in Nat \ {0}
  /\ Instants = 0 .. Horizon * UsPerSec - 1
  /\ Longest \in Nat /\ Longest \in Durations
  /\ SleptBound \in Nat /\ SleptBound = Longest * UsPerMs
  /\ \A d \in Durations : d \in Nat /\ d <= Longest /\ d < Base * Base
<1>1. /\ UsPerMs \in Nat \ {0} /\ MsPerSec \in Nat \ {0} /\ SecWrap \in Nat \ {0}
      /\ Horizon \in Nat \ {0} /\ WordBytes \in Nat \ {0} /\ Base \in Nat \ {0}
  BY UnitsAssumption
<1>2. \A a, b \in Nat \ {0} : a * b \in Nat \ {0} /\ a * b = b * a
  OBVIOUS
<1>3. UsPerSec \in Nat \ {0} /\ UsPerSec = MsPerSec * UsPerMs
  BY <1>1, <1>2 DEF UsPerSec
<1>4. MsWrap \in Nat \ {0} /\ Horizon * UsPerSec \in Nat \ {0}
  BY <1>1, <1>2, <1>3 DEF MsWrap
<1>5. Longest \in Durations /\ \A e \in Durations : e <= Longest
  BY WidthAssumption, Zenon DEF Longest
<1>6. \A d \in Durations : d \in Nat /\ d < Base * Base
  <2>1. Base * Base \in Int
    BY <1>1
  <2>2. Durations \subseteq 0 .. Base * Base - 1
    BY WidthAssumption
  <2> DEFINE limit == Base * Base
  <2> HIDE DEF limit
  <2>3. limit \in Int /\ Durations \subseteq 0 .. limit - 1
    BY <2>1, <2>2, Zenon DEF limit
  <2>4. \A d \in Durations : d \in Nat /\ d < limit
    BY <2>3
  <2> QED BY <2>4, Zenon DEF limit
<1>7. SleptBound \in Nat
  <2>1. \A a, b \in Nat : a * b \in Nat
    OBVIOUS
  <2> QED BY <1>1, <1>5, <1>6, <2>1 DEF SleptBound
<1> QED BY <1>1, <1>3, <1>4, <1>5, <1>6, <1>7 DEF MsWrap, Instants, SleptBound

LEMMA InstantParts ==
  ASSUME NEW t \in Instants
  PROVE  /\ t \in Nat
         /\ tv_usec(t) \in 0 .. UsPerSec - 1
         /\ tv_sec(t) \in 0 .. Horizon - 1
         /\ t = tv_sec(t) * UsPerSec + tv_usec(t)
         /\ Milliseconds(t) \in 0 .. MsWrap - 1
<1>1. t \in Nat /\ t < Horizon * UsPerSec
  BY UnitTypes
<1>2. /\ tv_usec(t) \in 0 .. UsPerSec - 1 /\ tv_sec(t) \in Nat
      /\ t = tv_sec(t) * UsPerSec + tv_usec(t)
  BY <1>1, UnitTypes, DivMod DEF tv_usec, tv_sec
<1>3. tv_sec(t) < Horizon
  BY <1>1, UnitTypes, DivBelow DEF tv_sec
<1>4. tv_sec(t) % SecWrap \in 0 .. SecWrap - 1
  BY <1>2, UnitTypes, DivMod
<1>5. tv_usec(t) \div UsPerMs \in 0 .. MsPerSec - 1
  <2>1. tv_usec(t) \in Nat /\ tv_usec(t) < MsPerSec * UsPerMs
    BY <1>2, UnitTypes
  <2>2. tv_usec(t) \div UsPerMs \in Nat /\ tv_usec(t) \div UsPerMs < MsPerSec
    BY <2>1, UnitTypes, DivMod, DivBelow
  <2> QED BY <2>2, UnitTypes
<1>6. Milliseconds(t) \in 0 .. MsWrap - 1
  <2> DEFINE s == tv_sec(t) % SecWrap
             m == tv_usec(t) \div UsPerMs
  <2>1. s * MsPerSec \in Nat /\ s * MsPerSec + MsPerSec <= SecWrap * MsPerSec
    <3> HIDE DEF s
    <3>1. \A a, b \in Nat : a * b \in Nat
      OBVIOUS
    <3>2. s \in Nat /\ s < SecWrap
      BY <1>4, UnitTypes DEF s
    <3> QED BY <3>1, <3>2, UnitTypes, MultipleLess
  <2>2. Milliseconds(t) = s * MsPerSec + m
    BY DEF Milliseconds
  <2>3. m \in 0 .. MsPerSec - 1 /\ MsPerSec \in Nat
    BY <1>5, UnitTypes
  <2> DEFINE k == s * MsPerSec
             w == SecWrap * MsPerSec
  <2> HIDE DEF s, m
  <2>4. k \in Nat /\ k + MsPerSec <= w /\ w \in Nat /\ w = MsWrap
        /\ Milliseconds(t) = k + m
    BY <2>1, <2>2, UnitTypes
  <2> HIDE DEF k, w
  <2> QED BY <2>3, <2>4
<1> QED BY <1>1, <1>2, <1>3, <1>6, UnitTypes

\* The microseconds since the milliseconds started over.
Fine(t) == (tv_sec(t) % SecWrap) * UsPerSec + tv_usec(t)

LEMMA FineBounds ==
  ASSUME NEW t \in Instants
  PROVE  /\ Fine(t) \in Nat
         /\ Milliseconds(t) * UsPerMs <= Fine(t)
         /\ Fine(t) <= Milliseconds(t) * UsPerMs + UsPerMs - 1
<1> DEFINE s == tv_sec(t) % SecWrap
           u == tv_usec(t)
           m == u \div UsPerMs
           r == u % UsPerMs
<1>1. u \in Nat /\ tv_sec(t) \in Nat
  BY InstantParts, UnitTypes
<1>2. s \in Nat
  BY <1>1, UnitTypes, DivMod
<1>3. m \in Nat /\ r \in 0 .. UsPerMs - 1 /\ u = m * UsPerMs + r
  <2> HIDE DEF u
  <2> QED BY <1>1, UnitTypes, DivMod
<1>4. Milliseconds(t) = s * MsPerSec + m /\ Fine(t) = s * UsPerSec + u
  BY DEF Milliseconds, Fine
<1> HIDE DEF s, u, m, r
<1>5. s * UsPerSec = (s * MsPerSec) * UsPerMs /\ s * MsPerSec \in Nat
  <2>1. \A a, b, c \in Nat : a * (b * c) = (a * b) * c /\ a * b \in Nat
    OBVIOUS
  <2> QED BY <1>2, <2>1, UnitTypes
<1>6. \A a, b, c \in Nat : (a + b) * c = a * c + b * c /\ a * c \in Nat
  OBVIOUS
<1>7. Milliseconds(t) * UsPerMs = s * UsPerSec + m * UsPerMs /\ s * UsPerSec \in Nat
  BY <1>2, <1>3, <1>4, <1>5, <1>6, UnitTypes
<1>8. m * UsPerMs \in Nat
  BY <1>3, <1>6, UnitTypes
<1> DEFINE x == m * UsPerMs
           y == s * UsPerSec
           z == Milliseconds(t) * UsPerMs
<1>9. /\ x \in Nat /\ y \in Nat /\ UsPerMs \in Nat /\ r \in 0 .. UsPerMs - 1
      /\ Fine(t) = y + u /\ u = x + r /\ z = y + x
  BY <1>3, <1>4, <1>7, <1>8, UnitTypes
<1>10. Fine(t) \in Nat /\ z <= Fine(t) /\ Fine(t) <= z + UsPerMs - 1
  <2> HIDE DEF x, y, z
  <2> QED BY <1>9
<1> QED BY <1>10

\* In a microsecond it advances by one, or starts over.
LEMMA FineStep ==
  ASSUME NEW t \in Instants
  PROVE  /\ (t + 1) % (Horizon * UsPerSec) \in Instants
         /\ Fine((t + 1) % (Horizon * UsPerSec)) <= Fine(t) + 1
<1> DEFINE s == tv_sec(t)
           u == tv_usec(t)
           t1 == (t + 1) % (Horizon * UsPerSec)
<1>1. /\ t \in Nat /\ s \in Nat /\ s < Horizon /\ u \in 0 .. UsPerSec - 1
      /\ t = s * UsPerSec + u
  BY InstantParts, UnitTypes
<1>2. Fine(t) = (s % SecWrap) * UsPerSec + u
  BY DEF Fine
<1> HIDE DEF s, u
<1>3. t1 \in Instants
  BY <1>1, UnitTypes, DivMod
<1>4. s % SecWrap \in Nat
  BY <1>1, UnitTypes, DivMod
<1>5. \A a \in 0 .. Horizon * UsPerSec - 1 : a % (Horizon * UsPerSec) = a
  <2> TAKE a \in 0 .. Horizon * UsPerSec - 1
  <2>1. a = 0 * (Horizon * UsPerSec) + a
    BY UnitTypes
  <2> QED BY <2>1, UnitTypes, DivUnique
<1>6. \A a, b \in Nat : a * b \in Nat /\ (a + 1) * b = a * b + b /\ 0 * b = 0
  OBVIOUS
<1>7. ASSUME u + 1 < UsPerSec
      PROVE  Fine(t1) <= Fine(t) + 1
  <2>1. t + 1 = s * UsPerSec + (u + 1) /\ u + 1 \in 0 .. UsPerSec - 1
    BY <1>1, <1>6, <1>7, UnitTypes
  <2>2. t + 1 \in 0 .. Horizon * UsPerSec - 1
    <3>1. s * UsPerSec + UsPerSec <= Horizon * UsPerSec
      BY <1>1, UnitTypes, MultipleLess
    <3> QED BY <1>1, <1>6, <1>7, <2>1, <3>1, UnitTypes
  <2>3. t1 = t + 1
    BY <1>5, <2>2
  <2>4. tv_sec(t1) = s /\ tv_usec(t1) = u + 1
    <3>1. s \in Nat /\ UsPerSec \in Nat \ {0} /\ u + 1 \in 0 .. UsPerSec - 1
      BY <1>1, <2>1, UnitTypes
    <3>2. /\ (s * UsPerSec + (u + 1)) \div UsPerSec = s
          /\ (s * UsPerSec + (u + 1)) % UsPerSec = u + 1
      BY <3>1, DivUnique, Zenon
    <3> HIDE DEF t1
    <3> QED BY <2>1, <2>3, <3>2, Zenon DEF tv_sec, tv_usec
  <2>5. Fine(t1) = (s % SecWrap) * UsPerSec + (u + 1)
    BY <2>4 DEF Fine
  <2> HIDE DEF t1
  <2> QED BY <1>1, <1>4, <1>2, <1>6, <2>5, UnitTypes
<1>8. ASSUME u + 1 = UsPerSec
      PROVE  Fine(t1) <= Fine(t) + 1
  <2>1. t + 1 = (s + 1) * UsPerSec + 0 /\ s + 1 \in Nat /\ 0 \in 0 .. UsPerSec - 1
    BY <1>1, <1>6, <1>8, UnitTypes
  <2>2. Fine(t) + 1 = ((s % SecWrap) + 1) * UsPerSec
    BY <1>1, <1>4, <1>2, <1>6, <1>8, UnitTypes
  <2>3. CASE s + 1 = Horizon
    <3>1. t + 1 = 1 * (Horizon * UsPerSec) + 0 /\ 0 \in 0 .. Horizon * UsPerSec - 1
      BY <2>1, <2>3, UnitTypes
    <3>2. t1 = 0
      BY <3>1, UnitTypes, DivUnique
    <3>3. 0 = 0 * UsPerSec + 0 /\ 0 = 0 * SecWrap + 0 /\ 0 \in 0 .. SecWrap - 1
      BY UnitTypes
    <3>4. tv_sec(t1) = 0 /\ tv_usec(t1) = 0 /\ 0 % SecWrap = 0
      <4>1. 0 \div UsPerSec = 0 /\ 0 % UsPerSec = 0 /\ 0 % SecWrap = 0
        BY <2>1, <3>3, UnitTypes, DivUnique
      <4> QED BY <3>2, <4>1 DEF tv_sec, tv_usec
    <3>5. Fine(t1) = 0
      BY <3>3, <3>4 DEF Fine
    <3> QED BY <3>5, FineBounds
  <2>4. CASE s + 1 # Horizon
    <3>1. t + 1 \in 0 .. Horizon * UsPerSec - 1
      <4>1. (s + 1) * UsPerSec + UsPerSec <= Horizon * UsPerSec
        BY <1>1, <2>4, UnitTypes, MultipleLess
      <4> QED BY <1>1, <2>1, <4>1, UnitTypes
    <3>2. t1 = t + 1
      BY <1>5, <3>1
    <3>3. tv_sec(t1) = s + 1 /\ tv_usec(t1) = 0
      <4>0. s + 1 \in Nat /\ UsPerSec \in Nat \ {0} /\ 0 \in 0 .. UsPerSec - 1
        BY <2>1, UnitTypes
      <4>1. /\ ((s + 1) * UsPerSec + 0) \div UsPerSec = s + 1
            /\ ((s + 1) * UsPerSec + 0) % UsPerSec = 0
        BY <4>0, DivUnique, Zenon
      <4> HIDE DEF t1
      <4> QED BY <2>1, <3>2, <4>1 DEF tv_sec, tv_usec
    <3>4. Fine(t1) = ((s + 1) % SecWrap) * UsPerSec + 0
      BY <3>3 DEF Fine
    <3>5. (s + 1) % SecWrap \in {0, (s % SecWrap) + 1}
      BY <1>1, UnitTypes, ModStep
    <3> HIDE DEF t1
    <3>6. CASE (s + 1) % SecWrap = 0
      BY <1>4, <1>6, <2>2, <3>4, <3>6, UnitTypes, FineBounds
    <3>7. CASE (s + 1) % SecWrap = (s % SecWrap) + 1
      BY <1>4, <1>6, <2>2, <3>4, <3>7, UnitTypes, FineBounds
    <3> QED BY <3>5, <3>6, <3>7
  <2> QED BY <2>3, <2>4
<1>9. u + 1 < UsPerSec \/ u + 1 = UsPerSec
  BY <1>1, UnitTypes
<1> QED BY <1>3, <1>7, <1>8, <1>9
-----------------------------------------------------------------------------
(***************************************************************************)
(* The invariant.                                                          *)
(***************************************************************************)
\* The n-th byte of a reading of the clock, of which instant t is the sample.
ClockByte(t, n) == IF n <= WordBytes THEN Byte(tv_usec(t), WordBytes - n)
                                     ELSE Byte(tv_sec(t), 2 * WordBytes - n)

MsByte(t, n) == Byte(Milliseconds(t), WordBytes - n)

\* The bytes read so far are those of the sample the reading began with.
ReadSoFar ==
    /\ clockRead \in [bytes : Seq(Int), from : Instants]
    /\ msRead \in [bytes : Seq(Int), from : Instants]
    /\ Len(clockRead.bytes) > 0 => now = clockRead.from
    /\ Len(msRead.bytes) > 0 => time_ms = Milliseconds(msRead.from)
    /\ \A n \in 1 .. Len(clockRead.bytes) : clockRead.bytes[n] = ClockByte(clockRead.from, n)
    /\ \A n \in 1 .. Len(msRead.bytes) : msRead.bytes[n] = MsByte(msRead.from, n)

\* The register has not advanced further than the program has slept.  A reading of
\* the milliseconds between the two bytes moves the sample the deadline counts
\* from, but only to a later one.
ClockBehind ==
    /\ sleep.at = "half" =>
         /\ deadline = Byte(sleep.msecs, 0)
         /\ slept = SleptBound \/ Fine(clock) <= Fine(ms) + slept
    /\ sleep.at = "polling" =>
         \/ slept = SleptBound
         \/ Fine(clock) <= (deadline - sleep.msecs) * UsPerMs + UsPerMs - 1 + slept

TimeInv == TimeTypeOK /\ ReadSoFar /\ ClockBehind

LEMMA Widths == WordBytes \in Nat \ {0} /\ Base \in Nat \ {0}
BY UnitsAssumption

LEMMA ByteType ==
  ASSUME NEW w \in Nat, NEW n \in 0 .. WordBytes
  PROVE  Byte(w, n) \in Nat
BY ShiftedValues, DivMod, Widths DEF Byte

\* The two bytes of the deadline are the milliseconds asked for.
LEMMA TwoBytes ==
  ASSUME NEW d \in Durations \cup {0}
  PROVE  /\ d \in 0 .. Longest
         /\ Byte(d, 0) \in 0 .. Longest
         /\ WithHigh(Byte(d, 0), Byte(d, 1)) = d
<1>1. d \in Nat /\ d <= Longest /\ d < Base * Base
  <2>1. 0 < Base * Base
    BY UnitTypes
  <2> QED BY <2>1, UnitTypes
<1>2. Shifted(d)[0] = d /\ Shifted(d)[1] = d \div Base
  BY <1>1, UnitTypes, ShiftedValues
<1>3. d \div Base \in 0 .. Base - 1
  <2>1. d \div Base \in Nat /\ d \div Base < Base
    BY <1>1, UnitTypes, DivMod, DivBelow
  <2> QED BY <2>1, UnitTypes
<1>4. (d \div Base) % Base = d \div Base
  <2>1. d \div Base = 0 * Base + (d \div Base)
    BY <1>3, UnitTypes
  <2>2. (0 * Base + (d \div Base)) % Base = d \div Base
    BY <1>3, UnitTypes, DivUnique
  <2> QED BY <2>1, <2>2
<1>5. d = (d \div Base) * Base + (d % Base) /\ d % Base \in Nat
  BY <1>1, UnitTypes, DivMod
<1>6. (d \div Base) * Base \in Nat
  <2>1. \A a, b \in Nat : a * b \in Nat
    OBVIOUS
  <2> QED BY <1>3, <2>1, UnitTypes
<1> QED BY <1>1, <1>2, <1>4, <1>5, <1>6, UnitTypes DEF Byte, WithHigh

LEMMA TimeInitInv == TimeInit => TimeInv
<1> SUFFICES ASSUME TimeInit PROVE TimeInv
  OBVIOUS
<1>1. NotReading \in [bytes : Seq(Int), from : Instants] /\ Len(NotReading.bytes) = 0
      /\ NotReading.from \in Instants
  BY UnitTypes DEF NotReading
<1>2. TimeTypeOK
  BY <1>1, UnitTypes DEF TimeInit, TimeTypeOK, Awake
<1>3. ReadSoFar
  BY <1>1 DEF TimeInit, ReadSoFar
<1>4. ClockBehind
  BY DEF TimeInit, ClockBehind, Awake
<1> QED BY <1>2, <1>3, <1>4 DEF TimeInv
\* ReadSoFar after the n-th byte of one of the readings.
LEMMA ReadClockInv ==
  ASSUME TimeInv, ReadClock
  PROVE  TimeInv'
<1> DEFINE b == clockRead.bytes
           n == Len(b) + 1
           b1 == clockRead'.bytes
           from1 == clockRead'.from
<1>1. /\ b \in Seq(Int) /\ clockRead.from \in Instants /\ n \in 1 .. 2 * WordBytes /\ n = Len(b) + 1
      /\ now' = (IF n = 1 THEN clock ELSE now) /\ from1 = IF n = 1 THEN clock ELSE clockRead.from
      /\ b1 = Append(b, ClockByte(now', n))
      /\ clockRead' = [bytes |-> b1, from |-> from1]
      /\ UNCHANGED <<clock, ms, time_ms, deadline, msRead, sleep, slept>>
  BY UnitTypes DEF TimeInv, ReadSoFar, ReadClock, SampledNow, ClockByte
<1>2. clock \in Instants /\ (n # 1 => now = clockRead.from)
  BY <1>1 DEF TimeInv, TimeTypeOK, ReadSoFar
<1> HIDE DEF b, n, b1, from1
<1>3. now' = from1 /\ from1 \in Instants
  BY <1>1, <1>2
<1>4. ClockByte(from1, n) \in Int
  <2>1. tv_usec(from1) \in Nat /\ tv_sec(from1) \in Nat
    BY <1>3, InstantParts, UnitTypes
  <2>2. /\ n <= WordBytes => WordBytes - n \in 0 .. WordBytes
        /\ n > WordBytes => 2 * WordBytes - n \in 0 .. WordBytes
    BY <1>1, Widths
  <2>3. CASE n <= WordBytes
    BY <2>1, <2>2, <2>3, ByteType DEF ClockByte
  <2>4. CASE n > WordBytes
    BY <1>1, Widths, <2>1, <2>2, <2>4, ByteType DEF ClockByte
  <2> QED BY <1>1, Widths, <2>3, <2>4
<1>5. /\ b1 \in Seq(Int) /\ Len(b1) = n /\ b1[n] = ClockByte(from1, n)
      /\ \A i \in 1 .. Len(b) : b1[i] = b[i]
  BY <1>1, <1>3, <1>4
<1>6. \A i \in 1 .. Len(b1) : b1[i] = ClockByte(from1, i)
  <2> TAKE i \in 1 .. Len(b1)
  <2>1. CASE i = n
    BY <1>5, <2>1
  <2>2. CASE i # n
    <3>1. i \in 1 .. Len(b) /\ n # 1
      BY <1>1, <1>5, <2>2
    <3>2. b[i] = ClockByte(clockRead.from, i)
      BY <3>1 DEF TimeInv, ReadSoFar, b, n
    <3> QED BY <1>1, <1>5, <3>1, <3>2
  <2> QED BY <2>1, <2>2
<1>7. ReadSoFar'
  BY <1>1, <1>3, <1>5, <1>6 DEF TimeInv, ReadSoFar, b1, from1, ClockByte, MsByte
<1>8. TimeTypeOK'
  <2>1. Len(clockRead'.bytes) \in 0 .. 2 * WordBytes
    BY <1>1, <1>5, Widths DEF b1
  <2> QED BY <1>1, <1>3, <2>1 DEF TimeInv, TimeTypeOK, from1
<1>9. ClockBehind'
  BY <1>1 DEF TimeInv, ClockBehind
<1> QED BY <1>7, <1>8, <1>9 DEF TimeInv

LEMMA ReadMsInv ==
  ASSUME TimeInv, ReadMs
  PROVE  TimeInv'
<1> DEFINE b == msRead.bytes
           n == Len(b) + 1
           b1 == msRead'.bytes
           from1 == msRead'.from
<1>1. /\ b \in Seq(Int) /\ msRead.from \in Instants /\ n \in 1 .. WordBytes /\ n = Len(b) + 1
      /\ ms' = (IF n = 1 THEN clock ELSE ms)
      /\ time_ms' = (IF n = 1 THEN Milliseconds(clock) ELSE time_ms)
      /\ from1 = (IF n = 1 THEN clock ELSE msRead.from)
      /\ b1 = Append(b, Byte(time_ms', WordBytes - n))
      /\ msRead' = [bytes |-> b1, from |-> from1]
      /\ UNCHANGED <<clock, now, deadline, clockRead, sleep, slept>>
  BY UnitTypes DEF TimeInv, ReadSoFar, ReadMs
<1>2. clock \in Instants /\ ms \in Instants /\ (n # 1 => time_ms = Milliseconds(msRead.from))
  BY <1>1 DEF TimeInv, TimeTypeOK, ReadSoFar
<1> HIDE DEF b, n, b1, from1
<1>3. time_ms' = Milliseconds(from1) /\ from1 \in Instants /\ ms' \in Instants
  BY <1>1, <1>2
<1>4. time_ms' \in 0 .. MsWrap - 1
  BY <1>3, InstantParts
<1>5. MsByte(from1, n) \in Int /\ b1 = Append(b, MsByte(from1, n))
  <2>1. WordBytes - n \in 0 .. WordBytes /\ time_ms' \in Nat
    BY <1>1, <1>4, Widths, UnitTypes
  <2>2. Byte(time_ms', WordBytes - n) \in Int
    BY <2>1, ByteType
  <2> QED BY <1>1, <1>3, <2>2 DEF MsByte
<1>6. /\ b1 \in Seq(Int) /\ Len(b1) = n /\ b1[n] = MsByte(from1, n)
      /\ \A i \in 1 .. Len(b) : b1[i] = b[i]
  BY <1>1, <1>5
<1>7. \A i \in 1 .. Len(b1) : b1[i] = MsByte(from1, i)
  <2> TAKE i \in 1 .. Len(b1)
  <2>1. CASE i = n
    BY <1>6, <2>1
  <2>2. CASE i # n
    <3>1. i \in 1 .. Len(b) /\ n # 1
      BY <1>1, <1>6, <2>2
    <3>2. b[i] = MsByte(msRead.from, i)
      BY <3>1 DEF TimeInv, ReadSoFar, b, n
    <3> QED BY <1>1, <1>6, <3>1, <3>2
  <2> QED BY <2>1, <2>2
<1>8. ReadSoFar'
  BY <1>1, <1>3, <1>6, <1>7 DEF TimeInv, ReadSoFar, b1, from1, ClockByte, MsByte
<1>9. TimeTypeOK'
  BY <1>1, <1>3, <1>4, <1>6, UnitTypes DEF TimeInv, TimeTypeOK, b1, from1
<1>10. ClockBehind'
  <2>1. sleep.at = "half" => slept = SleptBound \/ Fine(clock) <= Fine(ms') + slept
    <3>1. Fine(clock) \in Nat /\ slept \in Nat
      BY <1>2, FineBounds, UnitTypes DEF TimeInv, TimeTypeOK
    <3>2. CASE n = 1
      BY <1>1, <3>1, <3>2
    <3>3. CASE n # 1
      BY <1>1, <3>3 DEF TimeInv, ClockBehind
    <3> QED BY <3>2, <3>3
  <2> QED BY <1>1, <2>1 DEF TimeInv, ClockBehind
<1> QED BY <1>8, <1>9, <1>10 DEF TimeInv

LEMMA TickInv ==
  ASSUME TimeInv, Tick
  PROVE  TimeInv'
<1> DEFINE moving == sleep.at \in {"half", "polling"}
<1>0. SleptBound \in Nat /\ UsPerMs \in Nat /\ MsWrap \in Nat /\ Longest \in Nat
  BY UnitTypes
<1>1. /\ clock' = (clock + 1) % (Horizon * UsPerSec)
      /\ slept' = (IF moving /\ slept < SleptBound THEN slept + 1 ELSE slept)
      /\ UNCHANGED <<now, ms, time_ms, deadline, clockRead, msRead, sleep>>
  BY DEF Tick, unit
<1>t. /\ clock \in Instants /\ ms \in Instants /\ deadline \in Nat
      /\ sleep.msecs \in Durations \cup {0} /\ slept \in 0 .. SleptBound
  BY <1>0 DEF TimeInv, TimeTypeOK
<1>m. sleep.msecs \in Nat
  BY <1>t, <1>0, TwoBytes
<1>2. /\ clock' \in Instants /\ Fine(clock') <= Fine(clock) + 1
      /\ Fine(clock) \in Nat /\ Fine(clock') \in Nat /\ Fine(ms) \in Nat
  BY <1>1, <1>t, FineStep, FineBounds
<1>3. TimeTypeOK'
  BY <1>0, <1>1, <1>t, <1>2 DEF TimeInv, TimeTypeOK
<1>4. ReadSoFar'
  BY <1>1 DEF TimeInv, ReadSoFar, ClockByte, MsByte
<1>5. ASSUME sleep.at = "half"
      PROVE  slept' = SleptBound \/ Fine(clock') <= Fine(ms) + slept'
  BY <1>0, <1>1, <1>t, <1>2, <1>5 DEF TimeInv, ClockBehind
<1>6. ASSUME sleep.at = "polling"
      PROVE  \/ slept' = SleptBound
             \/ Fine(clock') <= (deadline - sleep.msecs) * UsPerMs + UsPerMs - 1 + slept'
  <2>1. (deadline - sleep.msecs) * UsPerMs \in Int
    BY <1>0, <1>t, <1>m
  <2>2. \/ slept = SleptBound
        \/ Fine(clock) <= (deadline - sleep.msecs) * UsPerMs + UsPerMs - 1 + slept
    BY <1>6 DEF TimeInv, ClockBehind
  <2> DEFINE counted == (deadline - sleep.msecs) * UsPerMs
  <2>3. counted \in Int
    BY <2>1
  <2>4. slept = SleptBound \/ Fine(clock) <= counted + UsPerMs - 1 + slept
    BY <2>2
  <2> HIDE DEF counted
  <2>5. slept' = SleptBound \/ Fine(clock') <= counted + UsPerMs - 1 + slept'
    BY <1>0, <1>1, <1>t, <1>2, <1>6, <2>3, <2>4
  <2> QED BY <2>5 DEF counted
<1>7. ClockBehind'
  BY <1>1, <1>5, <1>6 DEF TimeInv, ClockBehind
<1> QED BY <1>3, <1>4, <1>7 DEF TimeInv
LEMMA InitAgainInv ==
  ASSUME TimeInv, InitAgain
  PROVE  TimeInv'
<1>1. /\ clockRead.bytes = <<>> /\ now' = clock /\ ms' = clock /\ clock \in Instants
      /\ UNCHANGED <<clock, time_ms, deadline, clockRead, msRead, sleep, slept>>
  BY DEF InitAgain, NotReading, TimeInv, TimeTypeOK
<1>2. slept \in Nat /\ Fine(clock) \in Nat
  BY <1>1, UnitTypes, FineBounds DEF TimeInv, TimeTypeOK
<1>3. TimeTypeOK' /\ ReadSoFar'
  BY <1>1 DEF TimeInv, TimeTypeOK, ReadSoFar, ClockByte, MsByte
<1>4. ClockBehind'
  BY <1>1, <1>2 DEF TimeInv, ClockBehind
<1> QED BY <1>3, <1>4 DEF TimeInv

LEMMA ReadingDoneInv ==
  ASSUME TimeInv, ReadingDone
  PROVE  TimeInv'
<1>1. /\ NotReading \in [bytes : Seq(Int), from : Instants] /\ Len(NotReading.bytes) = 0
      /\ NotReading.from \in Instants
  BY UnitTypes DEF NotReading
<1>2. /\ UNCHANGED <<clock, now, ms, time_ms, deadline, sleep, slept>>
      /\ \/ clockRead' = NotReading /\ msRead' = msRead
         \/ msRead' = NotReading /\ clockRead' = clockRead
  BY DEF ReadingDone, unit
<1>3. TimeTypeOK'
  BY <1>1, <1>2, Widths DEF TimeInv, TimeTypeOK
<1>4. ReadSoFar'
  <2>1. CASE clockRead' = NotReading /\ msRead' = msRead
    BY <1>1, <1>2, <2>1 DEF TimeInv, ReadSoFar, ClockByte, MsByte
  <2>2. CASE msRead' = NotReading /\ clockRead' = clockRead
    BY <1>1, <1>2, <2>2 DEF TimeInv, ReadSoFar, ClockByte, MsByte
  <2> QED BY <1>2, <2>1, <2>2
<1>5. ClockBehind'
  BY <1>2 DEF TimeInv, ClockBehind
<1> QED BY <1>3, <1>4, <1>5 DEF TimeInv

\* The steps of msleep leave the readings alone.
LEMMA SleepingReads ==
  ASSUME TimeInv, UNCHANGED <<now, time_ms, clockRead, msRead>>
  PROVE  ReadSoFar'
BY DEF TimeInv, ReadSoFar, ClockByte, MsByte

LEMMA DeadlineLowInv ==
  ASSUME TimeInv, DeadlineLow
  PROVE  TimeInv'
<1>1. /\ sleep \in [at : {"awake", "called", "half", "polling"}, msecs : Durations \cup {0}]
      /\ clock \in Instants /\ ms' = clock /\ slept' = 0
      /\ deadline' = Byte(sleep.msecs, 0) /\ sleep' = [sleep EXCEPT !.at = "half"]
      /\ UNCHANGED <<clock, now, time_ms, clockRead, msRead>>
  BY DEF DeadlineLow, WithLow, TimeInv, TimeTypeOK
<1>2. /\ sleep' \in [at : {"awake", "called", "half", "polling"}, msecs : Durations \cup {0}]
      /\ sleep'.msecs = sleep.msecs /\ sleep'.at = "half"
  BY <1>1
<1>3. SleptBound \in Nat /\ MsWrap \in Nat /\ Longest \in Nat
  BY UnitTypes
<1>4. deadline' \in 0 .. MsWrap + Longest
  BY <1>1, <1>3, TwoBytes
<1>5. TimeTypeOK'
  BY <1>1, <1>2, <1>3, <1>4 DEF TimeInv, TimeTypeOK
<1>6. Fine(clock') <= Fine(ms') + slept'
  BY <1>1, FineBounds
<1>7. ClockBehind'
  BY <1>1, <1>2, <1>6 DEF ClockBehind
<1> QED BY <1>1, <1>5, <1>7, SleepingReads DEF TimeInv

LEMMA DeadlineHighInv ==
  ASSUME TimeInv, DeadlineHigh
  PROVE  TimeInv'
<1>1. /\ sleep \in [at : {"awake", "called", "half", "polling"}, msecs : Durations \cup {0}]
      /\ clock \in Instants /\ ms \in Instants /\ slept \in 0 .. SleptBound
      /\ sleep' = [sleep EXCEPT !.at = "polling"] /\ sleep.at = "half"
      /\ deadline' = WithHigh(deadline, Byte(sleep.msecs, 1)) + Milliseconds(ms)
      /\ UNCHANGED <<clock, now, ms, time_ms, clockRead, msRead, slept>>
  BY DEF DeadlineHigh, TimeInv, TimeTypeOK
<1>2. /\ sleep' \in [at : {"awake", "called", "half", "polling"}, msecs : Durations \cup {0}]
      /\ sleep'.msecs = sleep.msecs /\ sleep'.at = "polling"
  BY <1>1
<1>3. SleptBound \in Nat /\ MsWrap \in Nat /\ Longest \in Nat /\ UsPerMs \in Nat
  BY UnitTypes
<1>4. /\ deadline = Byte(sleep.msecs, 0)
      /\ slept = SleptBound \/ Fine(clock) <= Fine(ms) + slept
  BY <1>1 DEF TimeInv, ClockBehind
<1>5. deadline' = sleep.msecs + Milliseconds(ms) /\ sleep.msecs \in 0 .. Longest
  BY <1>1, <1>4, TwoBytes
<1>6. Milliseconds(ms) \in 0 .. MsWrap - 1
  BY <1>1, InstantParts
<1>7. TimeTypeOK'
  <2>1. deadline' \in 0 .. MsWrap + Longest
    BY <1>3, <1>5, <1>6
  <2> QED BY <1>1, <1>2, <2>1 DEF TimeInv, TimeTypeOK
<1>8. \/ slept = SleptBound
      \/ Fine(clock) <= (deadline' - sleep.msecs) * UsPerMs + UsPerMs - 1 + slept
  <2>1. deadline' - sleep.msecs = Milliseconds(ms)
    BY <1>3, <1>5, <1>6
  <2>2. /\ Fine(clock) \in Nat /\ Fine(ms) \in Nat
        /\ Fine(ms) <= Milliseconds(ms) * UsPerMs + UsPerMs - 1
    BY <1>1, FineBounds
  <2>3. Milliseconds(ms) * UsPerMs \in Int
    BY <1>3, <1>6
  <2> QED BY <1>1, <1>3, <1>4, <2>1, <2>2, <2>3
<1>9. ClockBehind'
  BY <1>1, <1>2, <1>8 DEF ClockBehind
<1> QED BY <1>1, <1>7, <1>9, SleepingReads DEF TimeInv

LEMMA OtherSleepInv ==
  ASSUME TimeInv, PollAgain \/ PollPassed \/ \E d \in Durations : CallMsleep(d)
  PROVE  TimeInv'
<1>0. SleptBound \in Nat /\ Awake \in [at : {"awake"}, msecs : {0}]
  BY UnitTypes DEF Awake
<1>1. CASE \E d \in Durations : CallMsleep(d)
  <2>1. /\ \E d \in Durations : sleep' = [at |-> "called", msecs |-> d]
        /\ UNCHANGED <<clock, now, ms, time_ms, deadline, clockRead, msRead, slept>>
    BY <1>1 DEF CallMsleep, unit
  <2> QED BY <2>1, SleepingReads DEF TimeInv, TimeTypeOK, ClockBehind
<1>2. CASE PollAgain
  <2>1. /\ sleep.at = "polling" /\ ms' = clock
        /\ UNCHANGED <<clock, now, time_ms, deadline, clockRead, msRead, sleep, slept>>
    BY <1>2 DEF PollAgain
  <2> QED BY <2>1, SleepingReads DEF TimeInv, TimeTypeOK, ClockBehind
<1>3. CASE PollPassed
  <2>1. /\ ms' = clock /\ sleep' = Awake /\ slept' = 0
        /\ UNCHANGED <<clock, now, time_ms, deadline, clockRead, msRead>>
    BY <1>3 DEF PollPassed
  <2> QED BY <1>0, <2>1, SleepingReads DEF TimeInv, TimeTypeOK, ClockBehind
<1> QED BY <1>1, <1>2, <1>3

LEMMA TimeStepInv == TimeInv /\ [TimeNext]_vars => TimeInv'
<1> SUFFICES ASSUME TimeInv, [TimeNext]_vars PROVE TimeInv'
  OBVIOUS
<1>1. CASE Tick
  BY <1>1, TickInv
<1>2. CASE Reading
  BY <1>2, InitAgainInv, ReadClockInv, ReadMsInv, ReadingDoneInv DEF Reading
<1>3. CASE Sleeping
  BY <1>3, DeadlineLowInv, DeadlineHighInv, OtherSleepInv DEF Sleeping
<1>4. CASE UNCHANGED vars
  BY <1>4 DEF vars, unit, TimeInv, TimeTypeOK, ReadSoFar, ClockBehind, ClockByte, MsByte
<1> QED BY <1>1, <1>2, <1>3, <1>4 DEF TimeNext

LEMMA TimeInvHolds == TimeSpec => []TimeInv
BY TimeInitInv, TimeStepInv, PTL DEF TimeSpec

-----------------------------------------------------------------------------
\* The samples, the deadline and the two readings have their types: the deadline
\* in particular stays below the milliseconds' wrap and the longest sleep.
THEOREM TimeTypeCorrect == TimeSpec => []TimeTypeOK
<1>1. TimeInv => TimeTypeOK
  BY DEF TimeInv
<1> QED BY <1>1, TimeInvHolds, PTL

\* A reading is of one instant, in registers of any width, whatever the other
\* activities do to the unit between two of its bytes.
THEOREM ReadingsAreCoherent == TimeSpec => []ReadingsCoherent
<1>1. ASSUME TimeInv
      PROVE  ReadingsCoherent
  <2>1. ASSUME NEW w \in Nat, NEW limit \in Nat, w <= limit, Fits(limit)
        PROVE  Fits(w)
    BY <2>1, FitsBelow
  <2>2. ASSUME Len(clockRead.bytes) = 2 * WordBytes
        PROVE  /\ WordOf(SubSeq(clockRead.bytes, 1, WordBytes)) = tv_usec(clockRead.from)
               /\ WordOf(SubSeq(clockRead.bytes, WordBytes + 1, 2 * WordBytes))
                    = tv_sec(clockRead.from)
    <3> DEFINE b == clockRead.bytes
               t == clockRead.from
               low == SubSeq(b, 1, WordBytes)
               high == SubSeq(b, WordBytes + 1, 2 * WordBytes)
    <3>1. /\ b \in Seq(Int) /\ Len(b) = 2 * WordBytes /\ t \in Instants
          /\ \A n \in 1 .. 2 * WordBytes : b[n] = ClockByte(t, n)
      BY <1>1, <2>2 DEF TimeInv, ReadSoFar
    <3> HIDE DEF b, t
    <3>2. tv_usec(t) \in Nat /\ Fits(tv_usec(t)) /\ tv_sec(t) \in Nat /\ Fits(tv_sec(t))
      <4>1. Fits(UsPerSec) /\ Fits(Horizon)
        BY WidthAssumption
      <4>2. /\ tv_usec(t) \in Nat /\ UsPerSec \in Nat /\ tv_usec(t) <= UsPerSec
            /\ tv_sec(t) \in Nat /\ Horizon \in Nat /\ tv_sec(t) <= Horizon
        <5>1. tv_usec(t) \in 0 .. UsPerSec - 1 /\ tv_sec(t) \in 0 .. Horizon - 1
          BY <3>1, InstantParts
        <5> QED BY <5>1, UnitTypes
      <4> QED BY <2>1, <4>1, <4>2, Zenon
    <3>3. BytesOf(tv_usec(t), low)
      <4>1. /\ Len(low) = WordBytes
            /\ \A n \in 1 .. WordBytes : low[n] = b[n] /\ n \in 1 .. 2 * WordBytes
        BY <3>1, Widths
      <4> HIDE DEF low
      <4> QED BY <3>1, <4>1, Widths DEF BytesOf, ClockByte
    <3>4. BytesOf(tv_sec(t), high)
      <4>1. /\ Len(high) = WordBytes
            /\ \A n \in 1 .. WordBytes :
                 /\ high[n] = b[WordBytes + n] /\ WordBytes + n \in 1 .. 2 * WordBytes
                 /\ ~ WordBytes + n <= WordBytes
                 /\ 2 * WordBytes - (WordBytes + n) = WordBytes - n
        BY <3>1, Widths
      <4> HIDE DEF high
      <4> QED BY <3>1, <4>1, Widths DEF BytesOf, ClockByte
    <3> HIDE DEF low, high
    <3> QED BY <3>2, <3>3, <3>4, WordOfBytes DEF b, t, low, high
  <2>3. ASSUME Len(msRead.bytes) = WordBytes
        PROVE  WordOf(msRead.bytes) = Milliseconds(msRead.from)
    <3>1. /\ msRead.from \in Instants
          /\ \A n \in 1 .. WordBytes : msRead.bytes[n] = MsByte(msRead.from, n)
      BY <1>1, <2>3 DEF TimeInv, ReadSoFar
    <3>2. BytesOf(Milliseconds(msRead.from), msRead.bytes)
      BY <2>3, <3>1 DEF BytesOf, MsByte
    <3>3. Milliseconds(msRead.from) \in Nat /\ Milliseconds(msRead.from) <= MsWrap + Longest
      <4>1. Milliseconds(msRead.from) \in 0 .. MsWrap - 1
        BY <3>1, InstantParts
      <4>2. MsWrap \in Nat /\ Longest \in Nat
        BY UnitTypes
      <4> QED BY <4>1, <4>2
    <3>4. Fits(Milliseconds(msRead.from))
      BY <2>1, <3>3, UnitTypes, WidthAssumption
    <3> QED BY <3>2, <3>3, <3>4, WordOfBytes
  <2> QED BY <2>2, <2>3 DEF ReadingsCoherent
<1> QED BY <1>1, TimeInvHolds, PTL

\* msleep returns at most a millisecond early: whatever the sample its deadline
\* counts from, and although the milliseconds start over.
THEOREM NeverEarlyHolds == TimeSpec => NeverEarly
<1> DEFINE Early == /\ sleep.at = "polling" /\ sleep'.at = "awake"
                    /\ ~ slept > (sleep.msecs - 1) * UsPerMs
<1>1. TimeInv /\ [TimeNext]_vars => ~ Early
  <2> SUFFICES ASSUME TimeInv, [TimeNext]_vars, sleep.at = "polling", sleep'.at = "awake"
               PROVE  slept > (sleep.msecs - 1) * UsPerMs
    OBVIOUS
  <2>1. PollPassed
    BY DEF TimeNext, Tick, Reading, Sleeping, InitAgain, ReadClock, ReadMs, ReadingDone,
           CallMsleep, DeadlineLow, DeadlineHigh, PollAgain, vars
  <2>2. deadline <= Milliseconds(clock)
    BY <2>1 DEF PollPassed, DeadlinePassed
  <2>3. /\ clock \in Instants /\ deadline \in Nat /\ slept \in Nat /\ UsPerMs \in Nat \ {0}
        /\ sleep.msecs \in 0 .. Longest /\ SleptBound = Longest * UsPerMs /\ Longest \in Nat
    <3>1. /\ UsPerMs \in Nat \ {0} /\ SleptBound = Longest * UsPerMs /\ Longest \in Nat
          /\ SleptBound \in Nat /\ MsWrap \in Nat
      BY UnitTypes
    <3>2. /\ clock \in Instants /\ deadline \in Nat /\ slept \in Nat
          /\ sleep.msecs \in Durations \cup {0}
      BY <3>1 DEF TimeInv, TimeTypeOK
    <3> QED BY <3>1, <3>2, TwoBytes
  <2>4. \/ slept = SleptBound
        \/ Fine(clock) <= (deadline - sleep.msecs) * UsPerMs + UsPerMs - 1 + slept
    BY DEF TimeInv, ClockBehind
  <2>5. /\ Milliseconds(clock) \in Nat /\ Fine(clock) \in Nat
        /\ Milliseconds(clock) * UsPerMs <= Fine(clock)
    BY <2>3, FineBounds, InstantParts, UnitTypes
  <2>6. \A a, b \in Int : a <= b => a * UsPerMs <= b * UsPerMs
    BY <2>3
  <2>7. \A a, b \in Int : /\ (a - b) * UsPerMs = a * UsPerMs - b * UsPerMs
                          /\ a * UsPerMs \in Int
    BY <2>3
  <2>8. (sleep.msecs - 1) * UsPerMs = sleep.msecs * UsPerMs - UsPerMs
    BY <2>3
  <2>9. deadline * UsPerMs <= Fine(clock)
    BY <2>2, <2>3, <2>5, <2>6, <2>7
  <2> QED BY <2>3, <2>4, <2>5, <2>6, <2>7, <2>8, <2>9
<1>2. TimeInv /\ [TimeNext]_vars
        => [sleep.at = "polling" /\ sleep'.at = "awake"
            => slept > (sleep.msecs - 1) * UsPerMs]_vars
  BY <1>1
<1> QED BY <1>2, TimeInvHolds, PTL DEF TimeSpec, NeverEarly
=============================================================================
