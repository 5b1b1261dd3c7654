------------------------------ MODULE Text_proofs ------------------------------
(***************************************************************************)
(* What the words of a request are read as: the days of Clocks and what    *)
(* time.Date makes of a reading, for any zone whose clocks change once,    *)
(* and the expressions of Filter, for any text.                            *)
(***************************************************************************)
EXTENDS Clocks, Filter, JournalOps_proofs

-------------------------------------------------------------------------------
(* Days.                                                                   *)

(* The day of a reading is the one between two midnights it is in.         *)
LEMMA DayBounds ==
  ASSUME NEW r \in Int
  PROVE  Day(r) \in Int /\ Reading(Day(r), 0) <= r /\ r < Reading(Day(r), 0) + DayHours
BY ZoneAssumption DEF Day, Reading

LEMMA DaysApart ==
  ASSUME NEW d \in Int, NEW e \in Int, d < e
  PROVE  Reading(d, 0) + DayHours <= Reading(e, 0)
BY ZoneAssumption DEF Reading

LEMMA DayIs ==
  ASSUME NEW r \in Int, NEW d \in Int
  PROVE  /\ Reading(d, 0) <= r /\ r < Reading(d, 0) + DayHours <=> Day(r) = d
         /\ Reading(d, 0) <= r <=> d <= Day(r)
         /\ Reading(d, 0) \in Int /\ Reading(d + 1, 0) = Reading(d, 0) + DayHours
<1>1. Reading(d, 0) \in Int /\ Reading(d + 1, 0) = Reading(d, 0) + DayHours /\ DayHours \in Nat \ {0}
  BY ZoneAssumption DEF Reading
<1>2. /\ Day(r) \in Int /\ Reading(Day(r), 0) <= r /\ r < Reading(Day(r), 0) + DayHours
      /\ Reading(Day(r), 0) \in Int
  BY DayBounds, ZoneAssumption DEF Reading
<1>3. CASE d = Day(r)  BY <1>1, <1>2, <1>3
<1>4. CASE d < Day(r)  BY <1>1, <1>2, <1>4, DaysApart
<1>5. CASE Day(r) < d  BY <1>1, <1>2, <1>5, DaysApart
<1> QED  BY <1>2, <1>3, <1>4, <1>5

(* No midnight is skipped or comes twice, nor is it nearer to a skipped    *)
(* clock than what is skipped with it, which is as far as time.Date moves  *)
(* a clock that is not there.                                              *)
MidnightsKept ==
  LET a == Zone.at + Zone.before  b == Zone.at + Zone.after IN
  \E d \in Int :
    IF a <= b THEN Reading(d, 0) <= 2 * a - b /\ 2 * b - a <= Reading(d, 0) + DayHours
              ELSE Reading(d, 0) < b /\ a <= Reading(d, 0) + DayHours

(* time.Date finds the instant of a reading that comes once,               *)
LEMMA DateExact ==
  ASSUME NEW r \in Int, NEW t \in Int, Shown(t) = r, \A u \in Int : Shown(u) = r => u = t
  PROVE  Date(r) = t
<1>1. Offset(t) \in Int /\ Offset(r) \in Int /\ t = r - Offset(t)
  BY ZoneAssumption DEF Offset, Shown
<1>2. CASE Offset(r) = 0 \/ SamePeriod(r - Offset(r), r)
  <2>1. Shown(r - Offset(r)) = r  BY <1>1, <1>2 DEF Shown, SamePeriod, Offset
  <2> QED  BY <1>1, <1>2, <2>1 DEF Date
<1>3. CASE ~(Offset(r) = 0 \/ SamePeriod(r - Offset(r), r))
  <2>1. Date(r) = r - Offset(r - Offset(r))  BY <1>3 DEF Date
  <2>2. CASE r - Offset(r) = t  BY <1>1, <2>1, <2>2
  <2>3. CASE r - Offset(r) # t
    <3>1. Offset(t) # Offset(r)  BY <1>1, <2>3
    <3>2. Offset(r - Offset(r)) = Offset(t)  BY <1>1, <1>3, <3>1 DEF SamePeriod, Offset
    <3> QED  BY <1>1, <2>1, <3>2
  <2> QED  BY <2>2, <2>3
<1> QED  BY <1>2, <1>3

LEMMA DateType ==
  ASSUME NEW r \in Int
  PROVE  Date(r) \in Int /\ Shown(Date(r)) \in Int
BY ZoneAssumption DEF Date, Offset, Shown

(* and misses one the clocks skip by what they skip.                       *)
LEMMA DateNear ==
  ASSUME NEW r \in Int, Shown(Date(r)) # r
  PROVE  /\ Zone.at + Zone.before <= r /\ r < Zone.at + Zone.after
         /\ Shown(Date(r)) \in {r + (Zone.after - Zone.before), r - (Zone.after - Zone.before)}
BY ZoneAssumption DEF Date, Offset, Shown, SamePeriod

LEMMA DateKeepsDay ==
  ASSUME MidnightsKept, NEW r \in Int
  PROVE  Day(Shown(Date(r))) = Day(r)
<1> SUFFICES ASSUME Shown(Date(r)) # r PROVE Day(Shown(Date(r))) = Day(r)  OBVIOUS
<1> DEFINE a == Zone.at + Zone.before  b == Zone.at + Zone.after
<1>1. a \in Int /\ b \in Int /\ Zone.after - Zone.before = b - a  BY ZoneAssumption
<1>2. a <= r /\ r < b /\ Shown(Date(r)) \in {r + (b - a), r - (b - a)}  BY <1>1, DateNear
<1>3. PICK d \in Int : Reading(d, 0) <= 2 * a - b /\ 2 * b - a <= Reading(d, 0) + DayHours
  <2>1. a <= b  BY <1>1, <1>2
  <2> QED  BY <2>1 DEF MidnightsKept
<1> HIDE DEF a, b
<1>4. Reading(d, 0) \in Int /\ DayHours \in Int  BY ZoneAssumption DEF Reading
<1>5. \A x \in {r, r + (b - a), r - (b - a)} : /\ x \in Int
        /\ Reading(d, 0) <= x /\ x < Reading(d, 0) + DayHours
  BY <1>1, <1>2, <1>3, <1>4
<1>6. Day(r) = d  BY <1>5, DayIs
<1>7. Day(Shown(Date(r))) = d  BY <1>2, <1>5, DayIs
<1> QED  BY <1>6, <1>7

(* A day begins, and all of it comes, at the instant of its midnight.      *)
LEMMA MidnightOnce ==
  ASSUME MidnightsKept, NEW d \in Int
  PROVE  /\ Date(Reading(d, 0)) \in Int /\ Shown(Date(Reading(d, 0))) = Reading(d, 0)
         /\ \A t \in Int : t >= Date(Reading(d, 0)) <=> Day(Shown(t)) >= d
<1> DEFINE a == Zone.at + Zone.before  b == Zone.at + Zone.after  m == Reading(d, 0)
<1>1. PICK e \in Int :
        IF a <= b THEN Reading(e, 0) <= 2 * a - b /\ 2 * b - a <= Reading(e, 0) + DayHours
                  ELSE Reading(e, 0) < b /\ a <= Reading(e, 0) + DayHours
  BY DEF MidnightsKept
<1>2. /\ a \in Int /\ b \in Int /\ m \in Int /\ Reading(e, 0) \in Int /\ DayHours \in Nat \ {0}
  BY ZoneAssumption DEF Reading
<1>3. (m < a /\ m < b) \/ (m >= a /\ m >= b)
  <2>1. CASE d <= e
    <3>1. m <= Reading(e, 0)  BY <1>2, <2>1, DaysApart
    <3> HIDE DEF a, b, m
    <3> QED  BY <1>1, <1>2, <3>1
  <2>2. CASE e < d
    <3>1. Reading(e, 0) + DayHours <= m  BY <1>2, <2>2, DaysApart
    <3> HIDE DEF a, b, m
    <3> QED  BY <1>1, <1>2, <3>1
  <2> QED  BY <2>1, <2>2
<1> DEFINE s == IF m < a THEN m - Zone.before ELSE m - Zone.after
<1>4. s \in Int /\ Shown(s) = m /\ \A t \in Int : t >= s <=> Shown(t) >= m
  <2> HIDE DEF m
  <2> QED  BY <1>2, <1>3, ZoneAssumption DEF Shown, Offset
<1>5. \A t \in Int : Shown(t) = m => t = s
  <2> HIDE DEF m
  <2> QED  BY <1>2, <1>3, ZoneAssumption DEF Shown, Offset
<1> HIDE DEF s
<1>6. Date(m) = s  BY <1>2, <1>4, <1>5, DateExact
<1>7. \A t \in Int : Shown(t) \in Int  BY ZoneAssumption DEF Shown, Offset
<1>8. \A t \in Int : Shown(t) >= m <=> Day(Shown(t)) >= d
  <2> SUFFICES ASSUME NEW t \in Int PROVE Shown(t) >= m <=> Day(Shown(t)) >= d  OBVIOUS
  <2>1. Day(Shown(t)) \in Int  BY <1>7, DayBounds
  <2> QED  BY <1>2, <1>7, <2>1, DayIs
<1> QED  BY <1>4, <1>6, <1>8

LEMMA ReadingParts ==
  ASSUME NEW d \in Int, NEW h \in 0..DayHours-1
  PROVE  Reading(d, h) \in Int /\ Day(Reading(d, h)) = d /\ Hour(Reading(d, h)) = h
<1>1. Reading(d, h) \in Int /\ DayHours \in Nat \ {0}  BY ZoneAssumption DEF Reading
<1>2. Reading(d, 0) <= Reading(d, h) /\ Reading(d, h) < Reading(d, 0) + DayHours
  BY ZoneAssumption DEF Reading
<1>3. Day(Reading(d, h)) = d  BY <1>1, <1>2, DayIs
<1>4. Reading(d, h) = DayHours * (Reading(d, h) \div DayHours) + (Reading(d, h) % DayHours)
  BY <1>1
<1>5. Hour(Reading(d, h)) = h
  <2> DEFINE r == Reading(d, h)
  <2>1. r = d * DayHours + h  BY DEF Reading
  <2>2. r \div DayHours = d  BY <1>3 DEF Day
  <2>3. r % DayHours = r - DayHours * d  BY <1>1, <1>4, <2>2
  <2> QED  BY <1>1, <2>1, <2>3 DEF Hour
<1> QED  BY <1>1, <1>3, <1>5

LEMMA ShownType ==
  ASSUME NEW t \in Int
  PROVE  Shown(t) \in Int /\ Day(Shown(t)) \in Int /\ Hour(Shown(t)) \in 0..DayHours-1
<1>1. Shown(t) \in Int /\ DayHours \in Nat \ {0}  BY ZoneAssumption DEF Shown, Offset
<1> QED  BY <1>1 DEF Day, Hour

(* Days are counted as on the calendar, however long they are.             *)
LEMMA AddDaysDay ==
  ASSUME MidnightsKept, NEW t \in Int, NEW n \in Int
  PROVE  Day(Shown(AddDays(t, n))) = Day(Shown(t)) + n
<1> DEFINE r == Shown(t) + n * DayHours  d == Day(Shown(t)) + n
<1>1. /\ DayHours \in Nat \ {0} /\ Shown(t) \in Int /\ Day(Shown(t)) \in Int
      /\ n * DayHours \in Int /\ r \in Int /\ d \in Int
  BY ShownType, ZoneAssumption
<1>2. Reading(d, 0) = Reading(Day(Shown(t)), 0) + n * DayHours  BY <1>1 DEF Reading
<1>3. /\ Reading(Day(Shown(t)), 0) <= Shown(t) /\ Reading(Day(Shown(t)), 0) \in Int
      /\ Shown(t) < Reading(Day(Shown(t)), 0) + DayHours
  BY <1>1, DayBounds, DayIs
<1>4. Reading(d, 0) <= r /\ r < Reading(d, 0) + DayHours  BY <1>1, <1>2, <1>3
<1>5. Day(r) = d  BY <1>1, <1>4, DayIs
<1> QED  BY <1>1, <1>5, DateKeepsDay DEF AddDays

-------------------------------------------------------------------------------
(* What values are parsed to.                                              *)

Values == [form : Forms, day : Int, hour : Int, ago : Int]

LEMMA ParseType ==
  ASSUME NEW v \in Values, NEW now \in Int
  PROVE  ParsePartial(v, now).t \in Int
<1>1. DayHours \in Nat \ {0} /\ \A t \in Int : Shown(t) \in Int
  BY ZoneAssumption DEF Shown, Offset
<1>2. \A r \in Int : Date(r) \in Int /\ Day(r) \in Int  BY DateType, DayBounds
<1>3. \A d, h \in Int : Reading(d, h) \in Int  BY <1>1 DEF Reading
<1>4. AddDays(now, -v.ago) \in Int
  <2>1. Shown(now) + (-v.ago) * DayHours \in Int  BY <1>1 DEF Values
  <2> QED  BY <1>2, <2>1 DEF AddDays
<1>5. \A r \in Int : LocalClock(r).t = Date(r)  BY DEF LocalClock
<1>6. CASE v.form = "clock"
  BY <1>1, <1>2, <1>3, <1>5, <1>6 DEF ParsePartial, Values
<1>7. CASE v.form = "date"
  BY <1>1, <1>2, <1>3, <1>5, <1>7 DEF ParsePartial, Values, LocalClock
<1>8. CASE v.form = "both"
  BY <1>1, <1>2, <1>3, <1>5, <1>8 DEF ParsePartial, Values
<1>9. CASE v.form = "instant"
  BY <1>1, <1>9 DEF ParsePartial, Values
<1>10. CASE v.form = "dayAgo"
  BY <1>4, <1>10 DEF ParsePartial
<1>11. CASE v.form = "dayAgoAt"
  BY <1>1, <1>2, <1>3, <1>4, <1>5, <1>11 DEF ParsePartial, Values
<1> QED  BY <1>6, <1>7, <1>8, <1>9, <1>10, <1>11 DEF Values, Forms

-------------------------------------------------------------------------------
(* The parser answers what the grammar says.                               *)

IsTokens(toks) ==
  /\ Len(toks) \in Nat /\ DOMAIN toks = 1..Len(toks)
  /\ \A i \in 1..Len(toks) : toks[i].kind \in Operators \cup {"term"}

LEMMA KindIs ==
  ASSUME NEW toks, IsTokens(toks)
  PROVE  /\ \A i \in 1..Len(toks) : /\ Kind(toks, i) = toks[i].kind
                                   /\ Kind(toks, i) \in {"&", "|", "!", "term"}
         /\ \A i : i \notin 1..Len(toks) => Kind(toks, i) = "end"
BY DEF IsTokens, Kind, Operators

(* parseUnary from token j ends at k, the first token that is no "!".      *)
Bangs(toks, j, k) == /\ k \in Nat /\ j <= k /\ \A i \in j..k-1 : Kind(toks, i) = "!"
                     /\ Kind(toks, k) # "!"
Good(toks, k) == Kind(toks, k) = "term" /\ ~TermRefused(toks[k].text)
Negated(hits, all, m, k) == IF m % 2 = 0 THEN hits[k] ELSE all \ hits[k]
Operand(toks, hits, all, j, k) ==
  IF Good(toks, k) THEN Parsed(k + 1, Negated(hits, all, k - j, k)) ELSE Failed

UnaryTurn(W, j, toks, hits, all) ==
  CASE Kind(toks, j) = "!" -> LET r == W[j+1] IN
         IF r = Failed THEN Failed ELSE Parsed(r.at, all \ r.found)
    [] Kind(toks, j) = "term" ->
         IF TermRefused(toks[j].text) THEN Failed ELSE Parsed(j+1, hits[j])
    [] OTHER -> Failed

LEMMA BangsEnd ==
  ASSUME NEW toks, IsTokens(toks), NEW j \in Nat
  PROVE  \E k \in Nat : Bangs(toks, j, k)
<1> DEFINE n == Len(toks)
           m == [i \in Nat |-> i..n]
           G == {i \in Nat : \E k \in Nat : Bangs(toks, i, k)}
<1>1. n \in Nat  BY DEF IsTokens
<1>2. ASSUME NEW i \in Nat, \A y \in Nat : m[y] \subseteq m[i] /\ m[y] # m[i] => y \in G
      PROVE  i \in G
  <2>1. CASE Kind(toks, i) # "!"
    <3>1. Bangs(toks, i, i)  BY <2>1 DEF Bangs
    <3> QED  BY <3>1
  <2>2. CASE Kind(toks, i) = "!"
    <3>1. i \in 1..n  BY <2>2, KindIs
    <3>2. m[i + 1] \subseteq m[i] /\ m[i + 1] # m[i]  BY <1>1, <3>1
    <3>3. i + 1 \in G  BY <1>2, <3>2
    <3>4. PICK k \in Nat : Bangs(toks, i + 1, k)  BY <3>3
    <3>5. i <= k /\ \A x \in i..k-1 : x = i \/ x \in i+1..k-1  BY <3>4 DEF Bangs
    <3>6. Bangs(toks, i, k)  BY <2>2, <3>4, <3>5 DEF Bangs
    <3> QED  BY <3>6
  <2> QED  BY <2>1, <2>2
<1>3. Nat \subseteq G
  <2>1. IsFiniteSet(0..n)  BY <1>1, FS_Interval
  <2>2. \A i \in Nat : m[i] \in SUBSET (0..n)  BY <1>1
  <2>3. Inductive(G, Nat, m, 0..n)
    <3> HIDE DEF G, m
    <3> QED  BY <1>2, <2>2 DEF Inductive
  <2> HIDE DEF G, m
  <2> QED  BY <2>1, <2>3, LoopInduction
<1> QED  BY <1>3

LEMMA BangsOnce ==
  ASSUME NEW toks, NEW j \in Nat, NEW k, NEW l, Bangs(toks, j, k), Bangs(toks, j, l)
  PROVE  k = l
<1>1. k \in Nat /\ l \in Nat /\ j <= k /\ j <= l  BY DEF Bangs
<1>2. ~(k < l)
  <2> SUFFICES ASSUME k < l PROVE FALSE  OBVIOUS
  <2>1. k \in j..l-1  BY <1>1
  <2> QED  BY <2>1 DEF Bangs
<1>3. ~(l < k)
  <2> SUFFICES ASSUME l < k PROVE FALSE  OBVIOUS
  <2>1. l \in j..k-1  BY <1>1
  <2> QED  BY <2>1 DEF Bangs
<1> QED  BY <1>1, <1>2, <1>3

LEMMA ParsedIs ==
  /\ \A at \in Nat : \A found :
       /\ Parsed(at, found).at = at /\ Parsed(at, found).found = found
       /\ Parsed(at + 1, found) # Failed
  /\ Failed.at = 0 /\ Failed.found = {}
<1>1. \A at, found : Parsed(at, found).at = at /\ Parsed(at, found).found = found  BY DEF Parsed
<1>2. Failed.at = 0 /\ Failed.found = {}  BY DEF Parsed, Failed
<1>3. ASSUME NEW at \in Nat, NEW found PROVE Parsed(at + 1, found) # Failed
  <2>1. Parsed(at + 1, found).at = at + 1  BY <1>1
  <2>2. at + 1 # 0  OBVIOUS
  <2> QED  BY <1>2, <2>1, <2>2
<1> QED  BY <1>1, <1>2, <1>3

Inner(W, toks, hits, all, j, k) ==
  Kind(toks, j) = "!" => W[j + 1] = Operand(toks, hits, all, j + 1, k)

LEMMA OperandStep ==
  ASSUME NEW all, NEW toks, IsTokens(toks), NEW hits \in [1..Len(toks) -> SUBSET all],
         NEW W, NEW j \in Nat, NEW k, Bangs(toks, j, k), Inner(W, toks, hits, all, j, k)
  PROVE  UnaryTurn(W, j, toks, hits, all) = Operand(toks, hits, all, j, k)
<1>1. k \in Nat /\ j <= k  BY DEF Bangs
<1>2. CASE Kind(toks, j) = "!"
  <2>1. k # j  BY <1>2 DEF Bangs
  <2>2. CASE Good(toks, k)
    <3> DEFINE d == k - (j + 1)  H == hits[k]
    <3>1. d \in Nat /\ k - j = d + 1  BY <1>1, <2>1
    <3>2. H \in SUBSET all
      <4>1. k \in 1..Len(toks)  BY <2>2, KindIs DEF Good
      <4> QED  BY <4>1
    <3>3. W[j + 1] = Parsed(k + 1, Negated(hits, all, d, k))  BY <1>2, <2>2 DEF Operand, Inner
    <3>4. UnaryTurn(W, j, toks, hits, all) = Parsed(k + 1, all \ Negated(hits, all, d, k))
      <4> DEFINE X == Negated(hits, all, d, k)
      <4>1. Parsed(k + 1, X) # Failed  BY <1>1, ParsedIs
      <4>2. Parsed(k + 1, X).at = k + 1 /\ Parsed(k + 1, X).found = X  BY <1>1, ParsedIs
      <4> HIDE DEF X
      <4> QED  BY <1>2, <3>3, <4>1, <4>2 DEF UnaryTurn, X
    <3>5. Operand(toks, hits, all, j, k) = Parsed(k + 1, Negated(hits, all, d + 1, k))
      BY <2>2, <3>1 DEF Operand
    <3> HIDE DEF d
    <3>6. (d + 1) % 2 = 0 <=> d % 2 # 0  BY <3>1
    <3>7. all \ Negated(hits, all, d, k) = Negated(hits, all, d + 1, k)
      BY <3>2, <3>6 DEF Negated
    <3> QED  BY <3>4, <3>5, <3>7
  <2>3. CASE ~Good(toks, k)
    BY <1>2, <2>3 DEF UnaryTurn, Operand, Inner
  <2> QED  BY <2>2, <2>3
<1>3. CASE Kind(toks, j) # "!"
  <2>1. k = j
    <3> SUFFICES ASSUME j < k PROVE FALSE  BY <1>1
    <3>1. j \in j..k-1  BY <1>1
    <3> QED  BY <1>3, <3>1 DEF Bangs
  <2>2. k - j = 0 /\ 0 % 2 = 0  BY <1>1, <2>1
  <2>3. Negated(hits, all, k - j, k) = hits[j]  BY <2>1, <2>2 DEF Negated
  <2> QED  BY <1>3, <2>1, <2>3 DEF UnaryTurn, Operand, Good
<1> QED  BY <1>2, <1>3

(* It exists, and finds the operand.                                       *)
LEMMA UnaryIs ==
  ASSUME NEW all, NEW toks, IsTokens(toks), NEW hits \in [1..Len(toks) -> SUBSET all],
         NEW j \in Nat, NEW k, Bangs(toks, j, k)
  PROVE  Unary(toks, hits, all, j) = Operand(toks, hits, all, j, k)
<1> DEFINE n == Len(toks)
           end == [i \in Nat |-> CHOOSE x \in Nat : Bangs(toks, i, x)]
           w == [i \in Nat |-> Operand(toks, hits, all, i, end[i])]
           U == CHOOSE f : f = [i \in Nat |-> UnaryTurn(f, i, toks, hits, all)]
<1>1. Unary(toks, hits, all, j) = U[j]  BY DEF Unary, UnaryTurn
<1>2. \A i \in Nat : Bangs(toks, i, end[i])  BY BangsEnd
<1>3. ASSUME NEW i \in Nat, Kind(toks, i) = "!"
      PROVE  i \in 1..n /\ end[i + 1] = end[i]
  <2>1. i \in 1..n  BY <1>3, KindIs
  <2>2. Bangs(toks, i, end[i]) /\ Bangs(toks, i + 1, end[i + 1])  BY <1>2
  <2> DEFINE e == end[i]  f == end[i + 1]
  <2> HIDE DEF e, f
  <2>3. e # i /\ e \in Nat /\ i <= e  BY <1>3, <2>2 DEF Bangs, e
  <2>4. \A x \in i+1..e-1 : x \in i..e-1  OBVIOUS
  <2>5. Bangs(toks, i + 1, e)  BY <2>2, <2>3, <2>4 DEF Bangs, e
  <2>6. f = e  BY <2>2, <2>5, BangsOnce DEF f
  <2> QED  BY <2>1, <2>6 DEF e, f
<1> HIDE DEF end
<1>4. ASSUME NEW i \in Nat PROVE w[i] = UnaryTurn(w, i, toks, hits, all)
  <2>1. Kind(toks, i) = "!" => w[i + 1] = Operand(toks, hits, all, i + 1, end[i])  BY <1>3
  <2>2. UnaryTurn(w, i, toks, hits, all) = Operand(toks, hits, all, i, end[i])
    <3> DEFINE e == end[i]
    <3>1. Bangs(toks, i, e)  BY <1>2
    <3>2. Inner(w, toks, hits, all, i, e)  BY <2>1 DEF Inner
    <3> HIDE DEF w, e
    <3>3. UnaryTurn(w, i, toks, hits, all) = Operand(toks, hits, all, i, e)
      BY <3>1, <3>2, OperandStep
    <3> QED  BY <3>3 DEF e
  <2> QED  BY <2>2
<1>5. w = [i \in Nat |-> UnaryTurn(w, i, toks, hits, all)]
  <2>1. w = [i \in Nat |-> w[i]]  OBVIOUS
  <2> HIDE DEF w
  <2> QED  BY <1>4, <2>1
<1> HIDE DEF w
<1>6. U = [i \in Nat |-> UnaryTurn(U, i, toks, hits, all)]  BY <1>5
<1> HIDE DEF U
<1> DEFINE m == [i \in Nat |-> i..n]
           G == {i \in Nat : U[i] = Operand(toks, hits, all, i, end[i])}
<1>7. ASSUME NEW i \in Nat, \A y \in Nat : m[y] \subseteq m[i] /\ m[y] # m[i] => y \in G
      PROVE  i \in G
  <2>1. Kind(toks, i) = "!" => U[i + 1] = Operand(toks, hits, all, i + 1, end[i])
    <3> SUFFICES ASSUME Kind(toks, i) = "!"
                 PROVE  U[i + 1] = Operand(toks, hits, all, i + 1, end[i])
      OBVIOUS
    <3>1. i \in 1..n /\ end[i + 1] = end[i] /\ n \in Nat  BY <1>3 DEF IsTokens
    <3>2. m[i + 1] \subseteq m[i] /\ m[i + 1] # m[i]  BY <3>1
    <3>3. i + 1 \in G  BY <1>7, <3>2
    <3> QED  BY <3>1, <3>3
  <2>2. UnaryTurn(U, i, toks, hits, all) = Operand(toks, hits, all, i, end[i])
    <3> DEFINE e == end[i]
    <3>1. Bangs(toks, i, e)  BY <1>2
    <3>2. Inner(U, toks, hits, all, i, e)  BY <2>1 DEF Inner
    <3> HIDE DEF e, G, m
    <3>3. UnaryTurn(U, i, toks, hits, all) = Operand(toks, hits, all, i, e)
      BY <3>1, <3>2, OperandStep
    <3> QED  BY <3>3 DEF e
  <2>3. U[i] = UnaryTurn(U, i, toks, hits, all)  BY <1>6
  <2> QED  BY <2>2, <2>3
<1>8. Nat \subseteq G
  <2>0. n \in Nat  BY DEF IsTokens
  <2>1. IsFiniteSet(0..n)  BY <2>0, FS_Interval
  <2>2. \A i \in Nat : m[i] \in SUBSET (0..n)  BY <2>0
  <2>3. Inductive(G, Nat, m, 0..n)
    <3> HIDE DEF G, m
    <3> QED  BY <1>7, <2>2 DEF Inductive
  <2> HIDE DEF G, m
  <2> QED  BY <2>1, <2>3, LoopInduction
<1>9. end[j] = k
  <2>1. Bangs(toks, j, end[j])  BY <1>2
  <2> QED  BY <2>1, BangsOnce
<1> QED  BY <1>1, <1>8, <1>9

(* A token that stands where the grammar lets it, and one that asks for    *)
(* event e.                                                                *)
Stands(toks, i) ==
  CASE Kind(toks, i) = "term" -> ~TermRefused(toks[i].text)
    [] Kind(toks, i) = "!"    -> StartsOperand(toks, i + 1)
    [] OTHER -> Kind(toks, i - 1) = "term" /\ StartsOperand(toks, i + 1)
Asks(toks, hits, i, e) ==
  toks[i].kind = "term" => ((e \in hits[i]) <=> Negations(toks, i) % 2 = 0)

LEMMA WellFormedIs ==
  ASSUME NEW toks, IsTokens(toks)
  PROVE  WellFormed(toks) <=> Len(toks) # 0 /\ \A i \in 1..Len(toks) : Stands(toks, i)
<1>1. toks = <<>> <=> Len(toks) = 0
  <2>1. ASSUME Len(toks) = 0 PROVE toks = <<>>
    BY <2>1 DEF IsTokens
  <2> QED  BY <2>1
<1>2. \A i \in 1..Len(toks) : Kind(toks, i) = toks[i].kind  BY KindIs
<1>3. DOMAIN toks = 1..Len(toks)  BY DEF IsTokens
<1> QED  BY <1>1, <1>2, <1>3 DEF WellFormed, Stands

(* An operand begins at j: it is one, up to a term k, or the expression is *)
(* not well-formed.                                                        *)
OperandAt(toks, hits, all, j, k, r) ==
  /\ k \in j..Len(toks) /\ Kind(toks, k) = "term" /\ r # Failed /\ r.at = k + 1
  /\ \A i \in j..k-1 : Kind(toks, i) = "!"
  /\ \A i \in j..k : Stands(toks, i)
  /\ r.found = {e \in all : Asks(toks, hits, k, e)}

LEMMA OperandIs ==
  ASSUME NEW all, NEW toks, IsTokens(toks), NEW hits \in [1..Len(toks) -> SUBSET all],
         NEW j \in 1..Len(toks)+1, Kind(toks, j - 1) # "!",
         Kind(toks, j - 1) \in {"&", "|", "end"} \/ StartsOperand(toks, j)
  PROVE  \/ Unary(toks, hits, all, j) = Failed /\ ~WellFormed(toks)
         \/ \E k : OperandAt(toks, hits, all, j, k, Unary(toks, hits, all, j))
<1> DEFINE n == Len(toks)  r == Unary(toks, hits, all, j)
<1>1. n \in Nat /\ j \in Nat  BY DEF IsTokens
<1>2. PICK k \in Nat : Bangs(toks, j, k)  BY <1>1, BangsEnd
<1>3. j <= k /\ Kind(toks, k) # "!" /\ \A i \in j..k-1 : Kind(toks, i) = "!"  BY <1>2 DEF Bangs
<1>4. r = Operand(toks, hits, all, j, k)  BY <1>1, <1>2, UnaryIs
<1> HIDE DEF r
<1>5. CASE Good(toks, k)
  <2>1. k \in j..n /\ Kind(toks, k) = "term"  BY <1>1, <1>3, <1>5, KindIs DEF Good
  <2>2. r = Parsed(k + 1, Negated(hits, all, k - j, k))  BY <1>4, <1>5 DEF Operand
  <2>3. r # Failed /\ r.at = k + 1 /\ r.found = Negated(hits, all, k - j, k)
    <3> DEFINE X == Negated(hits, all, k - j, k)
    <3>1. r = Parsed(k + 1, X)  BY <2>2
    <3> HIDE DEF X
    <3>2. Parsed(k + 1, X) # Failed  BY ParsedIs
    <3>3. k + 1 \in Nat  OBVIOUS
    <3>4. Parsed(k + 1, X).at = k + 1 /\ Parsed(k + 1, X).found = X  BY <3>3, ParsedIs
    <3> QED  BY <3>1, <3>2, <3>4 DEF X
  <2>4. ASSUME NEW i \in j..k PROVE Stands(toks, i)
    <3>1. CASE i = k  BY <1>5, <2>1, <3>1 DEF Good, Stands
    <3>2. CASE i # k
      <4>1. i \in j..k-1  BY <1>1, <3>2
      <4>2. i + 1 = k \/ i + 1 \in j..k-1  BY <4>1
      <4>3. Kind(toks, i) = "!" /\ Kind(toks, i + 1) \in {"term", "!"}  BY <1>3, <2>1, <4>1, <4>2
      <4> QED  BY <4>3 DEF Stands, StartsOperand
    <3> QED  BY <3>1, <3>2
  <2>5. Negations(toks, k) = k - j
    <3> DEFINE Run(m) == /\ \A i \in k-m..k-1 : toks[i].kind = "!"
                         /\ Kind(toks, k - m - 1) # "!"
    <3>1. \A i \in 1..n : Kind(toks, i) = toks[i].kind  BY KindIs
    <3>2. k - j \in 0..k-1 /\ k - (k - j) = j /\ k - (k - j) - 1 = j - 1  BY <1>1, <2>1
    <3>3. \A i \in j..k-1 : i \in 1..n  BY <1>1, <2>1
    <3>4. Run(k - j)  BY <1>3, <3>1, <3>2, <3>3
    <3>5. ASSUME NEW m \in 0..k-1, Run(m) PROVE m = k - j
      <4>1. ~(m < k - j)
        <5> SUFFICES ASSUME m < k - j PROVE FALSE  OBVIOUS
        <5>1. k - m - 1 \in j..k-1  BY <1>1, <2>1
        <5> QED  BY <1>3, <3>5, <5>1
      <4>2. ~(m > k - j)
        <5> SUFFICES ASSUME m > k - j PROVE FALSE  OBVIOUS
        <5>1. j - 1 \in k-m..k-1 /\ j - 1 \in 1..n  BY <1>1, <2>1
        <5> QED  BY <3>1, <3>5, <5>1
      <4> QED  BY <1>1, <2>1, <4>1, <4>2
    <3>6. Negations(toks, k) = CHOOSE m \in 0..k-1 : Run(m)  BY DEF Negations
    <3> HIDE DEF Run
    <3> QED  BY <3>2, <3>4, <3>5, <3>6
  <2>6. r.found = {e \in all : Asks(toks, hits, k, e)}
    <3> DEFINE d == k - j  H == hits[k]
    <3>1. H \in SUBSET all /\ toks[k].kind = "term"  BY <1>1, <2>1, KindIs
    <3> HIDE DEF d
    <3> QED  BY <2>3, <2>5, <3>1 DEF Asks, Negated, d
  <2>7. OperandAt(toks, hits, all, j, k, r)
    BY <1>3, <2>1, <2>3, <2>4, <2>6 DEF OperandAt
  <2> QED  BY <2>7 DEF r
<1>6. CASE ~Good(toks, k)
  <2>1. r = Failed  BY <1>4, <1>6 DEF Operand
  <2>2. ~WellFormed(toks)
    <3> SUFFICES ASSUME WellFormed(toks) PROVE FALSE  OBVIOUS
    <3>1. n # 0 /\ \A i \in 1..n : Stands(toks, i)  BY WellFormedIs
    <3>2. CASE Kind(toks, k) = "term"
      <4>1. k \in 1..n  BY <3>2, KindIs
      <4> QED  BY <1>6, <3>1, <3>2, <4>1 DEF Stands, Good
    <3>3. CASE Kind(toks, k) # "term" /\ k # j
      <4>1. k - 1 \in j..k-1  BY <1>1, <1>3, <3>3
      <4>2. Kind(toks, k - 1) = "!"  BY <1>3, <4>1
      <4>3. k - 1 \in 1..n /\ (k - 1) + 1 = k  BY <4>2, KindIs
      <4>4. StartsOperand(toks, k)  BY <3>1, <4>2, <4>3 DEF Stands
      <4> QED  BY <1>3, <3>3, <4>4 DEF StartsOperand
    <3>4. CASE Kind(toks, k) # "term" /\ k = j
      <4>1. ~StartsOperand(toks, j)  BY <1>3, <3>4 DEF StartsOperand
      <4>2. CASE j = 1
        <5>1. 1 \in 1..n /\ Kind(toks, 1) # "term" /\ Kind(toks, 1) # "!"
          BY <1>1, <1>3, <3>1, <3>4, <4>2
        <5>2. Kind(toks, 1 - 1) = "end"  BY KindIs
        <5> QED  BY <3>1, <5>1, <5>2 DEF Stands
      <4>3. CASE j # 1
        <5>1. j - 1 \in 1..n /\ (j - 1) + 1 = j  BY <1>1, <4>3
        <5>2. Kind(toks, j - 1) # "end" /\ Kind(toks, j - 1) # "term"
          BY <4>1, <5>1, KindIs
        <5>3. StartsOperand(toks, j)  BY <3>1, <5>1, <5>2 DEF Stands
        <5> QED  BY <4>1, <5>3
      <4> QED  BY <4>2, <4>3
    <3> QED  BY <3>2, <3>3, <3>4
  <2> QED  BY <2>1, <2>2 DEF r
<1> QED  BY <1>5, <1>6

(* The loops of parseAnd and parseOr: from a parse l that is no stop, one  *)
(* turn answers nxt[l].                                                    *)
Parses(all) == [at : Nat, found : SUBSET all]
Loop(f, all, stop, nxt) ==
  f = [l \in Parses(all) |-> IF l \in stop THEN l ELSE
                             IF nxt[l] = Failed THEN Failed ELSE f[nxt[l]]]

LEMMA ParseLoop ==
  ASSUME NEW all, NEW stop, NEW nxt, Failed \in stop,
         \A l \in Parses(all) \ stop : nxt[l] \in Parses(all)
  PROVE  \E f : Loop(f, all, stop, nxt)
<1> DEFINE D == Parses(all)  id == [l \in D |-> l]
<1>1. PICK f : Runs(f, D, stop, id, nxt)  BY LoopExists
<1>2. Failed \in D  BY DEF Failed, Parsed, Parses
<1>3. f = [l \in D |-> IF l \in stop THEN id[l] ELSE f[nxt[l]]]  BY <1>1 DEF Runs
<1>4. f[Failed] = Failed  BY <1>2, <1>3
<1>5. f = [l \in D |-> f[l]]  BY <1>3
<1>6. ASSUME NEW l \in D
      PROVE  f[l] = IF l \in stop THEN l ELSE IF nxt[l] = Failed THEN Failed ELSE f[nxt[l]]
  <2>1. f[l] = IF l \in stop THEN l ELSE f[nxt[l]]  BY <1>3
  <2> QED  BY <1>4, <2>1
<1> HIDE DEF D
<1> QED  BY <1>5, <1>6 DEF Loop, D

LEMMA UnaryGoes ==
  ASSUME NEW all, NEW toks, IsTokens(toks), NEW hits \in [1..Len(toks) -> SUBSET all],
         NEW j \in Nat
  PROVE  LET r == Unary(toks, hits, all, j) IN
         /\ r \in Parses(all)
         /\ r # Failed => r.at \in j+1..Len(toks)+1
<1> DEFINE r == Unary(toks, hits, all, j)
<1>1. PICK k \in Nat : Bangs(toks, j, k)  BY BangsEnd
<1>2. r = Operand(toks, hits, all, j, k)  BY <1>1, UnaryIs
<1>3. Failed \in Parses(all)  BY DEF Failed, Parsed, Parses
<1> HIDE DEF r
<1>4. CASE Good(toks, k)
  <2>1. k \in 1..Len(toks) /\ j <= k /\ Len(toks) \in Nat
    BY <1>1, <1>4, KindIs DEF Good, Bangs, IsTokens
  <2> DEFINE X == Negated(hits, all, k - j, k)
  <2>2. X \in SUBSET all  BY <2>1 DEF Negated
  <2>3. r = Parsed(k + 1, X)  BY <1>2, <1>4 DEF Operand
  <2> HIDE DEF X
  <2>4. r.at = k + 1 /\ r \in Parses(all)  BY <2>2, <2>3 DEF Parsed, Parses
  <2> QED  BY <2>1, <2>4 DEF r
<1>5. CASE ~Good(toks, k)
  BY <1>2, <1>3, <1>5 DEF Operand, r
<1> QED  BY <1>4, <1>5

(* parseAnd.  From one operand to the next: the tokens from i up to l.at   *)
(* stand as they may, and found are the events each of them asks for.      *)
AndStop(toks, all) == {l \in Parses(all) : l.at = 0 \/ Kind(toks, l.at) \in {"|", "end"}}
Next1(toks, at) == IF Kind(toks, at) = "&" THEN at + 1 ELSE at
AndNext(toks, hits, all) ==
  [l \in Parses(all) |->
     LET r == Unary(toks, hits, all, Next1(toks, l.at))
     IN IF r = Failed THEN Failed ELSE Parsed(r.at, l.found \cap r.found)]
AndState(toks, hits, all, i, l) ==
  /\ l \in Parses(all) /\ l.at \in i+1..Len(toks)+1 /\ Kind(toks, l.at - 1) = "term"
  /\ \A t \in i..l.at-1 : Kind(toks, t) # "|" /\ Stands(toks, t)
  /\ l.found = {e \in all : \A t \in i..l.at-1 : Asks(toks, hits, t, e)}

LEMMA AndLoop ==
  ASSUME NEW all, NEW toks, IsTokens(toks), NEW hits \in [1..Len(toks) -> SUBSET all]
  PROVE  \E f : /\ Loop(f, all, AndStop(toks, all), AndNext(toks, hits, all))
                /\ \A first : AndFrom(toks, hits, all, first) = f[first]
<1> DEFINE D == Parses(all)  nxt == AndNext(toks, hits, all)  stop == AndStop(toks, all)
           F(f) == [l \in D |->
                      IF l.at = 0 \/ Kind(toks, l.at) \in {"|", "end"} THEN l
                      ELSE LET r == Unary(toks, hits, all, Next1(toks, l.at))
                           IN IF r = Failed THEN Failed ELSE f[Parsed(r.at, l.found \cap r.found)]]
           f0 == CHOOSE f : f = F(f)
<1>1. \A first : AndFrom(toks, hits, all, first) = f0[first]  BY DEF AndFrom, Next1, Parses
<1>2. ASSUME NEW l \in D
      PROVE  /\ nxt[l] \in D
             /\ LET r == Unary(toks, hits, all, Next1(toks, l.at)) IN
                nxt[l] = Failed <=> r = Failed
  <2> DEFINE r == Unary(toks, hits, all, Next1(toks, l.at))
  <2>1. Next1(toks, l.at) \in Nat /\ l.found \in SUBSET all  BY DEF Next1, Parses
  <2>2. r \in D /\ (r # Failed => r.at \in Next1(toks, l.at)+1..Len(toks)+1)  BY <2>1, UnaryGoes
  <2>3. nxt[l] = IF r = Failed THEN Failed ELSE Parsed(r.at, l.found \cap r.found)  BY DEF AndNext
  <2> HIDE DEF r, nxt
  <2>4. CASE r = Failed  BY <2>2, <2>3, <2>4 DEF r
  <2>5. CASE r # Failed
    <3>1. r.at \in Nat /\ r.at # 0 /\ r.found \in SUBSET all
      BY <2>1, <2>2, <2>5 DEF IsTokens, Parses
    <3>2. nxt[l] \in D /\ nxt[l].at = r.at  BY <2>1, <2>3, <2>5, <3>1 DEF Parsed, Parses
    <3>3. nxt[l] # Failed  BY <3>1, <3>2, ParsedIs
    <3> QED  BY <2>5, <3>2, <3>3 DEF r
  <2> QED  BY <2>4, <2>5
<1>3. Failed \in stop  BY ParsedIs DEF AndStop, Failed, Parsed, Parses
<1>4. ASSUME NEW f PROVE f = F(f) <=> Loop(f, all, stop, nxt)
  <2> DEFINE G == [l \in D |-> IF l \in stop THEN l ELSE
                               IF nxt[l] = Failed THEN Failed ELSE f[nxt[l]]]
  <2>1. ASSUME NEW l \in D PROVE F(f)[l] = G[l]
    <3>1. l \in stop <=> l.at = 0 \/ Kind(toks, l.at) \in {"|", "end"}  BY DEF AndStop
    <3> DEFINE r == Unary(toks, hits, all, Next1(toks, l.at))
    <3>2. nxt[l] = Failed <=> r = Failed  BY <1>2
    <3>3. nxt[l] = IF r = Failed THEN Failed ELSE Parsed(r.at, l.found \cap r.found)  BY DEF AndNext
    <3>4. F(f)[l] = IF l.at = 0 \/ Kind(toks, l.at) \in {"|", "end"} THEN l
                    ELSE IF r = Failed THEN Failed ELSE f[Parsed(r.at, l.found \cap r.found)]
      OBVIOUS
    <3>5. G[l] = IF l \in stop THEN l ELSE IF nxt[l] = Failed THEN Failed ELSE f[nxt[l]]  OBVIOUS
    <3> HIDE DEF F, G, r, nxt, stop, D
    <3> QED  BY <3>1, <3>2, <3>3, <3>4, <3>5
  <2>2. F(f) = [l \in D |-> F(f)[l]] /\ G = [l \in D |-> G[l]]  OBVIOUS
  <2>3. Loop(f, all, stop, nxt) <=> f = G  BY DEF Loop
  <2> HIDE DEF F, G, D
  <2>4. F(f) = G  BY <2>1, <2>2
  <2> QED  BY <2>3, <2>4
<1>5. \E f : Loop(f, all, stop, nxt)
  <2> HIDE DEF D, nxt, stop
  <2> QED  BY <1>2, <1>3, ParseLoop DEF D
<1>6. \E f : f = F(f)
  <2> HIDE DEF F, nxt, stop
  <2> QED  BY <1>4, <1>5
<1>7. f0 = F(f0)
  <2> HIDE DEF F
  <2> QED  BY <1>6
<1>8. Loop(f0, all, stop, nxt)
  <2> HIDE DEF F, f0, nxt, stop
  <2> QED  BY <1>4, <1>7
<1> HIDE DEF f0, F
<1> QED  BY <1>1, <1>8

(* A turn leads from one operand to the next, or stops at an error the     *)
(* expression has.                                                         *)
LEMMA AndTurn ==
  ASSUME NEW all, NEW toks, IsTokens(toks), NEW hits \in [1..Len(toks) -> SUBSET all],
         NEW i \in 1..Len(toks)+1, NEW l, AndState(toks, hits, all, i, l),
         l \notin AndStop(toks, all)
  PROVE  LET x == AndNext(toks, hits, all)[l] IN
         \/ x = Failed /\ ~WellFormed(toks)
         \/ x # Failed /\ AndState(toks, hits, all, i, x) /\ l.at < x.at
<1> DEFINE n == Len(toks)  x == AndNext(toks, hits, all)[l]
           j == Next1(toks, l.at)  r == Unary(toks, hits, all, j)
<1>1. /\ l \in Parses(all) /\ l.at \in i+1..n+1 /\ Kind(toks, l.at - 1) = "term"
      /\ Kind(toks, l.at) \notin {"|", "end"} /\ n \in Nat
  BY DEF AndState, AndStop, IsTokens
<1>2. l.at \in 1..n /\ Kind(toks, l.at) \in {"&", "!", "term"}  BY <1>1, KindIs
<1>3. /\ j \in 1..n+1 /\ j \in Nat /\ (j = l.at \/ (j = l.at + 1 /\ Kind(toks, l.at) = "&"))
      /\ Kind(toks, j - 1) # "!"
      /\ Kind(toks, j - 1) \in {"&", "|", "end"} \/ StartsOperand(toks, j)
  <2>1. CASE Kind(toks, l.at) = "&"
    <3>1. j = l.at + 1 /\ j - 1 = l.at  BY <1>2, <2>1 DEF Next1
    <3> HIDE DEF j
    <3> QED  BY <1>1, <1>2, <2>1, <3>1
  <2>2. CASE Kind(toks, l.at) # "&"
    <3>1. j = l.at  BY <2>2 DEF Next1
    <3> HIDE DEF j
    <3> QED  BY <1>1, <1>2, <2>2, <3>1 DEF StartsOperand
  <2> QED  BY <2>1, <2>2
<1> HIDE DEF j
<1>4. r \in Parses(all)  BY <1>3, UnaryGoes
<1>5. x = IF r = Failed THEN Failed ELSE Parsed(r.at, l.found \cap r.found)  BY <1>1 DEF AndNext, j
<1>6. CASE r = Failed /\ ~WellFormed(toks)  BY <1>5, <1>6
<1>7. CASE \E k : OperandAt(toks, hits, all, j, k, r)
  <2>1. PICK k : OperandAt(toks, hits, all, j, k, r)  BY <1>7
  <2> HIDE DEF r, x
  <2>2. /\ k \in j..n /\ Kind(toks, k) = "term" /\ r # Failed /\ r.at = k + 1
        /\ \A t \in j..k-1 : Kind(toks, t) = "!"
        /\ \A t \in j..k : Stands(toks, t)
        /\ r.found = {e \in all : Asks(toks, hits, k, e)}
    BY <2>1 DEF OperandAt
  <2>3. x = Parsed(k + 1, l.found \cap r.found)  BY <1>5, <2>2
  <2>4. x.at = k + 1 /\ x.found = l.found \cap r.found /\ x # Failed /\ x \in Parses(all)
    <3> DEFINE X == l.found \cap r.found
    <3>1. X \in SUBSET all /\ k + 1 \in Nat /\ k \in Nat  BY <1>1, <1>3, <2>2 DEF Parses
    <3>2. x = Parsed(k + 1, X)  BY <2>3
    <3> HIDE DEF X
    <3>3. Parsed(k + 1, X).at = k + 1 /\ Parsed(k + 1, X).found = X /\ Parsed(k + 1, X) # Failed
      BY <3>1, ParsedIs
    <3>4. Parsed(k + 1, X) \in Parses(all)  BY <3>1 DEF Parsed, Parses
    <3> QED  BY <3>2, <3>3, <3>4 DEF X
  <2>5. \A t \in i..k : t \in i..l.at-1 \/ (t = l.at /\ j = l.at + 1) \/ t \in j..k-1 \/ t = k
    BY <1>1, <1>3, <2>2
  <2>6. ASSUME j = l.at + 1, j # l.at
        PROVE  Kind(toks, l.at) = "&" /\ Stands(toks, l.at)
    <3>1. Kind(toks, l.at) = "&" /\ Kind(toks, l.at - 1) = "term"  BY <1>1, <1>3, <2>6
    <3>2. j = k \/ j \in j..k-1  BY <1>3, <2>2
    <3>3. StartsOperand(toks, l.at + 1)  BY <2>2, <2>6, <3>2 DEF StartsOperand
    <3> QED  BY <3>1, <3>3 DEF Stands
  <2>7. ASSUME NEW t \in i..k PROVE Kind(toks, t) # "|" /\ Stands(toks, t)
    <3>1. CASE t \in i..l.at-1  BY <3>1 DEF AndState
    <3>2. CASE t = l.at /\ j = l.at + 1  BY <1>1, <2>6, <3>2
    <3>3. CASE t \in j..k-1  BY <1>3, <2>2, <3>3
    <3>4. CASE t = k  BY <1>3, <2>2, <3>4
    <3> QED  BY <2>5, <3>1, <3>2, <3>3, <3>4
  <2>8. ASSUME NEW e \in all
        PROVE  (\A t \in i..k : Asks(toks, hits, t, e))
                <=> (\A t \in i..l.at-1 : Asks(toks, hits, t, e)) /\ Asks(toks, hits, k, e)
    <3>1. \A t \in i..l.at-1 : t \in i..k  BY <1>1, <1>3, <2>2
    <3>2. k \in i..k  BY <1>1, <1>3, <2>2
    <3>3. ASSUME NEW t \in j..k-1 PROVE Asks(toks, hits, t, e)
      <4>1. t \in 1..n  BY <1>3, <2>2
      <4>2. toks[t].kind = "!"  BY <2>2, <4>1, KindIs
      <4> QED  BY <4>2 DEF Asks
    <3>4. ASSUME j = l.at + 1 PROVE Asks(toks, hits, l.at, e)
      <4>1. j # l.at  BY <1>2, <3>4
      <4>2. toks[l.at].kind = "&"  BY <1>2, <2>6, <3>4, <4>1, KindIs
      <4> QED  BY <4>2 DEF Asks
    <3> QED  BY <2>5, <3>1, <3>2, <3>3, <3>4
  <2>9. x.found = {e \in all : \A t \in i..k : Asks(toks, hits, t, e)}
    <3>1. l.found = {e \in all : \A t \in i..l.at-1 : Asks(toks, hits, t, e)}  BY DEF AndState
    <3> QED  BY <2>2, <2>4, <2>8, <3>1
  <2>10. x.at \in i+1..n+1 /\ x.at - 1 = k /\ l.at < x.at  BY <1>1, <1>3, <2>2, <2>4
  <2>11. AndState(toks, hits, all, i, x)  BY <2>2, <2>4, <2>7, <2>9, <2>10 DEF AndState
  <2> QED  BY <2>4, <2>10, <2>11 DEF x
<1>8. \/ r = Failed /\ ~WellFormed(toks)
      \/ \E k : OperandAt(toks, hits, all, j, k, r)
  BY <1>3, OperandIs
<1> QED  BY <1>6, <1>7, <1>8

(* An alternative begins at i: it is one, or the expression is not         *)
(* well-formed.                                                            *)
ConjunctionAnswers(toks, hits, all, i, r) ==
  \/ r = Failed /\ ~WellFormed(toks)
  \/ r # Failed /\ AndState(toks, hits, all, i, r) /\ Kind(toks, r.at) \in {"|", "end"}

LEMMA ConjunctionIs ==
  ASSUME NEW all, NEW toks, IsTokens(toks), NEW hits \in [1..Len(toks) -> SUBSET all],
         NEW i \in 1..Len(toks)+1, Kind(toks, i - 1) \in {"|", "end"}
  PROVE  ConjunctionAnswers(toks, hits, all, i, Conjunction(toks, hits, all, i))
<1> DEFINE n == Len(toks)  D == Parses(all)  u == Unary(toks, hits, all, i)
           stop == AndStop(toks, all)  nxt == AndNext(toks, hits, all)
<1>1. n \in Nat /\ i \in Nat  BY DEF IsTokens
<1>2. PICK f : /\ Loop(f, all, stop, nxt)
               /\ \A first : AndFrom(toks, hits, all, first) = f[first]
  BY AndLoop
<1>3. Conjunction(toks, hits, all, i) = f[u]  BY <1>2 DEF Conjunction
<1>4. \A l \in D : f[l] = IF l \in stop THEN l ELSE
                           IF nxt[l] = Failed THEN Failed ELSE f[nxt[l]]
  <2> HIDE DEF nxt, stop
  <2> QED  BY <1>2 DEF Loop
<1>5. Failed \in D /\ Failed \in stop  BY ParsedIs DEF AndStop, Failed, Parsed, Parses
<1> DEFINE E == {l \in D : AndState(toks, hits, all, i, l)}
           G == {l \in E : ConjunctionAnswers(toks, hits, all, i, f[l])}
           m == [l \in E |-> l.at..n]
<1>6. ASSUME NEW l \in E, \A y \in E : m[y] \subseteq m[l] /\ m[y] # m[l] => y \in G
      PROVE  l \in G
  <2>1. l.at \in i+1..n+1 /\ AndState(toks, hits, all, i, l)  BY DEF AndState
  <2>2. CASE l \in stop
    <3>1. Kind(toks, l.at) \in {"|", "end"}  BY <1>1, <2>1, <2>2 DEF AndStop
    <3>2. f[l] = l  BY <1>4, <2>2
    <3>3. l # Failed  BY <1>1, <2>1, ParsedIs
    <3> QED  BY <2>1, <3>1, <3>2, <3>3 DEF ConjunctionAnswers
  <2>3. CASE l \notin stop
    <3> DEFINE x == nxt[l]
    <3>1. \/ x = Failed /\ ~WellFormed(toks)
          \/ x # Failed /\ AndState(toks, hits, all, i, x) /\ l.at < x.at
      BY <2>1, <2>3, AndTurn
    <3>2. f[l] = IF x = Failed THEN Failed ELSE f[x]  BY <1>4, <2>3
    <3> HIDE DEF x
    <3>3. CASE x = Failed  BY <3>1, <3>2, <3>3 DEF ConjunctionAnswers
    <3>4. CASE x # Failed
      <4>1. AndState(toks, hits, all, i, x) /\ x \in E  BY <3>1, <3>4 DEF AndState
      <4>2. x.at \in i+1..n+1  BY <4>1 DEF AndState
      <4>3. m[x] = x.at..n /\ m[l] = l.at..n  BY <4>1
      <4>4. x.at \in Nat /\ l.at \in Nat /\ l.at < x.at /\ l.at <= n
        BY <1>1, <2>1, <3>1, <3>4, <4>2
      <4>5. m[x] \subseteq m[l] /\ m[x] # m[l]
        <5> HIDE DEF m, E
        <5> QED  BY <1>1, <4>3, <4>4
      <4>6. x \in G  BY <1>6, <4>1, <4>5
      <4> QED  BY <3>2, <3>4, <4>6
    <3> QED  BY <3>3, <3>4
  <2> QED  BY <2>2, <2>3
<1>7. E \subseteq G
  <2>1. IsFiniteSet(0..n)  BY <1>1, FS_Interval
  <2>2. \A l \in E : m[l] \in SUBSET (0..n)  BY <1>1 DEF AndState
  <2>3. Inductive(G, E, m, 0..n)
    <3> HIDE DEF G, m, E
    <3> QED  BY <1>6, <2>2 DEF Inductive
  <2> HIDE DEF G, m, E
  <2> QED  BY <2>1, <2>3, LoopInduction
<1>8. Kind(toks, i - 1) # "!"  OBVIOUS
<1>9. CASE u = Failed /\ ~WellFormed(toks)
  <2>1. f[u] = Failed  BY <1>4, <1>5, <1>9
  <2> QED  BY <1>3, <1>9, <2>1 DEF ConjunctionAnswers
<1>10. CASE \E k : OperandAt(toks, hits, all, i, k, u)
  <2>1. PICK k : OperandAt(toks, hits, all, i, k, u)  BY <1>10
  <2>2. u \in D  BY <1>1, UnaryGoes
  <2> HIDE DEF u
  <2>3. /\ k \in i..n /\ Kind(toks, k) = "term" /\ u.at = k + 1
        /\ \A t \in i..k-1 : Kind(toks, t) = "!"
        /\ \A t \in i..k : Stands(toks, t)
        /\ u.found = {e \in all : Asks(toks, hits, k, e)}
    BY <2>1 DEF OperandAt
  <2>4. ASSUME NEW t \in i..k-1, NEW e PROVE Asks(toks, hits, t, e)
    <3>1. t \in 1..n  BY <1>1, <2>3
    <3>2. toks[t].kind = "!"  BY <2>3, <3>1, KindIs
    <3> QED  BY <3>2 DEF Asks
  <2>5. \A t \in i..k : t \in i..k-1 \/ t = k  BY <1>1, <2>3
  <2>6. k \in i..k  BY <1>1, <2>3
  <2>7. u.found = {e \in all : \A t \in i..k : Asks(toks, hits, t, e)}  BY <2>3, <2>4, <2>5, <2>6
  <2>8. \A t \in i..k : Kind(toks, t) # "|"  BY <2>3, <2>5
  <2>9. u.at - 1 = k /\ u.at \in i+1..n+1  BY <1>1, <2>3
  <2>10. AndState(toks, hits, all, i, u)  BY <2>2, <2>3, <2>7, <2>8, <2>9 DEF AndState
  <2>11. u \in G  BY <1>7, <2>2, <2>10
  <2> QED  BY <1>3, <2>11
<1>11. \/ u = Failed /\ ~WellFormed(toks)
       \/ \E k : OperandAt(toks, hits, all, i, k, u)
  BY <1>8, OperandIs
<1> QED  BY <1>9, <1>10, <1>11

(* parseOr.  The alternatives that end before l.at, and what they find.    *)
Before(toks, at) == {alt \in Alternatives(toks) : alt[2] < at}
AskedBy(toks, hits, all, i, k) == {e \in all : \A t \in i..k : Asks(toks, hits, t, e)}
FoundBy(toks, hits, all, alts) ==
  {e \in all : \E alt \in alts : \A t \in alt[1]..alt[2] : Asks(toks, hits, t, e)}
OrStop(toks, all) == {l \in Parses(all) : l.at = 0 \/ Kind(toks, l.at) # "|"}
OrNext(toks, hits, all) ==
  [l \in Parses(all) |->
     LET r == Conjunction(toks, hits, all, l.at + 1)
     IN IF r = Failed THEN Failed ELSE Parsed(r.at, l.found \cup r.found)]
OrState(toks, hits, all, l) ==
  /\ l \in Parses(all) /\ l.at \in 2..Len(toks)+1 /\ Kind(toks, l.at - 1) = "term"
  /\ Kind(toks, l.at) \in {"|", "end"}
  /\ \A t \in 1..l.at-1 : Stands(toks, t)
  /\ l.found = FoundBy(toks, hits, all, Before(toks, l.at))

(* One alternative more.                                                   *)
LEMMA OneMore ==
  ASSUME NEW all, NEW toks, IsTokens(toks), NEW hits, NEW i \in 1..Len(toks)+1,
         Kind(toks, i - 1) \in {"|", "end"}, NEW r, AndState(toks, hits, all, i, r),
         Kind(toks, r.at) \in {"|", "end"}
  PROVE  Before(toks, r.at) = Before(toks, i - 1) \cup {<<i, r.at - 1>>}
<1> DEFINE n == Len(toks)
<1>1. /\ n \in Nat /\ i \in Nat /\ r.at \in i+1..n+1 /\ DOMAIN toks = 1..n
      /\ \A t \in i..r.at-1 : Kind(toks, t) # "|"
  BY DEF IsTokens, AndState
<1>2. \A t \in 1..n : Kind(toks, t) = toks[t].kind /\ Kind(toks, t) # "end"  BY KindIs
<1>3. <<i, r.at - 1>> \in Before(toks, r.at)
  <2> DEFINE alt == <<i, r.at - 1>>
  <2>1. alt[1] = i /\ alt[2] = r.at - 1 /\ alt[2] + 1 = r.at  BY <1>1
  <2>2. alt \in (DOMAIN toks) \X (DOMAIN toks) /\ alt[1] <= alt[2] /\ alt[2] < r.at  BY <1>1
  <2>3. \A t \in alt[1]..alt[2] : toks[t].kind # "|"  BY <1>1, <1>2
  <2> HIDE DEF alt
  <2>4. Kind(toks, alt[1] - 1) \in {"|", "end"} /\ Kind(toks, alt[2] + 1) \in {"|", "end"}
    BY <2>1
  <2> QED  BY <2>2, <2>3, <2>4 DEF Before, Alternatives, alt
<1>4. ASSUME NEW alt \in Before(toks, r.at), alt \notin Before(toks, i - 1)
      PROVE  alt = <<i, r.at - 1>>
  <2>1. /\ alt \in (1..n) \X (1..n) /\ alt[1] \in 1..n /\ alt[2] \in 1..n /\ alt[1] <= alt[2]
        /\ alt[2] < r.at /\ ~(alt[2] < i - 1)
        /\ \A t \in alt[1]..alt[2] : toks[t].kind # "|"
        /\ Kind(toks, alt[1] - 1) \in {"|", "end"}
        /\ Kind(toks, alt[2] + 1) \in {"|", "end"}
    BY <1>1, <1>4 DEF Before, Alternatives
  <2> DEFINE a == alt[1]  b == alt[2]
  <2> HIDE DEF a, b
  <2>2. ~(a < i)
    <3> SUFFICES ASSUME a < i PROVE FALSE  OBVIOUS
    <3>1. i - 1 \in a..b /\ i - 1 \in 1..n  BY <1>1, <2>1 DEF a, b
    <3>2. toks[i - 1].kind = "|"  BY <1>2, <3>1
    <3> QED  BY <2>1, <3>1, <3>2 DEF a, b
  <2>3. ~(a > i)
    <3> SUFFICES ASSUME a > i PROVE FALSE  OBVIOUS
    <3>1. a - 1 \in i..r.at-1 /\ a - 1 \in 1..n  BY <1>1, <2>1 DEF a, b
    <3> QED  BY <1>1, <1>2, <2>1, <3>1 DEF a
  <2>4. ~(b < r.at - 1)
    <3> SUFFICES ASSUME b < r.at - 1 PROVE FALSE  OBVIOUS
    <3>1. b + 1 \in i..r.at-1 /\ b + 1 \in 1..n  BY <1>1, <2>1, <2>2 DEF a, b
    <3> QED  BY <1>1, <1>2, <2>1, <3>1 DEF b
  <2>5. a = i /\ b = r.at - 1  BY <1>1, <2>1, <2>2, <2>3, <2>4 DEF a, b
  <2>6. alt = <<a, b>>  BY <2>1 DEF a, b
  <2> QED  BY <2>5, <2>6
<1>5. Before(toks, i - 1) \subseteq Before(toks, r.at)
  <2>1. \A alt \in Alternatives(toks) : alt[2] \in 1..n  BY <1>1 DEF Alternatives
  <2> QED  BY <1>1, <2>1 DEF Before
<1> QED  BY <1>3, <1>4, <1>5

LEMMA FoundByOneMore ==
  ASSUME NEW all, NEW toks, NEW hits, NEW alts, NEW i, NEW k
  PROVE  FoundBy(toks, hits, all, alts \cup {<<i, k>>})
           = FoundBy(toks, hits, all, alts) \cup AskedBy(toks, hits, all, i, k)
<1>1. ASSUME NEW e
      PROVE  (\E alt \in alts \cup {<<i, k>>} : \A t \in alt[1]..alt[2] : Asks(toks, hits, t, e))
             <=> (\E alt \in alts : \A t \in alt[1]..alt[2] : Asks(toks, hits, t, e))
                 \/ (\A t \in i..k : Asks(toks, hits, t, e))
  <2>1. <<i, k>>[1] = i /\ <<i, k>>[2] = k  OBVIOUS
  <2> QED  BY <2>1
<1> QED  BY <1>1 DEF FoundBy, AskedBy

LEMMA ConjunctionGoes ==
  ASSUME NEW all, NEW toks, IsTokens(toks), NEW hits \in [1..Len(toks) -> SUBSET all],
         NEW i \in 1..Len(toks)+1, Kind(toks, i - 1) \in {"|", "end"}
  PROVE  Conjunction(toks, hits, all, i) \in Parses(all)
<1>1. Failed \in Parses(all)  BY DEF Failed, Parsed, Parses
<1>2. ConjunctionAnswers(toks, hits, all, i, Conjunction(toks, hits, all, i))  BY ConjunctionIs
<1> QED  BY <1>1, <1>2 DEF ConjunctionAnswers, AndState

LEMMA OrLoop ==
  ASSUME NEW all, NEW toks, IsTokens(toks), NEW hits \in [1..Len(toks) -> SUBSET all]
  PROVE  \E f : /\ Loop(f, all, OrStop(toks, all), OrNext(toks, hits, all))
                /\ CompileFilter(toks, hits, all) = f[Conjunction(toks, hits, all, 1)]
<1> DEFINE D == Parses(all)  nxt == OrNext(toks, hits, all)  stop == OrStop(toks, all)
           F(f) == [l \in D |->
                      IF l.at = 0 \/ Kind(toks, l.at) # "|" THEN l
                      ELSE LET r == Conjunction(toks, hits, all, l.at + 1)
                           IN IF r = Failed THEN Failed ELSE f[Parsed(r.at, l.found \cup r.found)]]
           f0 == CHOOSE f : f = F(f)
<1>1. CompileFilter(toks, hits, all) = f0[Conjunction(toks, hits, all, 1)]
  BY DEF CompileFilter, Parses
<1>2. ASSUME NEW l \in D, l \notin stop
      PROVE  /\ nxt[l] \in D
             /\ LET r == Conjunction(toks, hits, all, l.at + 1) IN
                nxt[l] = Failed <=> r = Failed
  <2> DEFINE i == l.at + 1  r == Conjunction(toks, hits, all, i)
  <2>0. l.at \in Nat /\ Kind(toks, l.at) = "|"  BY <1>2 DEF OrStop, Parses
  <2>1. i \in 1..Len(toks)+1 /\ i - 1 = l.at
    <3>1. l.at \in 1..Len(toks) /\ Len(toks) \in Nat  BY <2>0, KindIs DEF IsTokens
    <3> QED  BY <3>1
  <2> HIDE DEF i
  <2>2. ConjunctionAnswers(toks, hits, all, i, r)  BY <2>0, <2>1, ConjunctionIs
  <2>3. r \in D /\ l.found \in SUBSET all  BY <2>0, <2>1, ConjunctionGoes DEF Parses
  <2>4. nxt[l] = IF r = Failed THEN Failed ELSE Parsed(r.at, l.found \cup r.found)
    BY DEF OrNext, i
  <2> HIDE DEF r, nxt
  <2>5. CASE r = Failed  BY <2>3, <2>4, <2>5 DEF r, i
  <2>6. CASE r # Failed
    <3>1. r.at \in Nat /\ r.at # 0 /\ r.found \in SUBSET all
      BY <2>1, <2>2, <2>3, <2>6 DEF IsTokens, Parses, ConjunctionAnswers, AndState
    <3>2. nxt[l] \in D /\ nxt[l].at = r.at  BY <2>3, <2>4, <2>6, <3>1 DEF Parsed, Parses
    <3>3. nxt[l] # Failed  BY <3>1, <3>2, ParsedIs
    <3> QED  BY <2>6, <3>2, <3>3 DEF r, i
  <2> QED  BY <2>5, <2>6
<1>3. Failed \in stop  BY ParsedIs DEF OrStop, Failed, Parsed, Parses
<1>4. ASSUME NEW f PROVE f = F(f) <=> Loop(f, all, stop, nxt)
  <2> DEFINE G == [l \in D |-> IF l \in stop THEN l ELSE
                               IF nxt[l] = Failed THEN Failed ELSE f[nxt[l]]]
  <2>1. ASSUME NEW l \in D PROVE F(f)[l] = G[l]
    <3>1. l \in stop <=> l.at = 0 \/ Kind(toks, l.at) # "|"  BY DEF OrStop
    <3> DEFINE r == Conjunction(toks, hits, all, l.at + 1)
    <3>2. l \notin stop => (nxt[l] = Failed <=> r = Failed)  BY <1>2
    <3>3. nxt[l] = IF r = Failed THEN Failed ELSE Parsed(r.at, l.found \cup r.found)  BY DEF OrNext
    <3>4. F(f)[l] = IF l.at = 0 \/ Kind(toks, l.at) # "|" THEN l
                    ELSE IF r = Failed THEN Failed ELSE f[Parsed(r.at, l.found \cup r.found)]
      OBVIOUS
    <3>5. G[l] = IF l \in stop THEN l ELSE IF nxt[l] = Failed THEN Failed ELSE f[nxt[l]]  OBVIOUS
    <3> HIDE DEF F, G, r, nxt, stop, D
    <3> QED  BY <3>1, <3>2, <3>3, <3>4, <3>5
  <2>2. F(f) = [l \in D |-> F(f)[l]] /\ G = [l \in D |-> G[l]]  OBVIOUS
  <2>3. Loop(f, all, stop, nxt) <=> f = G  BY DEF Loop
  <2> HIDE DEF F, G, D
  <2>4. F(f) = G  BY <2>1, <2>2
  <2> QED  BY <2>3, <2>4
<1>5. \E f : Loop(f, all, stop, nxt)
  <2> HIDE DEF D, nxt, stop
  <2> QED  BY <1>2, <1>3, ParseLoop DEF D
<1>6. \E f : f = F(f)
  <2> HIDE DEF F, nxt, stop
  <2> QED  BY <1>4, <1>5
<1>7. f0 = F(f0)
  <2> HIDE DEF F
  <2> QED  BY <1>6
<1>8. Loop(f0, all, stop, nxt)
  <2> HIDE DEF F, f0, nxt, stop
  <2> QED  BY <1>4, <1>7
<1> HIDE DEF f0, F
<1> QED  BY <1>1, <1>8

LEMMA OrTurn ==
  ASSUME NEW all, NEW toks, IsTokens(toks), NEW hits \in [1..Len(toks) -> SUBSET all],
         NEW l, OrState(toks, hits, all, l), l \notin OrStop(toks, all)
  PROVE  LET x == OrNext(toks, hits, all)[l] IN
         \/ x = Failed /\ ~WellFormed(toks)
         \/ x # Failed /\ OrState(toks, hits, all, x) /\ l.at < x.at
<1> DEFINE n == Len(toks)  x == OrNext(toks, hits, all)[l]
           i == l.at + 1  r == Conjunction(toks, hits, all, i)
<1>1. /\ l \in Parses(all) /\ l.at \in 2..n+1 /\ Kind(toks, l.at - 1) = "term"
      /\ Kind(toks, l.at) = "|" /\ n \in Nat /\ l.found \in SUBSET all
  BY DEF OrState, OrStop, IsTokens, Parses
<1>2. l.at \in 2..n /\ i \in 1..n+1 /\ i - 1 = l.at
  <2>1. l.at \in 1..n  BY <1>1, KindIs
  <2> QED  BY <1>1, <2>1
<1>3. x = IF r = Failed THEN Failed ELSE Parsed(r.at, l.found \cup r.found)  BY <1>1 DEF OrNext
<1> HIDE DEF i
<1>4. ConjunctionAnswers(toks, hits, all, i, r)  BY <1>1, <1>2, ConjunctionIs
<1> HIDE DEF r, x
<1>5. CASE r = Failed /\ ~WellFormed(toks)  BY <1>3, <1>5 DEF x
<1>6. CASE r # Failed /\ AndState(toks, hits, all, i, r) /\ Kind(toks, r.at) \in {"|", "end"}
  <2>1. /\ r \in Parses(all) /\ r.at \in i+1..n+1 /\ Kind(toks, r.at - 1) = "term"
        /\ \A t \in i..r.at-1 : Kind(toks, t) # "|" /\ Stands(toks, t)
        /\ r.found = {e \in all : \A t \in i..r.at-1 : Asks(toks, hits, t, e)}
    BY <1>6 DEF AndState
  <2>2. x.at = r.at /\ x.found = l.found \cup r.found /\ x # Failed /\ x \in Parses(all)
    <3>1. r.at \in Nat /\ r.at # 0 /\ r.found \in SUBSET all  BY <1>2, <2>1 DEF Parses
    <3>2. x = Parsed(r.at, l.found \cup r.found)  BY <1>3, <1>6
    <3>3. x.at = r.at /\ x.found = l.found \cup r.found  BY <3>2 DEF Parsed
    <3>4. x \in Parses(all)  BY <1>1, <3>1, <3>2 DEF Parsed, Parses
    <3> QED  BY <3>1, <3>3, <3>4, ParsedIs
  <2>3. Stands(toks, l.at)
    <3>1. i \in i..r.at-1 /\ i \in 1..n  BY <1>1, <1>2, <2>1
    <3>2. Stands(toks, i) /\ Kind(toks, i) # "|" /\ Kind(toks, i) # "end"  BY <2>1, <3>1, KindIs
    <3>3. Kind(toks, i) \in {"&", "!", "term"}  BY <3>1, <3>2, KindIs
    <3>4. Kind(toks, i) # "&"  BY <1>1, <1>2, <3>2 DEF Stands
    <3>5. StartsOperand(toks, l.at + 1)  BY <3>3, <3>4 DEF StartsOperand, i
    <3> QED  BY <1>1, <3>5 DEF Stands
  <2>4. ASSUME NEW t \in 1..x.at-1 PROVE Stands(toks, t)
    <3>1. t \in 1..l.at-1 \/ t = l.at \/ t \in i..r.at-1  BY <1>2, <2>1, <2>2 DEF i
    <3>2. CASE t \in 1..l.at-1  BY <3>2 DEF OrState
    <3> QED  BY <2>1, <2>3, <3>1, <3>2
  <2>5. x.found = FoundBy(toks, hits, all, Before(toks, x.at))
    <3> DEFINE old == Before(toks, l.at)  k == r.at - 1
    <3>1. Before(toks, r.at) = old \cup {<<i, k>>}
      <4>1. Kind(toks, i - 1) \in {"|", "end"}  BY <1>1, <1>2
      <4>2. Before(toks, r.at) = Before(toks, i - 1) \cup {<<i, r.at - 1>>}
        BY <1>2, <1>6, <4>1, OneMore
      <4> QED  BY <1>2, <4>2
    <3>2. l.found = FoundBy(toks, hits, all, old)  BY DEF OrState
    <3>3. r.found = AskedBy(toks, hits, all, i, k)  BY <2>1 DEF AskedBy
    <3> HIDE DEF old, k
    <3>4. FoundBy(toks, hits, all, old \cup {<<i, k>>})
            = FoundBy(toks, hits, all, old) \cup AskedBy(toks, hits, all, i, k)
      BY FoundByOneMore
    <3> QED  BY <2>2, <3>1, <3>2, <3>3, <3>4
  <2>6. x.at \in 2..n+1 /\ l.at < x.at  BY <1>2, <2>1, <2>2 DEF i
  <2>7. OrState(toks, hits, all, x)  BY <1>6, <2>1, <2>2, <2>4, <2>5, <2>6 DEF OrState
  <2> QED  BY <2>2, <2>6, <2>7 DEF x
<1> QED  BY <1>4, <1>5, <1>6 DEF ConjunctionAnswers

(* CompileFilter refuses the expressions the grammar refuses, and finds in *)
(* the others what the grammar says.                                       *)
OrAnswers(toks, hits, all, r) ==
  \/ r = Failed /\ ~WellFormed(toks)
  \/ r # Failed /\ WellFormed(toks) /\ r.found = Meaning(toks, hits, all)

LEMMA CompileFilterIs ==
  ASSUME NEW all, NEW toks, IsTokens(toks), NEW hits \in [1..Len(toks) -> SUBSET all]
  PROVE  OrAnswers(toks, hits, all, CompileFilter(toks, hits, all))
<1> DEFINE n == Len(toks)  D == Parses(all)  c == Conjunction(toks, hits, all, 1)
           stop == OrStop(toks, all)  nxt == OrNext(toks, hits, all)
<1>1. n \in Nat  BY DEF IsTokens
<1>2. PICK f : /\ Loop(f, all, stop, nxt)
               /\ CompileFilter(toks, hits, all) = f[c]
  BY OrLoop
<1>4. \A l \in D : f[l] = IF l \in stop THEN l ELSE
                           IF nxt[l] = Failed THEN Failed ELSE f[nxt[l]]
  <2> HIDE DEF nxt, stop
  <2> QED  BY <1>2 DEF Loop
<1>5. Failed \in D /\ Failed \in stop  BY ParsedIs DEF OrStop, Failed, Parsed, Parses
<1> DEFINE E == {l \in D : OrState(toks, hits, all, l)}
           G == {l \in E : OrAnswers(toks, hits, all, f[l])}
           m == [l \in E |-> l.at..n]
<1>6. ASSUME NEW l \in E, \A y \in E : m[y] \subseteq m[l] /\ m[y] # m[l] => y \in G
      PROVE  l \in G
  <2>1. l.at \in 2..n+1 /\ OrState(toks, hits, all, l)  BY DEF OrState
  <2>2. CASE l \in stop
    <3>1. Kind(toks, l.at) = "end"  BY <1>1, <2>1, <2>2 DEF OrStop, OrState
    <3>2. f[l] = l  BY <1>4, <2>2
    <3>3. l # Failed  BY <1>1, <2>1, ParsedIs
    <3>4. l.at = n + 1  BY <1>1, <2>1, <3>1, KindIs
    <3>5. WellFormed(toks)
      <4>1. \A t \in 1..n : Stands(toks, t)  BY <1>1, <2>1, <3>4 DEF OrState
      <4> QED  BY <1>1, <2>1, <3>4, <4>1, WellFormedIs
    <3>6. Before(toks, n + 1) = Alternatives(toks)
      <4>1. \A alt \in Alternatives(toks) : alt[2] \in 1..n  BY DEF Alternatives, IsTokens
      <4> QED  BY <1>1, <4>1 DEF Before
    <3>7. l.found = Meaning(toks, hits, all)
      BY <2>1, <3>4, <3>6 DEF OrState, FoundBy, Meaning, Asks
    <3> QED  BY <3>2, <3>3, <3>5, <3>7 DEF OrAnswers
  <2>3. CASE l \notin stop
    <3> DEFINE x == nxt[l]
    <3>1. \/ x = Failed /\ ~WellFormed(toks)
          \/ x # Failed /\ OrState(toks, hits, all, x) /\ l.at < x.at
      BY <2>1, <2>3, OrTurn
    <3>2. f[l] = IF x = Failed THEN Failed ELSE f[x]  BY <1>4, <2>3
    <3> HIDE DEF x
    <3>3. CASE x = Failed  BY <3>1, <3>2, <3>3 DEF OrAnswers
    <3>4. CASE x # Failed
      <4>1. OrState(toks, hits, all, x) /\ x \in E  BY <3>1, <3>4 DEF OrState
      <4>2. x.at \in 2..n+1  BY <4>1 DEF OrState
      <4>3. m[x] = x.at..n /\ m[l] = l.at..n  BY <4>1
      <4>4. x.at \in Nat /\ l.at \in Nat /\ l.at < x.at /\ l.at <= n
        BY <1>1, <2>1, <3>1, <3>4, <4>2
      <4>5. m[x] \subseteq m[l] /\ m[x] # m[l]
        <5> HIDE DEF m, E
        <5> QED  BY <1>1, <4>3, <4>4
      <4>6. x \in G  BY <1>6, <4>1, <4>5
      <4> QED  BY <3>2, <3>4, <4>6
    <3> QED  BY <3>3, <3>4
  <2> QED  BY <2>2, <2>3
<1>7. E \subseteq G
  <2>1. IsFiniteSet(0..n)  BY <1>1, FS_Interval
  <2>2. \A l \in E : m[l] \in SUBSET (0..n)  BY <1>1 DEF OrState
  <2>3. Inductive(G, E, m, 0..n)
    <3> HIDE DEF G, m, E
    <3> QED  BY <1>6, <2>2 DEF Inductive
  <2> HIDE DEF G, m, E
  <2> QED  BY <2>1, <2>3, LoopInduction
<1>8. 1 \in 1..n+1 /\ Kind(toks, 1 - 1) = "end"  BY <1>1, KindIs
<1>9. ConjunctionAnswers(toks, hits, all, 1, c)  BY <1>8, ConjunctionIs
<1> HIDE DEF c
<1>10. CASE c = Failed /\ ~WellFormed(toks)
  <2>1. f[c] = Failed  BY <1>4, <1>5, <1>10
  <2> QED  BY <1>2, <1>10, <2>1 DEF OrAnswers
<1>11. CASE c # Failed /\ AndState(toks, hits, all, 1, c) /\ Kind(toks, c.at) \in {"|", "end"}
  <2>1. /\ c \in D /\ c.at \in 2..n+1 /\ Kind(toks, c.at - 1) = "term"
        /\ \A t \in 1..c.at-1 : Stands(toks, t)
        /\ c.found = {e \in all : \A t \in 1..c.at-1 : Asks(toks, hits, t, e)}
    BY <1>11 DEF AndState
  <2>2. Before(toks, c.at) = Before(toks, 0) \cup {<<1, c.at - 1>>}
    <3>1. 1 - 1 = 0  OBVIOUS
    <3> QED  BY <1>8, <1>11, <3>1, OneMore
  <2>3. Before(toks, 0) = {}
    <3>1. \A alt \in Alternatives(toks) : alt[2] \in 1..n  BY DEF Alternatives, IsTokens
    <3> QED  BY <1>1, <3>1 DEF Before
  <2>4. FoundBy(toks, hits, all, {}) = {}  BY DEF FoundBy
  <2>5. c.found = FoundBy(toks, hits, all, Before(toks, c.at))
    <3> DEFINE k == c.at - 1
    <3>1. c.found = AskedBy(toks, hits, all, 1, k)  BY <2>1 DEF AskedBy
    <3>2. Before(toks, c.at) = {} \cup {<<1, k>>}  BY <2>2, <2>3
    <3> HIDE DEF k
    <3>3. FoundBy(toks, hits, all, {} \cup {<<1, k>>})
            = FoundBy(toks, hits, all, {}) \cup AskedBy(toks, hits, all, 1, k)
      BY FoundByOneMore
    <3> QED  BY <2>4, <3>1, <3>2, <3>3
  <2>6. OrState(toks, hits, all, c)  BY <1>11, <2>1, <2>5 DEF OrState
  <2>7. c \in G  BY <1>7, <2>1, <2>6
  <2> QED  BY <1>2, <2>7
<1> QED  BY <1>9, <1>10, <1>11 DEF ConjunctionAnswers

-------------------------------------------------------------------------------
(* The tokens of any text.                                                 *)

LEMMA LeastNat ==
  ASSUME NEW S \in SUBSET Nat, S # {}
  PROVE  \E x \in S : \A y \in S : x <= y
<1> SUFFICES ASSUME \A x \in S : \E y \in S : ~(x <= y) PROVE FALSE  OBVIOUS
<1>1. PICK u \in S : TRUE  OBVIOUS
<1> DEFINE D == {x \in S : x <= u}  m == [x \in D |-> 0..x]
<1>2. IsFiniteSet(0..u)  BY FS_Interval
<1>3. ASSUME NEW x \in D
      PROVE  m[x] \in SUBSET (0..u) /\ \E y \in D : m[y] \subseteq m[x] /\ m[y] # m[x]
  <2>1. PICK y \in S : ~(x <= y)  OBVIOUS
  <2>2. y \in D /\ x \in Nat /\ y \in Nat  BY <2>1
  <2> QED  BY <2>1, <2>2
<1>4. Inductive({}, D, m, 0..u)
  <2> HIDE DEF D, m
  <2> QED  BY <1>3 DEF Inductive
<1>5. u \in D  OBVIOUS
<1> HIDE DEF D, m
<1> QED  BY <1>2, <1>4, <1>5, LoopInduction

(* EndOf ends at the only place it can.                                    *)
EndsAt(s, i, marks, j) ==
  /\ j \in i..Len(s) /\ \A k \in i..j : s[k] \notin marks
  /\ j < Len(s) => s[j+1] \in marks

LEMMA EndOfIs ==
  ASSUME NEW T, NEW s \in Seq(T), NEW marks, NEW i \in 1..Len(s), s[i] \notin marks
  PROVE  /\ EndsAt(s, i, marks, EndOf(s, i, marks))
         /\ \A j : EndsAt(s, i, marks, j) => j = EndOf(s, i, marks)
<1> DEFINE n == Len(s)  S == {j \in i+1..n+1 : j = n + 1 \/ s[j] \in marks}
<1>1. n \in Nat /\ i \in Nat  OBVIOUS
<1>2. S \in SUBSET Nat /\ n + 1 \in S  BY <1>1
<1>3. PICK x \in S : \A y \in S : x <= y
  <2> HIDE DEF S
  <2> QED  BY <1>2, LeastNat
<1>4. x - 1 \in i..n /\ (x - 1 < n => s[(x - 1) + 1] \in marks)  BY <1>1
<1>5. ASSUME NEW k \in i..x-1 PROVE s[k] \notin marks
  <2>1. k = i \/ (k \in i+1..n+1 /\ k \notin S)  BY <1>1, <1>3, <1>4
  <2> QED  BY <2>1
<1>6. \E j : EndsAt(s, i, marks, j)  BY <1>4, <1>5 DEF EndsAt
<1>7. EndsAt(s, i, marks, EndOf(s, i, marks))  BY <1>6 DEF EndsAt, EndOf
<1>8. ASSUME NEW j, NEW k, EndsAt(s, i, marks, j), EndsAt(s, i, marks, k), j < k PROVE FALSE
  <2>1. j \in Nat /\ k \in Nat /\ j + 1 \in i..k /\ j < n  BY <1>1, <1>8 DEF EndsAt
  <2> QED  BY <1>8, <2>1 DEF EndsAt
<1>9. \A j, k : EndsAt(s, i, marks, j) /\ EndsAt(s, i, marks, k) => j \in Nat /\ k \in Nat
  BY <1>1 DEF EndsAt
<1>10. \A j, k : EndsAt(s, i, marks, j) /\ EndsAt(s, i, marks, k) => j = k
  <2> SUFFICES ASSUME NEW j, NEW k, EndsAt(s, i, marks, j), EndsAt(s, i, marks, k) PROVE j = k
    OBVIOUS
  <2>1. j \in Nat /\ k \in Nat  BY <1>9
  <2>2. ~(j < k) /\ ~(k < j)  BY <1>8
  <2> QED  BY <2>1, <2>2
<1> QED  BY <1>7, <1>10

(* The loop of the tokenizer: where it is in s, and the tokens so far.     *)
TokenStates(s) == (1..Len(s)+1) \X Seq(TokensOf(s))
TokenStop(s)   == {at \in TokenStates(s) : at[1] > Len(s)}
TokenAnswer(s) == [at \in TokenStates(s) |-> at[2]]
TokenTurn(s, i, toks) ==
  IF s[i] = Space THEN <<i+1, toks>>
  ELSE IF s[i] \in Operators THEN <<i+1, Append(toks, Operator(s[i]))>>
  ELSE <<EndOf(s, i, Delims) + 1, Append(toks, Term(SubSeq(s, i, EndOf(s, i, Delims))))>>
TokenNext(s) == [at \in TokenStates(s) |-> TokenTurn(s, at[1], at[2])]

LEMMA TokenizeGoes ==
  ASSUME NEW T, NEW s \in Seq(T), NEW at \in TokenStates(s) \ TokenStop(s)
  PROVE  TokenNext(s)[at] \in TokenStates(s) /\ at[1] < TokenNext(s)[at][1]
<1> DEFINE n == Len(s)  Q == Seq(TokensOf(s))  i == at[1]  toks == at[2]
           y == TokenNext(s)[at]
<1>1. n \in Nat /\ DOMAIN s = 1..n  OBVIOUS
<1>2. i \in 1..n /\ toks \in Q  BY <1>1 DEF TokenStates, TokenStop
<1>3. s[i] \in Symbols(s)  BY <1>1, <1>2 DEF Symbols
<1>4. y = TokenTurn(s, i, toks)  BY DEF TokenNext
<1>5. ASSUME NEW j \in i+1..n+1, NEW X \in Q, y = <<j, X>>
      PROVE  y \in TokenStates(s) /\ i < y[1]
  <2> HIDE DEF y, i, Q
  <2>1. j \in 1..n+1 /\ i < j  BY <1>1, <1>2
  <2> QED  BY <1>5, <2>1 DEF TokenStates, Q
<1> HIDE DEF y, i, toks
<1>6. CASE s[i] = Space
  <2>1. i + 1 \in i+1..n+1  BY <1>1, <1>2
  <2>2. y = <<i + 1, toks>>  BY <1>4, <1>6 DEF TokenTurn
  <2> QED  BY <1>2, <1>5, <2>1, <2>2 DEF y, i
<1>7. CASE s[i] # Space /\ s[i] \in Operators
  <2>1. i + 1 \in i+1..n+1  BY <1>1, <1>2
  <2>2. Operator(s[i]) \in TokensOf(s)  BY <1>3, <1>7 DEF Operator, TokensOf
  <2>3. Append(toks, Operator(s[i])) \in Q  BY <1>2, <2>2
  <2>4. y = <<i + 1, Append(toks, Operator(s[i]))>>  BY <1>4, <1>7 DEF TokenTurn
  <2> QED  BY <1>5, <2>1, <2>3, <2>4 DEF y, i
<1>8. CASE s[i] # Space /\ s[i] \notin Operators
  <2> DEFINE e == EndOf(s, i, Delims)
  <2>1. s[i] \notin Delims  BY <1>8 DEF Delims, Operators
  <2>2. e \in i..n  BY <1>2, <2>1, EndOfIs DEF EndsAt
  <2>3. y = <<e + 1, Append(toks, Term(SubSeq(s, i, e)))>>  BY <1>4, <1>8 DEF TokenTurn
  <2> HIDE DEF e
  <2>4. SubSeq(s, i, e) \in Seq(Symbols(s))
    <3>1. s \in Seq(Symbols(s))  BY <1>1 DEF Symbols
    <3> QED  BY <1>1, <1>2, <2>2, <3>1
  <2>5. Term(SubSeq(s, i, e)) \in TokensOf(s)  BY <2>4 DEF Term, TokensOf
  <2>6. Append(toks, Term(SubSeq(s, i, e))) \in Q  BY <1>2, <2>5
  <2>7. e + 1 \in i+1..n+1  BY <1>1, <1>2, <2>2
  <2> QED  BY <1>5, <2>3, <2>6, <2>7 DEF y, i
<1> QED  BY <1>6, <1>7, <1>8 DEF y, i

LEMMA TokenizeLoop ==
  ASSUME NEW T, NEW s \in Seq(T)
  PROVE  \E f : /\ Runs(f, TokenStates(s), TokenStop(s), TokenAnswer(s), TokenNext(s))
                /\ Tokenize(s) = f[<<1, <<>>>>]
<1> DEFINE D == TokenStates(s)  stop == TokenStop(s)  r == TokenAnswer(s)  nxt == TokenNext(s)
           F(f) == [at \in D |->
             LET i == at[1]  toks == at[2] IN
             IF i > Len(s) THEN toks
             ELSE IF s[i] = Space THEN f[<<i+1, toks>>]
             ELSE IF s[i] \in Operators THEN f[<<i+1, Append(toks, Operator(s[i]))>>]
             ELSE f[<<EndOf(s, i, Delims) + 1, Append(toks, Term(SubSeq(s, i, EndOf(s, i, Delims))))>>]]
           f0 == CHOOSE f : f = F(f)
<1>1. Tokenize(s) = f0[<<1, <<>>>>]  BY DEF Tokenize, TokenStates
<1>2. ASSUME NEW f PROVE Runs(f, D, stop, r, nxt) <=> f = F(f)
  <2> DEFINE G == [at \in D |-> IF at \in stop THEN r[at] ELSE f[nxt[at]]]
  <2>1. ASSUME NEW at \in D PROVE F(f)[at] = G[at]
    <3>1. at \in stop <=> at[1] > Len(s)  BY DEF TokenStop
    <3>2. r[at] = at[2] /\ nxt[at] = TokenTurn(s, at[1], at[2])  BY DEF TokenAnswer, TokenNext
    <3>3. G[at] = IF at \in stop THEN r[at] ELSE f[nxt[at]]  OBVIOUS
    <3>4. F(f)[at] = IF at[1] > Len(s) THEN at[2]
             ELSE IF s[at[1]] = Space THEN f[<<at[1]+1, at[2]>>]
             ELSE IF s[at[1]] \in Operators THEN f[<<at[1]+1, Append(at[2], Operator(s[at[1]]))>>]
             ELSE f[<<EndOf(s, at[1], Delims) + 1,
                      Append(at[2], Term(SubSeq(s, at[1], EndOf(s, at[1], Delims))))>>]
      OBVIOUS
    <3> HIDE DEF F, G, stop, nxt, r, D
    <3> QED  BY <3>1, <3>2, <3>3, <3>4 DEF TokenTurn
  <2>2. F(f) = [at \in D |-> F(f)[at]] /\ G = [at \in D |-> G[at]]  OBVIOUS
  <2>3. Runs(f, D, stop, r, nxt) <=> f = G  BY DEF Runs
  <2> HIDE DEF F, G, D
  <2>4. F(f) = G  BY <2>1, <2>2
  <2> QED  BY <2>3, <2>4
<1>3. \E f : Runs(f, D, stop, r, nxt)
  <2> HIDE DEF stop, r, nxt
  <2> QED  BY TokenizeGoes, LoopExists DEF stop, nxt
<1> HIDE DEF F, D, stop, r, nxt
<1>4. f0 = F(f0)
  <2>1. \E f : f = F(f)  BY <1>2, <1>3
  <2> QED  BY <2>1
<1>5. Runs(f0, D, stop, r, nxt)  BY <1>2, <1>4
<1> HIDE DEF f0
<1> QED  BY <1>1, <1>5 DEF D, stop, r, nxt

LEMMA TokenizeIs ==
  ASSUME NEW T, NEW s \in Seq(T)
  PROVE  Tokenize(s) \in Seq(TokensOf(s))
<1> DEFINE n == Len(s)  Q == Seq(TokensOf(s))  D == TokenStates(s)
           stop == TokenStop(s)  nxt == TokenNext(s)
<1>1. n \in Nat /\ DOMAIN s = 1..n  OBVIOUS
<1>2. PICK f : /\ Runs(f, D, stop, TokenAnswer(s), nxt)
               /\ Tokenize(s) = f[<<1, <<>>>>]
  BY TokenizeLoop
<1>3. \A at \in D : f[at] = IF at \in stop THEN at[2] ELSE f[nxt[at]]
  <2> HIDE DEF nxt, stop
  <2> QED  BY <1>2 DEF Runs, TokenAnswer
<1> DEFINE G == {at \in D : f[at] \in Q}
           m == [at \in D |-> at[1]..n]
<1>4. \A at \in D : at[1] \in 1..n+1 /\ at[2] \in Q  BY DEF TokenStates
<1>5. ASSUME NEW at \in D, \A y \in D : m[y] \subseteq m[at] /\ m[y] # m[at] => y \in G
      PROVE  at \in G
  <2>1. at[1] \in 1..n+1 /\ at[2] \in Q  BY <1>4
  <2>2. CASE at \in stop  BY <1>3, <2>1, <2>2
  <2>3. CASE at \notin stop
    <3> DEFINE y == nxt[at]
    <3>1. y \in D /\ at[1] < y[1]  BY <2>3, TokenizeGoes
    <3>2. f[at] = f[y]  BY <1>3, <2>3
    <3>3. at[1] <= n  BY <1>1, <2>1, <2>3 DEF TokenStop
    <3> HIDE DEF y
    <3>4. m[y] = y[1]..n /\ m[at] = at[1]..n  BY <3>1
    <3>5. m[y] \subseteq m[at] /\ m[y] # m[at]
      <4>1. y[1] \in 1..n+1  BY <1>4, <3>1
      <4> HIDE DEF m, D
      <4> QED  BY <1>1, <2>1, <3>1, <3>3, <3>4, <4>1
    <3> QED  BY <1>5, <3>1, <3>2, <3>5
  <2> QED  BY <2>2, <2>3
<1>6. D \subseteq G
  <2>1. IsFiniteSet(0..n)  BY <1>1, FS_Interval
  <2>2. \A at \in D : m[at] \in SUBSET (0..n)  BY <1>1, <1>4
  <2>3. Inductive(G, D, m, 0..n)
    <3> HIDE DEF G, m, D
    <3> QED  BY <1>5, <2>2 DEF Inductive
  <2> HIDE DEF G, m, D
  <2> QED  BY <2>1, <2>3, LoopInduction
<1>7. <<1, <<>>>> \in D
  <2>1. <<>> \in Q /\ 1 \in 1..n+1  BY <1>1
  <2> QED  BY <2>1 DEF TokenStates
<1> QED  BY <1>2, <1>6, <1>7

(* A text no symbol of which ends a term, but for a leading "!", is one.   *)
LEMMA OneTermIs ==
  ASSUME NEW T, NEW s \in Seq(T), s # <<>>, Symbols(s) \cap Delims = {}, s[1] # "!"
  PROVE  Tokenize(s) = <<Term(s)>>
<1> DEFINE n == Len(s)  D == TokenStates(s)  stop == TokenStop(s)  nxt == TokenNext(s)
           at == <<1, <<>>>>
<1>1. n \in Nat \ {0} /\ DOMAIN s = 1..n  OBVIOUS
<1>2. PICK f : /\ Runs(f, D, stop, TokenAnswer(s), nxt)
               /\ Tokenize(s) = f[at]
  BY TokenizeLoop
<1>3. \A x \in D : f[x] = IF x \in stop THEN x[2] ELSE f[nxt[x]]
  <2> HIDE DEF nxt, stop
  <2> QED  BY <1>2 DEF Runs, TokenAnswer
<1>4. at \in D /\ at \notin stop
  <2>1. <<>> \in Seq(TokensOf(s)) /\ 1 \in 1..n+1  BY <1>1
  <2>2. at \in D  BY <2>1 DEF TokenStates
  <2>3. at[1] = 1 /\ ~(1 > n)  BY <1>1
  <2> QED  BY <2>2, <2>3 DEF TokenStop
<1>5. \A k \in 1..n : s[k] \notin Delims  BY <1>1 DEF Symbols
<1>6. EndOf(s, 1, Delims) = n
  <2>1. EndsAt(s, 1, Delims, n)  BY <1>1, <1>5 DEF EndsAt
  <2>2. 1 \in 1..n /\ s[1] \notin Delims  BY <1>1, <1>5
  <2> QED  BY <2>1, <2>2, EndOfIs
<1>7. nxt[at] = <<n + 1, <<Term(s)>>>>
  <2>1. s[1] # Space /\ s[1] \notin Operators  BY <1>1, <1>5 DEF Delims, Operators
  <2>2. SubSeq(s, 1, n) = s  OBVIOUS
  <2>3. nxt[at] = TokenTurn(s, 1, <<>>)  BY <1>4 DEF TokenNext
  <2>4. Append(<<>>, Term(s)) = <<Term(s)>>  OBVIOUS
  <2> QED  BY <1>6, <2>1, <2>2, <2>3, <2>4 DEF TokenTurn
<1>8. nxt[at] \in D  BY <1>4, TokenizeGoes
<1>9. nxt[at] \in stop  BY <1>1, <1>7, <1>8 DEF TokenStop
<1> QED  BY <1>2, <1>3, <1>4, <1>7, <1>8, <1>9

===============================================================================
