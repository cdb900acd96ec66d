--------------------------- MODULE TimecodeProofs ---------------------------
(***************************************************************************)
(* Timecode counts the frames of the day, for every rate, and CVITC shows  *)
(* the one it was set to or counted to, whatever is called and when.  Both *)
(* rest on the same lemmas about the numbers of a rate and the next one.   *)
(***************************************************************************)
EXTENDS Timecode, CVITC, WellFoundedInduction, TLAPS

Clock(rate) == [hour : 0 .. 23, minute : 0 .. 59, second : 0 .. 59, frame : 0 .. rate - 1]

Exists(t, rate, dropped) == t \in Clock(rate) /\ IsTimecode(t, rate, dropped)

\* Large numbers are compared, not looked up in an interval.
Below(x, bound) == x \in Int /\ 0 <= x /\ x < bound

\* The frame number, of the four fields and of the second of the day.
Count(rate, dropped, h, m, s, f) ==
  (60 * (60 * h + m) + s) * rate + f - dropped * ((60 * h + m) - (60 * h + m) \div 10)

\* The rates there are: two numbers of thirty are left out, four of sixty, or none.
GoodRate(rate, dropped) ==
  /\ rate \in 1 .. 127
  /\ \/ dropped = 0
     \/ rate = 30 /\ dropped = 2
     \/ rate = 60 /\ dropped = 4

LEMMA Rates ==
  ASSUME NEW rate, NEW dropped, GoodRate(rate, dropped)
  PROVE  /\ rate \in 1 .. 127
         /\ \/ dropped = 0
            \/ rate = 30 /\ dropped = 2
            \/ rate = 60 /\ dropped = 4
BY DEF GoodRate

\* The next number of the day: Step of Timecode, tick of CVITC.
StepAt(t, rate, dropped) ==
  IF t.frame + 1 # rate THEN make_tc(t.hour, t.minute, t.second, t.frame + 1)
  ELSE IF t.second + 1 # 60  THEN make_tc(t.hour, t.minute, t.second + 1, 0)
  ELSE IF t.minute + 1 # 60  THEN make_tc(t.hour, t.minute + 1, 0,
                                    IF (t.minute + 1) % 10 # 0 THEN dropped ELSE 0)
  ELSE make_tc(IF t.hour + 1 = 24 THEN 0 ELSE t.hour + 1, 0, 0, 0)

\* A second has rate numbers.
LEMMA NextSecond ==
  ASSUME NEW a \in Int, NEW r \in Int
  PROVE  a * r \in Int /\ (a + 1) * r = a * r + r /\ (a - 1) * r = a * r - r
OBVIOUS

\* The seconds of a day have no more numbers than the day.
LEMMA SecondsOfDay ==
  ASSUME NEW a, Below(a, 86400), NEW r \in Nat
  PROVE  0 <= a * r /\ a * r <= 86399 * r
<1>0. a \in Int /\ 0 <= a /\ 0 <= 86399 - a
  BY DEF Below
<1>1. 0 <= a * r
  BY <1>0
<1>2. 0 <= (86399 - a) * r
  BY <1>0
<1>3. (86399 - a) * r = 86399 * r - a * r
  BY <1>0
<1>4. a * r \in Int /\ 86399 * r \in Int
  BY <1>0
<1> QED BY <1>1, <1>2, <1>3, <1>4

\* Tenth minutes, counted.
LEMMA Tenths ==
  ASSUME NEW n \in Nat
  PROVE  n \div 10 \in Nat /\ 10 * (n \div 10) <= n /\ n < 10 * (n \div 10) + 10
OBVIOUS

\* The numbers of a day begin with 0 and end below FramesPerDay(rate, dropped).
LEMMA CountInDay ==
  ASSUME NEW rate, NEW dropped, GoodRate(rate, dropped),
         NEW h \in 0 .. 23, NEW m \in 0 .. 59, NEW s \in 0 .. 59, NEW f \in 0 .. rate - 1
  PROVE  Below(Count(rate, dropped, h, m, s, f), FramesPerDay(rate, dropped))
<1> DEFINE n == 60 * h + m
           a == 60 * n + s
           q == n \div 10
<1>1. n \in 0 .. 1439
  OBVIOUS
<1>2. Below(a, 86400)
  BY <1>1 DEF Below
<1>3. q \in Nat /\ 10 * q <= n /\ n < 10 * q + 10
  BY <1>1, Tenths
<1>4. Count(rate, dropped, h, m, s, f) = a * rate + f - dropped * (n - q)
  BY DEF Count
<1>5. FramesPerDay(rate, dropped) = 86400 * rate - 1296 * dropped
  BY DEF FramesPerDay
<1> HIDE DEF n, a, q
<1>6. CASE dropped = 0
  <2>1. 0 <= a * rate /\ a * rate <= 86399 * rate /\ a * rate \in Int
    <3>1. rate \in Nat
      BY Rates
    <3> QED BY <3>1, <1>2, SecondsOfDay, NextSecond DEF Below
  <2>2. Count(rate, dropped, h, m, s, f) = a * rate + f
    BY <1>1, <1>3, <1>4, <1>6, <2>1
  <2> QED BY <2>1, <2>2, <1>5, <1>6, Rates DEF Below
<1>7. CASE rate = 30 /\ dropped = 2
  <2>1. Count(rate, dropped, h, m, s, f) = (60 * n + s) * 30 + f - 2 * (n - q)
    BY <1>4, <1>7 DEF a
  <2>2. Below((60 * n + s) * 30 + f - 2 * (n - q), 86400 * 30 - 1296 * 2)
    BY <1>1, <1>3, <1>7 DEF Below
  <2> QED BY <2>1, <2>2, <1>5, <1>7
<1>8. CASE rate = 60 /\ dropped = 4
  <2>1. Count(rate, dropped, h, m, s, f) = (60 * n + s) * 60 + f - 4 * (n - q)
    BY <1>4, <1>8 DEF a
  <2>2. Below((60 * n + s) * 60 + f - 4 * (n - q), 86400 * 60 - 1296 * 4)
    BY <1>1, <1>3, <1>8 DEF Below
  <2> QED BY <2>1, <2>2, <1>5, <1>8
<1> QED BY <1>6, <1>7, <1>8, Rates

\* The frame after one that is not the last of its second.
LEMMA NextFrame ==
  ASSUME NEW rate, NEW dropped, GoodRate(rate, dropped),
         NEW h \in Int, NEW m \in Int, NEW s \in Int, NEW f \in Int
  PROVE  Count(rate, dropped, h, m, s, f + 1) = Count(rate, dropped, h, m, s, f) + 1
<1>1. (60 * (60 * h + m) + s) * rate \in Int
      /\ dropped * ((60 * h + m) - (60 * h + m) \div 10) \in Int
  BY Rates
<1> QED BY <1>1 DEF Count

\* The frame after the last of a second, inside a minute.
LEMMA NextSecondOfMinute ==
  ASSUME NEW rate, NEW dropped, GoodRate(rate, dropped),
         NEW h \in Int, NEW m \in Int, NEW s \in Int
  PROVE  Count(rate, dropped, h, m, s + 1, 0) = Count(rate, dropped, h, m, s, rate - 1) + 1
<1> DEFINE n == 60 * h + m
           d == dropped * (n - n \div 10)
           a == 60 * n + s
<1>1. d \in Int /\ a \in Int /\ rate \in Int
  BY Rates
<1>2. Count(rate, dropped, h, m, s + 1, 0) = (a + 1) * rate + 0 - d
  BY DEF Count
<1>3. Count(rate, dropped, h, m, s, rate - 1) = a * rate + (rate - 1) - d
  BY DEF Count
<1> HIDE DEF a, d
<1> QED BY <1>1, <1>2, <1>3, NextSecond

\* The frame after the last of a minute: the first of a tenth minute is 0,
\* that of another is the first number not left out.
LEMMA NextMinuteOfDay ==
  ASSUME NEW rate, NEW dropped, GoodRate(rate, dropped),
         NEW h \in Nat, NEW m \in Nat, NEW k \in Nat, NEW l \in Nat,
         60 * k + l = 60 * h + m + 1
  PROVE  /\ l % 10 = 0 => Count(rate, dropped, k, l, 0, 0) = Count(rate, dropped, h, m, 59, rate - 1) + 1
         /\ l % 10 # 0 => Count(rate, dropped, k, l, 0, dropped) = Count(rate, dropped, h, m, 59, rate - 1) + 1
<1> DEFINE n == 60 * h + m
           q == n \div 10
           r == (n + 1) \div 10
           a == 60 * n + 59
<1>1. n \in Nat /\ q \in Nat /\ r \in Nat /\ a \in Int /\ rate \in Int /\ dropped \in Nat
  BY Rates
<1>2. /\ l % 10 = 0 => r = q + 1
      /\ l % 10 # 0 => r = q
  <2>1. l % 10 = (n + 1) % 10
    OBVIOUS
  <2>2. 10 * r + ((n + 1) % 10) = n + 1 /\ 10 * q <= n /\ n < 10 * q + 10
    BY <1>1
  <2> QED BY <2>1, <2>2, <1>1
<1>3. ASSUME NEW f \in Int
      PROVE  Count(rate, dropped, k, l, 0, f) = (a + 1) * rate + f - dropped * ((n + 1) - r)
  <2>1. 60 * k + l = n + 1 /\ 60 * (n + 1) + 0 = a + 1
    OBVIOUS
  <2> QED BY <2>1 DEF Count
<1>4. Count(rate, dropped, h, m, 59, rate - 1) = a * rate + (rate - 1) - dropped * (n - q)
  BY DEF Count
<1> HIDE DEF n, q, r, a
<1>5. (a + 1) * rate = a * rate + rate /\ a * rate \in Int
  BY <1>1, NextSecond
<1>6. CASE l % 10 = 0
  <2>1. (n + 1) - r = n - q
    BY <1>1, <1>2, <1>6
  <2>2. dropped * (n - q) \in Int
    BY <1>1
  <2> QED BY <2>1, <2>2, <1>1, <1>3, <1>4, <1>5, <1>6
<1>7. CASE l % 10 # 0
  <2>1. (n + 1) - r = (n - q) + 1
    BY <1>1, <1>2, <1>7
  <2>2. dropped * ((n - q) + 1) = dropped * (n - q) + dropped /\ dropped * (n - q) \in Int
    BY <1>1
  <2> QED BY <2>1, <2>2, <1>1, <1>3, <1>4, <1>5, <1>7
<1> QED BY <1>6, <1>7

\* The day begins with 0 and ends with FramesPerDay(rate, dropped) - 1.
LEMMA Midnight ==
  ASSUME NEW rate, NEW dropped, GoodRate(rate, dropped)
  PROVE  Count(rate, dropped, 0, 0, 0, 0) = 0 /\ Count(rate, dropped, 23, 59, 59, rate - 1) = FramesPerDay(rate, dropped) - 1 /\ FramesPerDay(rate, dropped) \in Nat \ {0}
<1>1. 60 * (60 * 23 + 59) + 59 = 86399 /\ (60 * 23 + 59) - (60 * 23 + 59) \div 10 = 1296
  OBVIOUS
<1>2. Count(rate, dropped, 23, 59, 59, rate - 1) = 86399 * rate + (rate - 1) - dropped * 1296
  BY <1>1 DEF Count
<1>3. Count(rate, dropped, 0, 0, 0, 0) = 0
  <2>1. 60 * (60 * 0 + 0) + 0 = 0 /\ (60 * 0 + 0) - (60 * 0 + 0) \div 10 = 0
    OBVIOUS
  <2>2. Count(rate, dropped, 0, 0, 0, 0) = 0 * rate + 0 - dropped * 0
    BY <2>1 DEF Count
  <2> QED BY <2>2, Rates
<1>4. FramesPerDay(rate, dropped) = 86400 * rate - 1296 * dropped
  BY DEF FramesPerDay
<1> QED BY <1>2, <1>3, <1>4, Rates

LEMMA Modulo ==
  ASSUME NEW d \in Nat \ {0}, NEW x, Below(x, d)
  PROVE  x % d = x /\ d % d = 0 /\ (-1) % d = d - 1
BY DEF Below

\* A time code that exists is its four fields.
LEMMA Fields ==
  ASSUME NEW rate, NEW dropped, GoodRate(rate, dropped),
         NEW t, Exists(t, rate, dropped)
  PROVE  /\ t = make_tc(t.hour, t.minute, t.second, t.frame)
         /\ t.hour \in 0 .. 23 /\ t.minute \in 0 .. 59 /\ t.second \in 0 .. 59
         /\ t.frame \in 0 .. rate - 1
         /\ t.second = 0 /\ t.minute % 10 # 0 => t.frame >= dropped
BY DEF Exists, Clock, IsTimecode, make_tc

LEMMA ExistsMade ==
  ASSUME NEW rate, NEW dropped, GoodRate(rate, dropped),
         NEW h \in 0 .. 23, NEW m \in 0 .. 59, NEW s \in 0 .. 59, NEW f \in 0 .. rate - 1,
         s = 0 /\ m % 10 # 0 => f >= dropped
  PROVE  /\ Exists(make_tc(h, m, s, f), rate, dropped)
         /\ FrameNumber(make_tc(h, m, s, f), rate, dropped) = Count(rate, dropped, h, m, s, f)
         /\ Below(Count(rate, dropped, h, m, s, f), FramesPerDay(rate, dropped))
BY CountInDay DEF Exists, Clock, IsTimecode, make_tc, FrameNumber, Minutes, Count

\* A step of a time code that exists gives one that exists, the next of the day.
LEMMA StepCounts ==
  ASSUME NEW rate, NEW dropped, GoodRate(rate, dropped),
         NEW t, Exists(t, rate, dropped)
  PROVE  /\ Exists(StepAt(t, rate, dropped), rate, dropped)
         /\ FrameNumber(StepAt(t, rate, dropped), rate, dropped) =
              (FrameNumber(t, rate, dropped) + 1) % FramesPerDay(rate, dropped)
<1> DEFINE h == t.hour  m == t.minute  s == t.second  f == t.frame
           N == FrameNumber(t, rate, dropped)
           day == FramesPerDay(rate, dropped)
<1>1. /\ t = make_tc(h, m, s, f)
      /\ h \in 0 .. 23 /\ m \in 0 .. 59 /\ s \in 0 .. 59 /\ f \in 0 .. rate - 1
      /\ s = 0 /\ m % 10 # 0 => f >= dropped
  BY Fields
<1>0. /\ f + 1 # rate => StepAt(t, rate, dropped) = make_tc(h, m, s, f + 1)
      /\ f + 1 = rate /\ s + 1 # 60 => StepAt(t, rate, dropped) = make_tc(h, m, s + 1, 0)
      /\ f + 1 = rate /\ s + 1 = 60 /\ m + 1 # 60 =>
           StepAt(t, rate, dropped) = make_tc(h, m + 1, 0, IF (m + 1) % 10 # 0 THEN dropped ELSE 0)
      /\ f + 1 = rate /\ s + 1 = 60 /\ m + 1 = 60 =>
           StepAt(t, rate, dropped) = make_tc(IF h + 1 = 24 THEN 0 ELSE h + 1, 0, 0, 0)
  BY DEF StepAt
<1> HIDE DEF h, m, s, f
<1>2. N = Count(rate, dropped, h, m, s, f) /\ Below(N, day)
  <2>1. /\ FrameNumber(make_tc(h, m, s, f), rate, dropped) = Count(rate, dropped, h, m, s, f)
        /\ Below(Count(rate, dropped, h, m, s, f), day)
    BY <1>1, ExistsMade
  <2> QED BY <1>1, <2>1
<1> DEFINE next == StepAt(t, rate, dropped)
           Right == Exists(next, rate, dropped) /\ FrameNumber(next, rate, dropped) = (N + 1) % day
<1> SUFFICES Right
  OBVIOUS
<1> HIDE DEF N
<1>3. /\ h \in Nat /\ m \in Nat /\ s \in Nat /\ f \in Nat
      /\ rate \in Nat /\ 0 \in 0 .. rate - 1 /\ dropped \in 0 .. rate - 1
      /\ 0 \in 0 .. 23 /\ 0 \in 0 .. 59 /\ 0 % 10 = 0
  BY <1>1, Rates
<1>4. ASSUME NEW k \in 0 .. 23, NEW l \in 0 .. 59, NEW z \in 0 .. 59, NEW g \in 0 .. rate - 1,
             z = 0 /\ l % 10 # 0 => g >= dropped,
             next = make_tc(k, l, z, g),
             Count(rate, dropped, k, l, z, g) = N + 1
      PROVE  Right
  <2>1. /\ Exists(make_tc(k, l, z, g), rate, dropped)
        /\ FrameNumber(make_tc(k, l, z, g), rate, dropped) = Count(rate, dropped, k, l, z, g)
        /\ Below(Count(rate, dropped, k, l, z, g), day)
    BY <1>4, ExistsMade
  <2>2. day \in Nat \ {0} /\ Below(N + 1, day)
    BY <1>4, <2>1, Midnight
  <2> QED BY <1>4, <2>1, <2>2, Modulo
<1>5. CASE f + 1 # rate
  <2>1. next = make_tc(h, m, s, f + 1)
    BY <1>0, <1>5
  <2>2. f + 1 \in 0 .. rate - 1 /\ (s = 0 /\ m % 10 # 0 => f + 1 >= dropped)
    BY <1>1, <1>3, <1>5
  <2>3. Count(rate, dropped, h, m, s, f + 1) = N + 1
    BY <1>2, <1>3, NextFrame
  <2> QED BY <2>1, <2>2, <2>3, <1>1, <1>4
<1>6. CASE f + 1 = rate /\ s + 1 # 60
  <2>1. next = make_tc(h, m, s + 1, 0)
    BY <1>0, <1>6
  <2>2. s + 1 \in 0 .. 59 /\ s + 1 # 0 /\ f = rate - 1
    BY <1>1, <1>3, <1>6
  <2>3. Count(rate, dropped, h, m, s + 1, 0) = N + 1
    BY <2>2, <1>2, <1>3, NextSecondOfMinute
  <2> QED BY <2>1, <2>2, <2>3, <1>1, <1>3, <1>4
<1>7. CASE f + 1 = rate /\ s + 1 = 60 /\ m + 1 # 60
  <2>1. m + 1 \in 0 .. 59 /\ s = 59 /\ f = rate - 1
    BY <1>1, <1>3, <1>7
  <2>2. m + 1 \in Nat /\ 60 * h + (m + 1) = 60 * h + m + 1 /\ N = Count(rate, dropped, h, m, 59, rate - 1)
    BY <2>1, <1>2, <1>3
  <2>3. CASE (m + 1) % 10 = 0
    <3>1. next = make_tc(h, m + 1, 0, 0)
      BY <1>0, <1>7, <2>3
    <3>2. Count(rate, dropped, h, m + 1, 0, 0) = N + 1
      BY <2>2, <2>3, <1>3, NextMinuteOfDay
    <3>3. m + 1 \in 0 .. 59 /\ ~((m + 1) % 10 # 0)
      BY <2>1, <2>3
    <3> QED BY <3>1, <3>2, <3>3, <1>1, <1>3, <1>4
  <2>4. CASE (m + 1) % 10 # 0
    <3>1. next = make_tc(h, m + 1, 0, dropped)
      BY <1>0, <1>7, <2>4
    <3>2. Count(rate, dropped, h, m + 1, 0, dropped) = N + 1
      BY <2>2, <2>4, <1>3, NextMinuteOfDay
    <3>3. dropped >= dropped /\ m + 1 \in 0 .. 59
      BY <2>1, <1>3
    <3> QED BY <3>1, <3>2, <3>3, <1>1, <1>3, <1>4
  <2> QED BY <2>3, <2>4
<1>8. CASE f + 1 = rate /\ s + 1 = 60 /\ m + 1 = 60 /\ h + 1 # 24
  <2>1. next = make_tc(h + 1, 0, 0, 0)
    BY <1>0, <1>8
  <2>2. s = 59 /\ f = rate - 1 /\ h + 1 \in 0 .. 23
    BY <1>1, <1>3, <1>8
  <2>3. Count(rate, dropped, h + 1, 0, 0, 0) = N + 1
    <3>1. h + 1 \in Nat /\ 59 \in Nat /\ 0 \in Nat /\ 60 * (h + 1) + 0 = 60 * h + 59 + 1
          /\ 0 % 10 = 0 /\ N = Count(rate, dropped, h, 59, 59, rate - 1)
      BY <2>2, <1>2, <1>3, <1>8
    <3> QED BY <3>1, <1>3, NextMinuteOfDay
  <2> QED BY <2>1, <2>2, <2>3, <1>3, <1>4
<1>9. CASE f + 1 = rate /\ s + 1 = 60 /\ m + 1 = 60 /\ h + 1 = 24
  <2>1. next = make_tc(0, 0, 0, 0)
    BY <1>0, <1>9
  <2>2. s = 59 /\ f = rate - 1 /\ m = 59 /\ h = 23
    BY <1>1, <1>3, <1>9
  <2>3. Exists(next, rate, dropped) /\ FrameNumber(next, rate, dropped) = 0
    <3>1. /\ Exists(make_tc(0, 0, 0, 0), rate, dropped)
          /\ FrameNumber(make_tc(0, 0, 0, 0), rate, dropped) = Count(rate, dropped, 0, 0, 0, 0)
      BY <1>3, ExistsMade
    <3> QED BY <2>1, <3>1, Midnight
  <2>4. N + 1 = day /\ day % day = 0
    BY <2>2, <1>2, <1>9, Midnight, Modulo
  <2> QED BY <2>3, <2>4
<1> QED BY <1>1, <1>3, <1>5, <1>6, <1>7, <1>8, <1>9

\* The rate of a Timecode is one of those.
LEMMA OwnRate ==
  /\ GoodRate(MaxFrame, Dropped) /\ Day = FramesPerDay(MaxFrame, Dropped)
  /\ \A t : Step(t) = StepAt(t, MaxFrame, Dropped)
BY TimecodeAssumption DEF GoodRate, Dropped, Day, Step, StepAt

\* A step back from a time code that exists gives one that exists, and the
\* frame before where decrease sees the first number of a minute rightly.
LEMMA StepBackCounts ==
  ASSUME NEW t, Exists(t, MaxFrame, Dropped)
  PROVE  /\ Exists(StepBack(t), MaxFrame, Dropped)
         /\ FrameNumber(StepBack(t), MaxFrame, Dropped) =
              (FrameNumber(t, MaxFrame, Dropped)
                 - (IF LooksFirst(t) /\ t.second # 0 THEN 1 + Dropped ELSE 1)) % Day
<1> DEFINE h == t.hour  m == t.minute  s == t.second  f == t.frame
           N == FrameNumber(t, MaxFrame, Dropped)
           first == LooksFirst(t)
           back == IF first /\ s # 0 THEN 1 + Dropped ELSE 1
           last == MaxFrame - 1
<1>0. GoodRate(MaxFrame, Dropped) /\ Day = FramesPerDay(MaxFrame, Dropped)
  BY OwnRate
<1>1. /\ t = make_tc(h, m, s, f)
      /\ h \in 0 .. 23 /\ m \in 0 .. 59 /\ s \in 0 .. 59 /\ f \in 0 .. last
      /\ s = 0 /\ m % 10 # 0 => f >= Dropped
      /\ first <=> Dropped > 0 /\ f = Dropped /\ m % 10 # 0
  BY Fields, <1>0 DEF LooksFirst
<1>2. /\ ~first /\ f # 0 => StepBack(t) = make_tc(h, m, s, f - 1)
      /\ (first \/ f = 0) /\ s # 0 => StepBack(t) = make_tc(h, m, s - 1, last)
      /\ (first \/ f = 0) /\ s = 0 /\ m # 0 => StepBack(t) = make_tc(h, m - 1, 59, last)
      /\ (first \/ f = 0) /\ s = 0 /\ m = 0 /\ h # 0 => StepBack(t) = make_tc(h - 1, 59, 59, last)
      /\ (first \/ f = 0) /\ s = 0 /\ m = 0 /\ h = 0 => StepBack(t) = make_tc(23, 59, 59, last)
  BY DEF StepBack, SecondBefore
<1> HIDE DEF h, m, s, f
<1>3. N = Count(MaxFrame, Dropped, h, m, s, f) /\ Below(N, Day)
  <2>1. /\ FrameNumber(make_tc(h, m, s, f), MaxFrame, Dropped) = Count(MaxFrame, Dropped, h, m, s, f)
        /\ Below(Count(MaxFrame, Dropped, h, m, s, f), FramesPerDay(MaxFrame, Dropped))
    BY <1>0, <1>1, ExistsMade
  <2> QED BY <1>0, <1>1, <2>1
<1> SUFFICES Exists(StepBack(t), MaxFrame, Dropped) /\ FrameNumber(StepBack(t), MaxFrame, Dropped) = (N - back) % Day
  BY DEF s
<1> HIDE DEF N, first
<1>4. /\ h \in Nat /\ m \in Nat /\ s \in Nat /\ f \in Nat /\ Dropped \in Nat
      /\ MaxFrame \in Nat /\ last \in 0 .. MaxFrame - 1 /\ last >= Dropped
      /\ 59 \in 0 .. 59 /\ 0 % 10 = 0
  BY <1>1, Rates, <1>0
<1>5. ASSUME NEW k \in 0 .. 23, NEW l \in 0 .. 59, NEW z \in 0 .. 59, NEW g \in 0 .. MaxFrame - 1,
             z = 0 /\ l % 10 # 0 => g >= Dropped,
             StepBack(t) = make_tc(k, l, z, g),
             Count(MaxFrame, Dropped, k, l, z, g) = N - back
      PROVE  Exists(StepBack(t), MaxFrame, Dropped) /\ FrameNumber(StepBack(t), MaxFrame, Dropped) = (N - back) % Day
  <2>1. /\ Exists(make_tc(k, l, z, g), MaxFrame, Dropped)
        /\ FrameNumber(make_tc(k, l, z, g), MaxFrame, Dropped) = Count(MaxFrame, Dropped, k, l, z, g)
        /\ Below(Count(MaxFrame, Dropped, k, l, z, g), FramesPerDay(MaxFrame, Dropped))
    BY <1>0, <1>5, ExistsMade
  <2>2. Day \in Nat \ {0} /\ Below(N - back, Day)
    BY <1>0, <1>5, <2>1, Midnight
  <2> QED BY <1>5, <2>1, <2>2, Modulo
<1>6. CASE ~first /\ f # 0
  <2>1. f - 1 \in 0 .. MaxFrame - 1 /\ (s = 0 /\ m % 10 # 0 => f - 1 >= Dropped)
    BY <1>1, <1>4, <1>6
  <2>2. Count(MaxFrame, Dropped, h, m, s, f - 1) = N - back
    <3>1. Count(MaxFrame, Dropped, h, m, s, (f - 1) + 1) = Count(MaxFrame, Dropped, h, m, s, f - 1) + 1 /\ (f - 1) + 1 = f
      BY <1>4, NextFrame, <1>0
    <3>2. Count(MaxFrame, Dropped, h, m, s, f - 1) \in Int
      BY <2>1, <1>1, CountInDay, <1>0 DEF Below
    <3> QED BY <3>1, <3>2, <1>3, <1>6
  <2> QED BY <2>1, <2>2, <1>1, <1>2, <1>5, <1>6
<1>7. CASE (first \/ f = 0) /\ s # 0
  <2>1. s - 1 \in 0 .. 59 /\ (s - 1 = 0 /\ m % 10 # 0 => last >= Dropped)
    BY <1>1, <1>4, <1>7
  <2>2. Count(MaxFrame, Dropped, h, m, s - 1, last) = Count(MaxFrame, Dropped, h, m, s, 0) - 1
    <3>1. Count(MaxFrame, Dropped, h, m, (s - 1) + 1, 0) = Count(MaxFrame, Dropped, h, m, s - 1, last) + 1 /\ (s - 1) + 1 = s
      BY <1>4, NextSecondOfMinute, <1>0
    <3>2. Count(MaxFrame, Dropped, h, m, s - 1, last) \in Int
      BY <2>1, <1>1, <1>4, CountInDay, <1>0 DEF Below
    <3> QED BY <3>1, <3>2
  <2>3. Count(MaxFrame, Dropped, h, m, s, 0) = N - f /\ N \in Int
    <3>1. /\ (60 * (60 * h + m) + s) * MaxFrame \in Int
          /\ Dropped * ((60 * h + m) - (60 * h + m) \div 10) \in Int
      BY <1>4
    <3> QED BY <3>1, <1>3, <1>4 DEF Count, Below
  <2>4. back = 1 + f
    BY <1>1, <1>4, <1>7
  <2>5. Count(MaxFrame, Dropped, h, m, s - 1, last) = N - back
    BY <2>2, <2>3, <2>4, <1>4
  <2>6. StepBack(t) = make_tc(h, m, s - 1, last)
    BY <1>2, <1>7
  <2> HIDE DEF back, last
  <2> QED BY <2>1, <2>5, <2>6, <1>1, <1>4, <1>5
<1>8. CASE (first \/ f = 0) /\ s = 0 /\ m # 0
  <2>1. m - 1 \in 0 .. 59 /\ m - 1 \in Nat /\ 60 * h + m = 60 * h + (m - 1) + 1 /\ 59 # 0
    BY <1>1, <1>4, <1>8
  <2>2. N = Count(MaxFrame, Dropped, h, m - 1, 59, MaxFrame - 1) + 1
    <3>1. CASE m % 10 = 0
      <4>1. f = 0
        BY <1>1, <1>8, <3>1
      <4> QED BY <4>1, <3>1, <2>1, <1>3, <1>4, <1>8, NextMinuteOfDay, <1>0
    <3>2. CASE m % 10 # 0
      <4>1. f = Dropped
        BY <1>1, <1>4, <1>8, <3>2
      <4> QED BY <4>1, <3>2, <2>1, <1>3, <1>4, <1>8, NextMinuteOfDay, <1>0
    <3> QED BY <3>1, <3>2
  <2>3. Count(MaxFrame, Dropped, h, m - 1, 59, MaxFrame - 1) \in Int
    BY <2>1, <1>1, <1>4, CountInDay, <1>0 DEF Below
  <2>4. back = 1
    BY <1>8
  <2> HIDE DEF back
  <2>5. Count(MaxFrame, Dropped, h, m - 1, 59, last) = N - back
    BY <2>2, <2>3, <2>4
  <2>6. StepBack(t) = make_tc(h, m - 1, 59, last)
    BY <1>2, <1>8
  <2> HIDE DEF last
  <2> QED BY <2>1, <2>5, <2>6, <1>1, <1>4, <1>5
<1>9. CASE (first \/ f = 0) /\ s = 0 /\ m = 0 /\ h # 0
  <2>1. h - 1 \in 0 .. 23 /\ h - 1 \in Nat /\ 59 \in Nat /\ 0 \in Nat /\ f = 0
        /\ 60 * h + 0 = 60 * (h - 1) + 59 + 1 /\ 59 # 0
    BY <1>1, <1>4, <1>9
  <2>2. N = Count(MaxFrame, Dropped, h - 1, 59, 59, MaxFrame - 1) + 1
    BY <2>1, <1>3, <1>4, <1>9, NextMinuteOfDay, <1>0
  <2>3. Count(MaxFrame, Dropped, h - 1, 59, 59, MaxFrame - 1) \in Int
    BY <2>1, <1>4, CountInDay, <1>0 DEF Below
  <2>4. back = 1
    BY <1>9
  <2> HIDE DEF back
  <2>5. Count(MaxFrame, Dropped, h - 1, 59, 59, last) = N - back
    BY <2>2, <2>3, <2>4
  <2>6. StepBack(t) = make_tc(h - 1, 59, 59, last)
    BY <1>2, <1>9
  <2> QED BY <2>1, <2>5, <2>6, <1>4, <1>5
<1>10. CASE (first \/ f = 0) /\ s = 0 /\ m = 0 /\ h = 0
  <2>1. 23 \in 0 .. 23 /\ 59 # 0 /\ f = 0
    BY <1>1, <1>4, <1>10
  <2>2. StepBack(t) = make_tc(23, 59, 59, last)
    BY <1>2, <1>10
  <2>3. Exists(StepBack(t), MaxFrame, Dropped) /\ FrameNumber(StepBack(t), MaxFrame, Dropped) = Day - 1
    <3>1. last >= Dropped /\ last \in 0 .. MaxFrame - 1 /\ (59 = 0 /\ 59 % 10 # 0 => last >= Dropped)
      BY <1>4
    <3>2. Count(MaxFrame, Dropped, 23, 59, 59, last) = Day - 1
      BY Midnight, <1>0
    <3> HIDE DEF last
    <3>3. /\ Exists(make_tc(23, 59, 59, last), MaxFrame, Dropped)
          /\ FrameNumber(make_tc(23, 59, 59, last), MaxFrame, Dropped) =
               Count(MaxFrame, Dropped, 23, 59, 59, last)
      <4>1. 23 \in 0 .. 23 /\ 59 \in 0 .. 59 /\ ~(59 = 0)
        OBVIOUS
      <4> QED BY <4>1, <3>1, <1>0, ExistsMade, ZenonT(40)
    <3> QED BY <3>2, <3>3, <2>2
  <2>4. N - back = -1 /\ (-1) % Day = Day - 1
    BY <2>1, <1>3, <1>10, Midnight, <1>0, Modulo
  <2> QED BY <2>3, <2>4
<1> QED BY <1>6, <1>7, <1>8, <1>9, <1>10

-----------------------------------------------------------------------------

\* The time code always exists, and a call in progress has turns left.
LEMMA Inductive == TimecodeSpec => []TypeOK
<1>1. TimecodeInit => TypeOK
  BY TimecodeAssumption DEF TimecodeInit, TypeOK, IsTimecode
<1>2. TypeOK /\ [TimecodeNext]_timecodeVars => TypeOK'
  <2> SUFFICES ASSUME TypeOK, [TimecodeNext]_timecodeVars PROVE TypeOK'
    OBVIOUS
  <2>1. Exists(timecode, MaxFrame, Dropped)
    BY DEF TypeOK, Exists, Clock
  <2>2. CASE Inc
    BY <2>1, <2>2, StepCounts, OwnRate, TimecodeAssumption DEF Inc, Call, TypeOK, Exists, Clock
  <2>3. CASE Turn
    BY <2>1, <2>3, StepBackCounts, OwnRate DEF Turn, TypeOK, Exists, Clock
  <2>4. ASSUME NEW nOffset \in Offsets, decrease(nOffset) PROVE TypeOK'
    BY <2>4, TimecodeAssumption DEF decrease, Call, TypeOK
  <2>5. CASE UNCHANGED timecodeVars
    BY <2>5 DEF timecodeVars, TypeOK
  <2> QED BY <2>2, <2>3, <2>4, <2>5 DEF TimecodeNext
<1> QED BY <1>1, <1>2, PTL DEF TimecodeSpec

\* A count that starts at a number that exists never shows one that does not,
\* at any rate (timecode.cpp:16-60).
THEOREM TypesHold == TimecodeSpec => []TypeOK
BY Inductive

\* inc is the next frame of the day, at any rate (timecode.cpp:16-34).
THEOREM IncAlwaysNextFrame == TimecodeSpec => IncIsNextFrame
<1>1. TypeOK /\ [TimecodeNext]_timecodeVars => [Inc => Number' = (Number + 1) % Day]_timecodeVars
  BY StepCounts, OwnRate DEF TypeOK, Exists, Clock, Inc, Number
<1> QED BY <1>1, Inductive, PTL DEF TimecodeSpec, IncIsNextFrame

\* decrease is the frame before, but for the numbers it takes for the first of
\* a minute, at any rate (timecode.cpp:42-60).
THEOREM DecreaseAlwaysFrameBefore == TimecodeSpec => DecreaseIsFrameBefore
<1>1. TypeOK /\ [TimecodeNext]_timecodeVars =>
        [Turn => Number' = (Number - (IF LooksFirst(timecode) /\ timecode.second # 0
                                     THEN 1 + Dropped ELSE 1)) % Day]_timecodeVars
  BY StepBackCounts, OwnRate DEF TypeOK, Exists, Clock, Turn, Number
<1> QED BY <1>1, Inductive, PTL DEF TimecodeSpec, DecreaseIsFrameBefore

-----------------------------------------------------------------------------

\* CVITC.  Its time codes, frames past the rate included.
VitcTime == [hour : Nat, minute : 0 .. 59, second : 0 .. 59, frame : 0 .. 255]

VitcFormats == {24, 25, 29, 30, 50, 59, 60}

\* A time code the format counts is one that exists.
LEMMA ShownExists ==
  ASSUME NEW t \in VitcTime, NEW format, Counts(format)
  PROVE  /\ GoodRate(Rate(format), DroppedAt(format))
         /\ DayAt(format) = FramesPerDay(Rate(format), DroppedAt(format))
         /\ Shown(t, format) # Unknown =>
              /\ Exists(t, Rate(format), DroppedAt(format))
              /\ Shown(t, format) = FrameNumber(t, Rate(format), DroppedAt(format))
         /\ Exists(t, Rate(format), DroppedAt(format)) =>
              /\ Shown(t, format) = FrameNumber(t, Rate(format), DroppedAt(format))
              /\ Below(Shown(t, format), DayAt(format))
              /\ Shown(t, format) # Unknown
<1> DEFINE r == Rate(format)
           d == DroppedAt(format)
<1>1. GoodRate(r, d)
  BY DEF GoodRate, Counts, Rate, DroppedAt
<1>2. DayAt(format) = FramesPerDay(r, d)
  BY DEF DayAt
<1> HIDE DEF r, d
<1>3. ASSUME IsTimecode(t, r, d) PROVE Exists(t, r, d)
  BY <1>3 DEF IsTimecode, Exists, Clock, VitcTime
<1>4. ASSUME Exists(t, r, d) PROVE Below(FrameNumber(t, r, d), FramesPerDay(r, d))
  <2>1. /\ t = make_tc(t.hour, t.minute, t.second, t.frame)
        /\ t.hour \in 0 .. 23 /\ t.minute \in 0 .. 59 /\ t.second \in 0 .. 59
        /\ t.frame \in 0 .. r - 1
        /\ t.second = 0 /\ t.minute % 10 # 0 => t.frame >= d
    BY <1>1, <1>4, Fields
  <2> DEFINE u == make_tc(t.hour, t.minute, t.second, t.frame)
  <2>2. /\ FrameNumber(u, r, d) = Count(r, d, t.hour, t.minute, t.second, t.frame)
        /\ Below(Count(r, d, t.hour, t.minute, t.second, t.frame), FramesPerDay(r, d))
    BY <1>1, <2>1, ExistsMade
  <2> QED BY <2>1, <2>2
<1>5. ASSUME Exists(t, r, d) PROVE Shown(t, format) = FrameNumber(t, r, d)
  BY <1>5 DEF Shown, Exists, r, d
<1>6. ASSUME Shown(t, format) # Unknown PROVE Exists(t, r, d)
  BY <1>3, <1>6 DEF Shown, r, d
<1>7. \A x : Below(x, FramesPerDay(r, d)) => x # Unknown
  BY DEF Below, Unknown
<1> QED BY <1>1, <1>2, <1>4, <1>5, <1>6, <1>7 DEF r, d

\* A tick stays a time code, and is the next of the day where the format counts.
LEMMA TickTime ==
  ASSUME NEW t \in VitcTime, NEW max, max \in 1 .. 255
  PROVE  /\ tick(t, max) \in VitcTime
         /\ (t.frame + 1) % 256 # max => tick(t, max) = [t EXCEPT !.frame = (t.frame + 1) % 256]
         /\ (t.frame + 1) % 256 = max => t.frame + 1 = max /\ tick(t, max).frame \in {0, 2}
<1>1. t.hour \in Nat /\ t.minute \in 0 .. 59 /\ t.second \in 0 .. 59 /\ t.frame \in 0 .. 255
  BY DEF VitcTime
<1>2. incByte(t.frame) = (t.frame + 1) % 256 /\ incByte(t.frame) \in 0 .. 255
      /\ (incByte(t.frame) = max => t.frame + 1 = max)
  BY <1>1 DEF incByte
<1>3. firstFrame(t) \in {0, 2}
  BY DEF firstFrame
<1>4. CASE incByte(t.frame) # max
  <2>1. tick(t, max) = [t EXCEPT !.frame = incByte(t.frame)]
    BY <1>4 DEF tick
  <2>2. tick(t, max) \in VitcTime
    BY <1>2, <2>1 DEF VitcTime
  <2> QED BY <1>2, <1>4, <2>1, <2>2
<1>5. CASE incByte(t.frame) = max
  <2> DEFINE u == tick(t, max)
  <2>1. /\ u.frame = firstFrame(t)
        /\ u = time(u.hour, u.minute, u.second, u.frame)
        /\ u.hour \in Nat /\ u.minute \in 0 .. 59 /\ u.second \in 0 .. 59
    BY <1>1, <1>5 DEF tick, time
  <2> HIDE DEF u
  <2>2. u \in VitcTime
    BY <1>3, <2>1 DEF VitcTime, time
  <2> QED BY <1>2, <1>3, <1>5, <2>1, <2>2 DEF u
<1> QED BY <1>4, <1>5

\* Where the format counts, it is the next number of the day.
LEMMA TickCounts ==
  ASSUME NEW t \in VitcTime, Counts(m_format), Shown(t, m_format) # Unknown
  PROVE  LET u == tick(t, Rate(m_format))
         IN  Shown(u, m_format) = (Shown(t, m_format) + 1) % DayAt(m_format)
<1> DEFINE r == Rate(m_format)
           d == DroppedAt(m_format)
           u == tick(t, r)
<1>1. /\ GoodRate(r, d) /\ DayAt(m_format) = FramesPerDay(r, d)
      /\ Exists(t, r, d) /\ Shown(t, m_format) = FrameNumber(t, r, d)
      /\ r \in 1 .. 255
  BY ShownExists DEF Counts, Rate
<1>2. u = StepAt(t, r, d)
  <2>1. /\ t = make_tc(t.hour, t.minute, t.second, t.frame)
        /\ t.hour \in 0 .. 23 /\ t.minute \in 0 .. 59 /\ t.second \in 0 .. 59
        /\ t.frame \in 0 .. r - 1
    BY <1>1, Fields
  <2>2. incByte(t.frame) = t.frame + 1
    BY <1>1, <2>1 DEF incByte
  <2>3. /\ d \in {0, 2} /\ (m_format = 29 <=> d = 2)
        /\ firstFrame(t) = IF t.second = 59 /\ t.minute % 10 # 9 THEN d ELSE 0
    BY DEF DroppedAt, firstFrame
  <2> HIDE DEF r, d
  <2>4. CASE t.frame + 1 # r
    BY <2>1, <2>2, <2>4 DEF tick, StepAt, make_tc, u
  <2>5. CASE t.frame + 1 = r /\ t.second + 1 # 60
    <3>1. firstFrame(t) = 0
      BY <2>1, <2>3, <2>5
    <3> QED BY <3>1, <2>2, <2>5 DEF tick, StepAt, make_tc, time, u
  <2>6. CASE t.frame + 1 = r /\ t.second + 1 = 60 /\ t.minute + 1 # 60
    <3>1. firstFrame(t) = IF (t.minute + 1) % 10 # 0 THEN d ELSE 0
      BY <2>1, <2>3, <2>6
    <3> QED BY <3>1, <2>2, <2>6 DEF tick, StepAt, make_tc, time, u
  <2>7. CASE t.frame + 1 = r /\ t.second + 1 = 60 /\ t.minute + 1 = 60
    <3>1. firstFrame(t) = 0
      BY <2>1, <2>3, <2>7
    <3> QED BY <3>1, <2>2, <2>7 DEF tick, StepAt, make_tc, time, u
  <2> QED BY <2>4, <2>5, <2>6, <2>7
<1>3. Exists(u, r, d) /\ FrameNumber(u, r, d) = (FrameNumber(t, r, d) + 1) % FramesPerDay(r, d)
  BY <1>1, <1>2, StepCounts
<1>4. u \in VitcTime
  BY <1>1, TickTime
<1>5. Shown(u, m_format) = FrameNumber(u, r, d)
  BY <1>3, <1>4, ShownExists
<1> QED BY <1>1, <1>3, <1>5

-----------------------------------------------------------------------------

\* set.  Frame n is number x of minute j of the ten minutes q of the day.
Place(n, q, j, x) ==
  /\ q \in Nat /\ q <= 143 /\ j \in Nat /\ j <= 9 /\ x \in Nat /\ x < 1800
  /\ j # 0 => x >= 2
  /\ Undropped(n) = 1800 * (10 * q + j) + x
  /\ n = 1800 * (10 * q + j) + x - 18 * q - 2 * j

LEMMA DropFrameMinute ==
  ASSUME m_format = 29, NEW n \in Nat, n < 144 * 17982
  PROVE  \E q, j, x : Place(n, q, j, x)
<1> DEFINE q == n \div 17982
           w == n % 17982
<1>1. q \in Nat /\ q <= 143 /\ w \in Nat /\ w <= 17981 /\ n = 17982 * q + w
  OBVIOUS
<1>2. Undropped(n) = n + (IF w >= 1800 THEN ((w - 2) \div 1798) * 2 ELSE 0) + q * 18
  BY DEF Undropped
<1> HIDE DEF q, w
<1>3. CASE w >= 1800
  <2> DEFINE j == (w - 2) \div 1798
             x == w + 2 * j - 1800 * j
  <2>1. j \in Nat /\ j <= 9 /\ 1798 * j <= w - 2 /\ w - 2 < 1798 * j + 1798
    BY <1>1, <1>3
  <2>2. Undropped(n) = n + j * 2 + q * 18
    BY <1>2, <1>3
  <2> HIDE DEF j
  <2>3. x \in Nat /\ x < 1800 /\ x >= 2
    BY <1>1, <2>1
  <2>4. /\ Undropped(n) = 1800 * (10 * q + j) + x
        /\ n = 1800 * (10 * q + j) + x - 18 * q - 2 * j
    BY <1>1, <2>1, <2>2
  <2> HIDE DEF x
  <2>5. Place(n, q, j, x)
    BY <1>1, <2>1, <2>3, <2>4 DEF Place
  <2> QED BY <2>5
<1>4. CASE w < 1800
  <2>1. Undropped(n) = 1800 * (10 * q + 0) + w /\ n = 1800 * (10 * q + 0) + w - 18 * q - 2 * 0
    BY <1>1, <1>2, <1>4
  <2>2. Place(n, q, 0, w)
    BY <1>1, <1>4, <2>1 DEF Place
  <2> QED BY <2>2
<1>5. w >= 1800 \/ w < 1800
  BY <1>1
<1> QED BY <1>3, <1>4, <1>5

\* The hour, minute, second and frame of a number, as set writes it.
Written(u, r) ==
  LET seconds == u \div r
  IN  time((seconds \div 3600) % 256, (seconds \div 60) % 60, seconds % 60, u % r)

\* Number x of minute k of the day, at r to the second, and how it is written.
OfMinute(u, r, k, x) ==
  k \in 0 .. 1439 /\ x \in 0 .. 60 * r - 1 /\ u = 60 * r * k + x

WrittenSo(u, r, k, x, h, m, s, f) ==
  /\ Written(u, r) = time(h, m, s, f)
  /\ h \in 0 .. 23 /\ m \in 0 .. 59 /\ s \in 0 .. 59 /\ f \in 0 .. r - 1
  /\ 60 * h + m = k /\ r * s + f = x

\* At thirty and at twenty-five there is such a way to write it.
LEMMA WrittenAt30 ==
  ASSUME NEW u, NEW k, NEW x, OfMinute(u, 30, k, x)
  PROVE  \E h, m, s, f : WrittenSo(u, 30, k, x, h, m, s, f)
<1>1. k \in 0 .. 1439 /\ x \in 0 .. 1799 /\ u = 1800 * k + x
  BY DEF OfMinute
<1> DEFINE s == x \div 30
           f == x % 30
           h == k \div 60
           m == k % 60
<1>2. s \in 0 .. 59 /\ f \in 0 .. 29 /\ 30 * s + f = x
  BY <1>1
<1>3. h \in 0 .. 23 /\ m \in 0 .. 59 /\ 60 * h + m = k /\ h % 256 = h
  BY <1>1
<1> HIDE DEF s, f
<1>4. u \div 30 = 60 * k + s /\ u % 30 = f
  BY <1>1, <1>2
<1>5. (60 * k + s) % 60 = s /\ (60 * k + s) \div 60 = k /\ (60 * k + s) \div 3600 = h
  BY <1>1, <1>2
<1>6. m = k % 60
  OBVIOUS
<1> HIDE DEF h, m
<1>7. Written(u, 30) = time(h % 256, m, s, f)
  BY <1>4, <1>5, <1>6 DEF Written
<1>8. WrittenSo(u, 30, k, x, h, m, s, f)
  BY <1>2, <1>3, <1>7 DEF WrittenSo
<1> QED BY <1>8

LEMMA WrittenAt25 ==
  ASSUME NEW u, NEW k, NEW x, OfMinute(u, 25, k, x)
  PROVE  \E h, m, s, f : WrittenSo(u, 25, k, x, h, m, s, f)
<1>1. k \in 0 .. 1439 /\ x \in 0 .. 1499 /\ u = 1500 * k + x
  BY DEF OfMinute
<1> DEFINE s == x \div 25
           f == x % 25
           h == k \div 60
           m == k % 60
<1>2. s \in 0 .. 59 /\ f \in 0 .. 24 /\ 25 * s + f = x
  BY <1>1
<1>3. h \in 0 .. 23 /\ m \in 0 .. 59 /\ 60 * h + m = k /\ h % 256 = h
  BY <1>1
<1> HIDE DEF s, f
<1>4. u \div 25 = 60 * k + s /\ u % 25 = f
  BY <1>1, <1>2
<1>5. (60 * k + s) % 60 = s /\ (60 * k + s) \div 60 = k /\ (60 * k + s) \div 3600 = h
  BY <1>1, <1>2
<1>6. m = k % 60
  OBVIOUS
<1> HIDE DEF h, m
<1>7. Written(u, 25) = time(h % 256, m, s, f)
  BY <1>4, <1>5, <1>6 DEF Written
<1>8. WrittenSo(u, 25, k, x, h, m, s, f)
  BY <1>2, <1>3, <1>7 DEF WrittenSo
<1> QED BY <1>8

\* What set writes is a time code, with a frame the rate it divides by has.
LEMMA WrittenTime ==
  ASSUME NEW u \in Nat, NEW r \in {24, 25, 30}
  PROVE  Written(u, r) \in VitcTime /\ Written(u, r).frame < r
<1> DEFINE seconds == u \div r
<1>1. seconds \in Nat /\ u % r \in 0 .. 255 /\ u % r < r
  OBVIOUS
<1> HIDE DEF seconds
<1>2. (seconds \div 3600) % 256 \in Nat /\ (seconds \div 60) % 60 \in 0 .. 59 /\ seconds % 60 \in 0 .. 59
  BY <1>1
<1>3. Written(u, r) = [hour |-> (seconds \div 3600) % 256, minute |-> (seconds \div 60) % 60,
                       second |-> seconds % 60, frame |-> u % r]
  BY DEF Written, time, seconds
<1> QED BY <1>1, <1>2, <1>3 DEF VitcTime

\* Fields that are a number of the count show it.
HasNumber(rate, dropped, h, m, s, f) ==
  /\ h \in 0 .. 23 /\ m \in 0 .. 59 /\ s \in 0 .. 59 /\ f \in 0 .. rate - 1
  /\ s = 0 /\ m % 10 # 0 => f >= dropped

LEMMA FieldsShown ==
  ASSUME Counts(m_format), NEW r, r = Rate(m_format), NEW d, d = DroppedAt(m_format),
         NEW h, NEW m, NEW s, NEW f, HasNumber(r, d, h, m, s, f)
  PROVE  Shown(time(h, m, s, f), m_format) = Count(r, d, h, m, s, f)
<1> DEFINE t == time(h, m, s, f)
<1>0. /\ h \in 0 .. 23 /\ m \in 0 .. 59 /\ s \in 0 .. 59 /\ f \in 0 .. r - 1
      /\ s = 0 /\ m % 10 # 0 => f >= d
  BY DEF HasNumber
<1>1. t = make_tc(h, m, s, f)
  BY DEF time, make_tc
<1>2. GoodRate(r, d) /\ r \in {25, 30}
  BY DEF GoodRate, Counts, Rate, DroppedAt
<1>3. t \in VitcTime
  BY <1>0, <1>2 DEF VitcTime, time
<1> HIDE DEF t
<1>4. Exists(t, r, d) => Shown(t, m_format) = FrameNumber(t, r, d)
  BY <1>3, ShownExists
<1>5. /\ Exists(make_tc(h, m, s, f), r, d)
      /\ FrameNumber(make_tc(h, m, s, f), r, d) = Count(r, d, h, m, s, f)
  <2>1. GoodRate(r, d)
    BY <1>2
  <2> QED BY <1>0, <2>1, ExistsMade, Zenon
<1> QED BY <1>1, <1>4, <1>5 DEF t

\* set writes the time code of frame n of the day: with two numbers left out ...
LEMMA SetDropFrame ==
  ASSUME m_format = 29, NEW n \in Nat, n < 144 * 17982
  PROVE  Undropped(n) \in Nat /\ Shown(Written(Undropped(n), 30), m_format) = n
<1>1. PICK q, j, x : Place(n, q, j, x)
  BY DropFrameMinute
<1> DEFINE k == 10 * q + j
           u == Undropped(n)
<1>2. /\ k \in 0 .. 1439 /\ x \in 0 .. 1799 /\ q \in Nat /\ j \in Nat /\ j <= 9
      /\ j # 0 => x >= 2
      /\ u = 1800 * k + x /\ n = 1800 * k + x - 18 * q - 2 * j
  BY <1>1 DEF Place
<1>3. k % 10 = j /\ k - k \div 10 = 9 * q + j
  BY <1>2
<1> HIDE DEF k, u
<1>4. OfMinute(u, 30, k, x)
  BY <1>2 DEF OfMinute
<1>5. PICK h, m, s, f : WrittenSo(u, 30, k, x, h, m, s, f)
  BY <1>4, WrittenAt30
<1>6. /\ Written(u, 30) = time(h, m, s, f)
      /\ h \in 0 .. 23 /\ m \in 0 .. 59 /\ s \in 0 .. 59 /\ f \in 0 .. 29
      /\ 60 * h + m = k /\ 30 * s + f = x
  BY <1>5 DEF WrittenSo
<1>7. m % 10 = j
  BY <1>2, <1>3, <1>6
<1>8. s = 0 /\ m % 10 # 0 => f >= 2
  BY <1>2, <1>6, <1>7
<1>9. HasNumber(30, 2, h, m, s, f)
  BY <1>6, <1>8 DEF HasNumber
<1>10. Rate(m_format) = 30 /\ DroppedAt(m_format) = 2 /\ Counts(m_format)
  BY DEF Rate, DroppedAt, Counts
<1>11. Shown(time(h, m, s, f), m_format) = Count(30, 2, h, m, s, f)
  BY <1>9, <1>10, FieldsShown
<1>12. Count(30, 2, h, m, s, f) = (60 * k + s) * 30 + f - 2 * (k - k \div 10)
  BY <1>2, <1>6 DEF Count
<1>13. (60 * k + s) * 30 + f - 2 * (9 * q + j) = n /\ u \in Nat
  BY <1>2, <1>6
<1> QED BY <1>3, <1>6, <1>11, <1>12, <1>13 DEF u

\* ... and with none.
LEMMA SetPlain ==
  ASSUME m_format \in {25, 30}, NEW n \in Nat, n < 86400 * Rate(m_format)
  PROVE  Shown(Written(n, Rate(m_format)), m_format) = n
<1>1. Counts(m_format) /\ DroppedAt(m_format) = 0
  BY DEF Counts, DroppedAt
<1>2. ASSUME m_format = 30
      PROVE  Shown(Written(n, 30), m_format) = n
  <2>1. Rate(m_format) = 30
    BY <1>2 DEF Rate
  <2> DEFINE k == n \div 1800
             x == n % 1800
  <2>2. k \in 0 .. 1439 /\ x \in 0 .. 1799 /\ n = 1800 * k + x
    BY <2>1
  <2> HIDE DEF k, x
  <2>3. OfMinute(n, 30, k, x)
    BY <2>2 DEF OfMinute
  <2>4. PICK h, m, s, f : WrittenSo(n, 30, k, x, h, m, s, f)
    BY <2>3, WrittenAt30
  <2>5. /\ Written(n, 30) = time(h, m, s, f)
        /\ h \in 0 .. 23 /\ m \in 0 .. 59 /\ s \in 0 .. 59 /\ f \in 0 .. 29
        /\ 60 * h + m = k /\ 30 * s + f = x
    BY <2>4 DEF WrittenSo
  <2>6. HasNumber(30, 0, h, m, s, f)
    BY <2>5 DEF HasNumber
  <2>7. Shown(time(h, m, s, f), m_format) = Count(30, 0, h, m, s, f)
    BY <1>1, <2>1, <2>6, FieldsShown
  <2>8. Count(30, 0, h, m, s, f) = (60 * (60 * h + m) + s) * 30 + f
    BY <2>5 DEF Count
  <2>9. (60 * (60 * h + m) + s) * 30 + f = n
    BY <2>2, <2>5
  <2> QED BY <2>5, <2>7, <2>8, <2>9
<1>3. ASSUME m_format = 25
      PROVE  Shown(Written(n, 25), m_format) = n
  <2>1. Rate(m_format) = 25
    BY <1>3 DEF Rate
  <2> DEFINE k == n \div 1500
             x == n % 1500
  <2>2. k \in 0 .. 1439 /\ x \in 0 .. 1499 /\ n = 1500 * k + x
    BY <2>1
  <2> HIDE DEF k, x
  <2>3. OfMinute(n, 25, k, x)
    BY <2>2 DEF OfMinute
  <2>4. PICK h, m, s, f : WrittenSo(n, 25, k, x, h, m, s, f)
    BY <2>3, WrittenAt25
  <2>5. /\ Written(n, 25) = time(h, m, s, f)
        /\ h \in 0 .. 23 /\ m \in 0 .. 59 /\ s \in 0 .. 59 /\ f \in 0 .. 24
        /\ 60 * h + m = k /\ 25 * s + f = x
    BY <2>4 DEF WrittenSo
  <2>6. HasNumber(25, 0, h, m, s, f)
    BY <2>5 DEF HasNumber
  <2>7. Shown(time(h, m, s, f), m_format) = Count(25, 0, h, m, s, f)
    BY <1>1, <2>1, <2>6, FieldsShown
  <2>8. Count(25, 0, h, m, s, f) = (60 * (60 * h + m) + s) * 25 + f
    BY <2>5 DEF Count
  <2>9. (60 * (60 * h + m) + s) * 25 + f = n
    BY <2>2, <2>5
  <2> QED BY <2>5, <2>7, <2>8, <2>9
<1>4. (m_format = 30 => Rate(m_format) = 30) /\ (m_format = 25 => Rate(m_format) = 25)
  BY DEF Rate
<1> QED BY <1>2, <1>3, <1>4

\* What set writes is a time code with a frame the rate has, and where the
\* format counts it is frame n.
LEMMA SetShows ==
  ASSUME m_format \in VitcFormats, NEW n \in Nat, n < FramesPerDay(framePerSec, DroppedAt(m_format))
  PROVE  LET t == Written(Undropped(n), framePerSec)
         IN  /\ t \in VitcTime
             /\ t.frame >= maxFrame => m_format = 60
             /\ Counts(m_format) => Shown(t, m_format) = n /\ Below(n, DayAt(m_format))
<1> DEFINE t == Written(Undropped(n), framePerSec)
<1>1. framePerSec \in {24, 25, 30} /\ (maxFrame < framePerSec => m_format = 60)
  BY DEF framePerSec, maxFrame, VitcFormats
<1>2. Undropped(n) \in Nat
  <2>1. n \div 17982 \in Nat /\ n % 17982 \in Nat
    OBVIOUS
  <2>2. n % 17982 >= 1800 => (((n % 17982) - 2) \div 1798) \in Nat
    BY <2>1
  <2> QED BY <2>1, <2>2 DEF Undropped
<1>3. t \in VitcTime /\ t.frame < framePerSec /\ t.frame \in Nat
  <2>1. t \in VitcTime /\ t.frame < framePerSec
    BY <1>1, <1>2, WrittenTime
  <2>2. \A v \in VitcTime : v.frame \in Nat
    BY DEF VitcTime
  <2> QED BY <2>1, <2>2
<1>4. maxFrame \in Nat
  BY DEF maxFrame
<1>5. t.frame >= maxFrame => m_format = 60
  BY <1>1, <1>3, <1>4
<1>6. ASSUME Counts(m_format) PROVE Shown(t, m_format) = n /\ Below(n, DayAt(m_format))
  <2>1. framePerSec = Rate(m_format)
    BY <1>6 DEF framePerSec, Rate, Counts
  <2>2. Below(n, DayAt(m_format))
    BY <2>1 DEF DayAt, Below
  <2>3. CASE m_format = 29
    <3>1. framePerSec = 30 /\ FramesPerDay(30, 2) = 144 * 17982 /\ DroppedAt(m_format) = 2
      BY <2>3 DEF framePerSec, FramesPerDay, DroppedAt
    <3> QED BY <2>2, <2>3, <3>1, SetDropFrame
  <2>4. CASE m_format # 29
    <3>1. m_format \in {25, 30} /\ DroppedAt(m_format) = 0 /\ Undropped(n) = n
      BY <1>6, <2>4 DEF Counts, DroppedAt, Undropped
    <3>2. Rate(m_format) \in {25, 30} /\ FramesPerDay(Rate(m_format), 0) = 86400 * Rate(m_format)
      BY DEF Rate, FramesPerDay
    <3>3. n < 86400 * Rate(m_format)
      BY <2>1, <3>1, <3>2
    <3> QED BY <2>1, <2>2, <3>1, <3>3, SetPlain
  <2> QED BY <2>3, <2>4
<1> QED BY <1>3, <1>5, <1>6
-----------------------------------------------------------------------------

\* add.  Its loop is a function of the turns; there is a least number in every
\* set of numbers that has one, which stands for an induction on them.
LEMMA LeastNatural ==
  ASSUME NEW T, T \subseteq Nat, T # {}
  PROVE  \E x \in T : \A y \in T : x <= y
<1> DEFINE R == OpToRel(<, Nat)
<1>1. IsWellFoundedOn(R, Nat)
  BY NatLessThanWellFounded
<1>2. \A y, x \in Nat : y < x => <<y, x>> \in R
  BY DEF OpToRel
<1> HIDE DEF R
<1>3. PICK x \in T : \A y \in T : ~ (<<y, x>> \in R)
  BY <1>1, WFMin
<1>4. ASSUME NEW y \in T PROVE x <= y
  <2>1. x \in Nat /\ y \in Nat
    OBVIOUS
  <2>2. ~(y < x)
    BY <1>2, <1>3, <2>1
  <2> QED BY <2>1, <2>2
<1> QED BY <1>4

Run(g, n, t, max) ==
  g = [i \in 0 .. n |-> IF i = 0 THEN t ELSE tick(g[i - 1], max)]

\* The time codes of n turns, one from the other.
LEMMA RunTurns ==
  ASSUME NEW t, NEW max, NEW n \in Nat, NEW g, Run(g, n, t, max)
  PROVE  g[0] = t /\ \A i \in 0 .. n : i # 0 => g[i] = tick(g[i - 1], max)
<1>1. \A i \in 0 .. n : g[i] = IF i = 0 THEN t ELSE tick(g[i - 1], max)
  <2> DEFINE h == [i \in 0 .. n |-> IF i = 0 THEN t ELSE tick(g[i - 1], max)]
  <2>1. \A i \in 0 .. n : h[i] = IF i = 0 THEN t ELSE tick(g[i - 1], max)
    OBVIOUS
  <2>2. g = h
    BY DEF Run
  <2> HIDE DEF h
  <2> QED BY <2>1, <2>2
<1>2. 0 \in 0 .. n
  OBVIOUS
<1> QED BY <1>1, <1>2

\* However many turns there are, they can be taken.
LEMMA RunExists ==
  ASSUME NEW t, NEW max, NEW n \in Nat
  PROVE  \E g : Run(g, n, t, max)
<1> DEFINE T == {k \in Nat : ~ \E g : Run(g, k, t, max)}
<1> SUFFICES ASSUME T # {} PROVE FALSE
  OBVIOUS
<1>1. PICK x \in T : \A y \in T : x <= y
  <2>1. T \subseteq Nat
    OBVIOUS
  <2> HIDE DEF T
  <2> QED BY <2>1, LeastNatural
<1>2. x # 0
  <2> DEFINE g == [i \in 0 .. 0 |-> t]
  <2>1. \A i \in 0 .. 0 : t = IF i = 0 THEN t ELSE tick(g[i - 1], max)
    OBVIOUS
  <2>2. g = [i \in 0 .. 0 |-> IF i = 0 THEN t ELSE tick(g[i - 1], max)]
    BY <2>1
  <2>3. Run(g, 0, t, max)
    BY <2>2 DEF Run
  <2> HIDE DEF g
  <2> QED BY <2>3
<1>3. x - 1 \in Nat /\ x \in Nat /\ ~(x <= x - 1)
  BY <1>2
<1>4. PICK g : Run(g, x - 1, t, max)
  BY <1>1, <1>3
<1> DEFINE h == [i \in 0 .. x |-> IF i = 0 THEN t ELSE tick(g[i - 1], max)]
<1>5. ASSUME NEW i \in 0 .. x, i # 0 PROVE g[i - 1] = h[i - 1]
  <2>1. i - 1 \in 0 .. x - 1 /\ i - 1 \in 0 .. x
    BY <1>3, <1>5
  <2>2. h[i - 1] = IF i - 1 = 0 THEN t ELSE tick(g[(i - 1) - 1], max)
    BY <2>1
  <2>3. g[i - 1] = IF i - 1 = 0 THEN t ELSE tick(g[(i - 1) - 1], max)
    <3>1. g[0] = t /\ \A j \in 0 .. x - 1 : j # 0 => g[j] = tick(g[j - 1], max)
      BY <1>3, <1>4, RunTurns
    <3> HIDE DEF h
    <3> QED BY <2>1, <3>1
  <2> QED BY <2>2, <2>3
<1>6. \A i \in 0 .. x : (IF i = 0 THEN t ELSE tick(g[i - 1], max)) = IF i = 0 THEN t ELSE tick(h[i - 1], max)
  <2> HIDE DEF h
  <2> QED BY <1>5
<1>7. h = [i \in 0 .. x |-> IF i = 0 THEN t ELSE tick(h[i - 1], max)]
  BY <1>6
<1>8. Run(h, x, t, max)
  BY <1>7 DEF Run
<1> HIDE DEF h
<1> QED BY <1>8

\* One frame on, at the days there are.
LEMMA NextOfDay ==
  ASSUME Counts(m_format), NEW a \in Nat
  PROVE  ((a % DayAt(m_format)) + 1) % DayAt(m_format) = (a + 1) % DayAt(m_format)
<1>1. DayAt(m_format) \in {25 * 86400, 30 * 86400, 144 * 17982}
  BY DEF DayAt, FramesPerDay, Rate, DroppedAt, Counts
<1>2. ((a % (25 * 86400)) + 1) % (25 * 86400) = (a + 1) % (25 * 86400)
  OBVIOUS
<1>3. ((a % (30 * 86400)) + 1) % (30 * 86400) = (a + 1) % (30 * 86400)
  OBVIOUS
<1>4. ((a % (144 * 17982)) + 1) % (144 * 17982) = (a + 1) % (144 * 17982)
  OBVIOUS
<1> QED BY <1>1, <1>2, <1>3, <1>4

\* After each turn of add the time code is one, keeps below the frame it counts
\* to if it was, and is as many frames of the day on.
LEMMA RunCounts ==
  ASSUME NEW t \in VitcTime, NEW max, max \in 1 .. 255, max > 2,
         NEW n \in Nat, NEW g, Run(g, n, t, max), NEW i \in 0 .. n
  PROVE  /\ g[i] \in VitcTime
         /\ t.frame < max => g[i].frame < max
         /\ Counts(m_format) /\ max = Rate(m_format) /\ Shown(t, m_format) # Unknown =>
              Shown(g[i], m_format) = (Shown(t, m_format) + i) % DayAt(m_format)
<1> DEFINE Good(k) ==
             /\ g[k] \in VitcTime
             /\ t.frame < max => g[k].frame < max
             /\ Counts(m_format) /\ max = Rate(m_format) /\ Shown(t, m_format) # Unknown =>
                  Shown(g[k], m_format) = (Shown(t, m_format) + k) % DayAt(m_format)
           T == {k \in 0 .. n : ~Good(k)}
<1>1. g[0] = t /\ \A k \in 0 .. n : k # 0 => g[k] = tick(g[k - 1], max)
  BY RunTurns
<1>2. Good(0)
  <2>1. ASSUME Counts(m_format), Shown(t, m_format) # Unknown
        PROVE  Shown(t, m_format) = (Shown(t, m_format) + 0) % DayAt(m_format)
    <3>1. Below(Shown(t, m_format), DayAt(m_format))
      BY <2>1, ShownExists
    <3>2. DayAt(m_format) \in Nat \ {0}
      BY <2>1, ShownExists, Midnight
    <3>3. Shown(t, m_format) + 0 = Shown(t, m_format)
      BY <3>1 DEF Below
    <3> QED BY <3>1, <3>2, <3>3, Modulo
  <2> QED BY <1>1, <2>1
<1>3. ASSUME NEW k \in 0 .. n, k # 0, Good(k - 1) PROVE Good(k)
  <2> DEFINE u == g[k - 1]
  <2>1. g[k] = tick(u, max) /\ u \in VitcTime /\ k - 1 \in Nat /\ (k - 1) + 1 = k
    BY <1>1, <1>3
  <2>2. /\ tick(u, max) \in VitcTime
        /\ (u.frame + 1) % 256 # max => tick(u, max) = [u EXCEPT !.frame = (u.frame + 1) % 256]
        /\ (u.frame + 1) % 256 = max => tick(u, max).frame \in {0, 2}
    <3> HIDE DEF u
    <3> QED BY <2>1, TickTime
  <2>3. u.frame \in 0 .. 255 /\ \A f : [u EXCEPT !.frame = f].frame = f
    BY <2>1 DEF VitcTime
  <2>4. ASSUME u.frame < max PROVE tick(u, max).frame < max
    <3>1. (u.frame + 1) % 256 = u.frame + 1
      BY <2>3, <2>4
    <3>2. CASE u.frame + 1 = max
      <4>1. tick(u, max).frame \in {0, 2}
        BY <2>2, <3>1, <3>2
      <4> QED BY <4>1
    <3>3. CASE u.frame + 1 # max
      <4>1. tick(u, max).frame = u.frame + 1
        BY <2>2, <2>3, <3>1, <3>3
      <4>2. u.frame \in 0 .. 255
        BY <2>3
      <4> HIDE DEF u
      <4> QED BY <2>4, <3>3, <4>1, <4>2
    <3> QED BY <3>2, <3>3
  <2>5. ASSUME Counts(m_format), max = Rate(m_format), Shown(t, m_format) # Unknown
        PROVE  Shown(tick(u, max), m_format) = (Shown(t, m_format) + k) % DayAt(m_format)
    <3> DEFINE a == Shown(t, m_format) + (k - 1)
    <3>1. a \in Nat /\ a + 1 = Shown(t, m_format) + k
      <4>1. Below(Shown(t, m_format), DayAt(m_format))
        BY <2>5, ShownExists
      <4> QED BY <2>1, <4>1 DEF Below
    <3>2. Shown(u, m_format) = a % DayAt(m_format)
      BY <1>3, <2>5
    <3>3. a % DayAt(m_format) # Unknown
      <4>1. DayAt(m_format) \in Nat \ {0}
        BY <2>5, ShownExists, Midnight
      <4>2. \A d \in Nat \ {0} : a % d # -1
        BY <3>1
      <4> HIDE DEF a
      <4> QED BY <4>1, <4>2 DEF Unknown
    <3> HIDE DEF a, u
    <3>4. Shown(tick(u, max), m_format) = (Shown(u, m_format) + 1) % DayAt(m_format)
      BY <2>1, <2>5, <3>2, <3>3, TickCounts
    <3> QED BY <2>5, <3>1, <3>2, <3>4, NextOfDay
  <2> HIDE DEF u
  <2>6. Good(k - 1) => (t.frame < max => u.frame < max)
    BY DEF u
  <2> QED BY <1>3, <2>1, <2>2, <2>4, <2>5, <2>6
<1>4. T = {}
  <2> SUFFICES ASSUME T # {} PROVE FALSE
    OBVIOUS
  <2> HIDE DEF Good
  <2>1. T \subseteq Nat
    OBVIOUS
  <2>2. PICK x \in T : \A y \in T : x <= y
    <3> HIDE DEF T
    <3> QED BY <2>1, LeastNatural
  <2>3. x \in 0 .. n /\ ~Good(x) /\ x # 0
    BY <1>2
  <2>4. x - 1 \in 0 .. n /\ ~(x <= x - 1)
    BY <2>3
  <2>5. Good(x - 1)
    BY <2>2, <2>4
  <2> QED BY <1>3, <2>3, <2>5
<1> HIDE DEF Good
<1>5. Good(i)
  BY <1>4
<1> QED BY <1>5 DEF Good
-----------------------------------------------------------------------------

\* A frame past the rate was counted to from the rate, or taken over from
\* another format or another second: since falls short of it.
PastSince ==
  tc.frame >= maxFrame =>
    /\ switched > 0 \/ late \/ m_format \in {24, 60}
    /\ since <= tc.frame - maxFrame

\* What the caller holds for add has a frame of the format it was taken in.
HeldFits(p) ==
  \/ p.time.frame < 25
  \/ p.time.frame < 30 /\ p.format \in {29, 30}
  \/ p.format = 30 /\ p.late

VitcInv ==
  /\ m_format \in VitcFormats /\ tc \in VitcTime
  /\ pc \in [time : VitcTime, format : Nat, late : BOOLEAN] /\ (pc # NoTime => HeldFits(pc))
  /\ since \in Nat /\ switched \in Nat /\ late \in BOOLEAN
  /\ ShowsTheFrame /\ PastSince

LEMMA VitcInit == Init => VitcInv
<1> SUFFICES ASSUME Init PROVE VitcInv
  OBVIOUS
<1>1. tc \in VitcTime /\ m_format \in VitcFormats /\ tc.frame = 0
  BY DEF Init, VitcTime, VitcFormats, time
<1>2. pc = NoTime /\ pc \in [time : VitcTime, format : Nat, late : BOOLEAN]
  BY DEF Init, NoTime, VitcTime, time
<1>3. ShowsTheFrame
  <2>1. Counts(m_format) /\ Rate(m_format) = 25 /\ DroppedAt(m_format) = 0
    BY DEF Init, Counts, Rate, DroppedAt
  <2>2. HasNumber(25, 0, 0, 0, 0, 0)
    BY DEF HasNumber
  <2>3. Shown(time(0, 0, 0, 0), m_format) = Count(25, 0, 0, 0, 0, 0)
    BY <2>1, <2>2, FieldsShown
  <2>4. Count(25, 0, 0, 0, 0, 0) = 0
    BY Midnight DEF GoodRate
  <2> QED BY <2>3, <2>4 DEF Init, ShowsTheFrame
<1>4. PastSince
  BY <1>1 DEF Init, PastSince, maxFrame
<1> QED BY <1>1, <1>2, <1>3, <1>4 DEF Init, VitcInv

\* inc: the next frame, or a frame past the rate that grows with since.
LEMMA VitcCounts == VitcInv /\ inc => VitcInv'
<1> SUFFICES ASSUME VitcInv, inc PROVE VitcInv'
  OBVIOUS
<1> DEFINE max == maxFrame
<1>1. max \in {25, 30, 50, 60} /\ max' = max /\ max \in 1 .. 255 /\ max > 2
  BY DEF maxFrame, inc
<1>2. tc' = tick(tc, max) /\ since' = since + 1 /\ UNCHANGED <<m_format, pc, switched, late>>
  BY DEF inc
<1>3. tc \in VitcTime /\ since \in Nat
  BY DEF VitcInv
<1> HIDE DEF max
<1>4. /\ tc' \in VitcTime
      /\ (tc.frame + 1) % 256 # max => tc' = [tc EXCEPT !.frame = (tc.frame + 1) % 256]
      /\ (tc.frame + 1) % 256 = max => tc'.frame \in {0, 2}
  <2>1. /\ tick(tc, max) \in VitcTime
        /\ (tc.frame + 1) % 256 # max => tick(tc, max) = [tc EXCEPT !.frame = (tc.frame + 1) % 256]
        /\ (tc.frame + 1) % 256 = max => tick(tc, max).frame \in {0, 2}
    BY <1>1, <1>3, TickTime
  <2> QED BY <1>2, <2>1, Zenon
<1>5. ShowsTheFrame'
  <2> SUFFICES ASSUME num' # Unknown PROVE Shown(tc', m_format) = num'
    BY <1>2 DEF ShowsTheFrame
  <2>1. num # Unknown /\ num' = (num + 1) % DayAt(m_format)
    BY DEF inc
  <2>2. Shown(tc, m_format) = num
    BY <2>1 DEF VitcInv, ShowsTheFrame
  <2>3. Counts(m_format) /\ max = Rate(m_format)
    BY <2>1, <2>2 DEF Shown, Counts, Rate, maxFrame, max
  <2> QED BY <1>2, <1>3, <2>1, <2>2, <2>3, TickCounts
<1>6. PastSince'
  <2> SUFFICES ASSUME tc'.frame >= max
               PROVE  /\ switched > 0 \/ late \/ m_format \in {24, 60}
                      /\ since + 1 <= tc'.frame - max
    BY <1>1, <1>2 DEF PastSince, max
  <2>1. tc.frame \in 0 .. 255 /\ tc'.frame \in 0 .. 255
    BY <1>3, <1>4 DEF VitcTime
  <2>2. (tc.frame + 1) % 256 # max
    BY <1>1, <1>4, <2>1
  <2>3. tc'.frame = (tc.frame + 1) % 256
    BY <1>3, <1>4, <2>2 DEF VitcTime
  <2>4. tc'.frame = tc.frame + 1
    BY <1>1, <2>1, <2>3
  <2>5. tc.frame >= max
    BY <1>1, <2>1, <2>2, <2>3, <2>4
  <2>6. /\ switched > 0 \/ late \/ m_format \in {24, 60}
        /\ since <= tc.frame - max
    BY <2>5 DEF VitcInv, PastSince, max
  <2> QED BY <1>1, <1>3, <2>1, <2>4, <2>6
<1>7. m_format' = m_format /\ pc' = pc /\ switched' = switched /\ late' = late /\ since' \in Nat
  BY <1>2, <1>3
<1>8. NoTime' = NoTime /\ (HeldFits(pc))' = HeldFits(pc)
  BY <1>7 DEF NoTime, HeldFits, time
<1> QED BY <1>4, <1>5, <1>6, <1>7, <1>8 DEF VitcInv

\* setFormat: what the time code shows now is what it shows.
LEMMA VitcFormat == ASSUME VitcInv, NEW format \in Formats, setFormat(format) PROVE VitcInv'
<1>1. /\ m_format' = format /\ num' = Shown(tc, format) /\ since' = 0
      /\ switched' = switched + 1 /\ UNCHANGED <<tc, pc, late>>
  BY DEF setFormat
<1>2. format \in VitcFormats
  BY CVITCAssumption DEF VitcFormats
<1>3. ShowsTheFrame'
  BY <1>1 DEF ShowsTheFrame
<1>4. PastSince'
  <2>1. tc.frame \in Nat /\ maxFrame' \in Nat /\ switched \in Nat
    BY DEF VitcInv, VitcTime, maxFrame
  <2> QED BY <1>1, <2>1 DEF PastSince
<1>5. (HeldFits(pc))' = HeldFits(pc)
  BY <1>1 DEF HeldFits
<1> QED BY <1>1, <1>2, <1>3, <1>4, <1>5 DEF VitcInv

\* set: frame n, in a second that has it.
LEMMA VitcSet == ASSUME VitcInv, NEW n \in Numbers, set(n) PROVE VitcInv'
<1> DEFINE t == Written(Undropped(n), framePerSec)
<1>1. /\ tc' = t /\ since' = 0 /\ switched' = 0 /\ late' = FALSE /\ UNCHANGED <<m_format, pc>>
      /\ num' = IF Counts(m_format) THEN n ELSE Unknown
      /\ n < FramesPerDay(framePerSec, DroppedAt(m_format))
  BY DEF set, Written
<1>2. n \in Nat /\ m_format \in VitcFormats
  BY CVITCAssumption DEF VitcInv
<1>3. /\ t \in VitcTime
      /\ t.frame >= maxFrame => m_format = 60
      /\ Counts(m_format) => Shown(t, m_format) = n
  BY <1>1, <1>2, SetShows
<1> HIDE DEF t
<1>4. ShowsTheFrame'
  BY <1>1, <1>3 DEF ShowsTheFrame
<1>5. PastSince'
  <2>1. maxFrame' = maxFrame /\ maxFrame \in Nat /\ t.frame \in Nat
    BY <1>1, <1>3 DEF maxFrame, VitcTime
  <2> QED BY <1>1, <1>3, <2>1 DEF PastSince
<1>6. (HeldFits(pc))' = HeldFits(pc)
  BY <1>1 DEF HeldFits
<1> QED BY <1>1, <1>3, <1>4, <1>5, <1>6 DEF VitcInv

\* loadFromPCtime: the frame is a whole number of its milliseconds.
LEMMA VitcLoad ==
  ASSUME VitcInv, NEW t \in PcTimes, NEW ms \in Millis, loadFromPCtime(t, ms)
  PROVE  VitcInv'
<1> DEFINE f == ms \div msperframe
           p == [time |-> [t EXCEPT !.frame = f], format |-> m_format, late |-> m_format = 30 /\ ms >= 990]
<1>1. pc' = p /\ UNCHANGED <<m_format, tc, num, since, switched, late>>
  BY DEF loadFromPCtime, history
<1>2. /\ f \in 0 .. 255
      /\ f < 25 \/ (f < 30 /\ m_format \in {29, 30}) \/ (m_format = 30 /\ ms >= 990)
  <2>1. ms \in 0 .. 999
    BY CVITCAssumption
  <2>2. CASE m_format = 30
    BY <2>1, <2>2 DEF msperframe
  <2>3. CASE m_format = 29
    BY <2>1, <2>3 DEF msperframe
  <2>4. CASE m_format \notin {29, 30}
    BY <2>1, <2>4 DEF msperframe
  <2> QED BY <2>2, <2>3, <2>4
<1> HIDE DEF f
<1>3. [t EXCEPT !.frame = f] \in VitcTime /\ [t EXCEPT !.frame = f].frame = f
  <2>1. t \in [hour : 0 .. 23, minute : 0 .. 59, second : 0 .. 59, frame : {0}]
    BY CVITCAssumption
  <2> QED BY <1>2, <2>1 DEF VitcTime
<1>4. m_format \in Nat
  BY DEF VitcInv, VitcFormats
<1>5. p \in [time : VitcTime, format : Nat, late : BOOLEAN] /\ HeldFits(p)
  <2>1. (m_format = 30 /\ ms >= 990) \in BOOLEAN
    OBVIOUS
  <2>2. p \in [time : VitcTime, format : Nat, late : BOOLEAN]
    BY <1>3, <1>4, <2>1
  <2>3. p.time.frame = f /\ p.format = m_format /\ p.late = (m_format = 30 /\ ms >= 990)
    BY <1>3
  <2> HIDE DEF p
  <2>4. HeldFits(p)
    <3>1. CASE f < 25 \/ (f < 30 /\ m_format \in {29, 30})
      BY <2>3, <3>1 DEF HeldFits
    <3>2. CASE m_format = 30 /\ ms >= 990
      <4>1. p.late /\ p.format = 30
        BY <2>3, <3>2, Zenon
      <4> QED BY <4>1 DEF HeldFits
    <3> QED BY <1>2, <3>1, <3>2
  <2> QED BY <2>2, <2>4
<1>6. ShowsTheFrame' /\ PastSince'
  BY <1>1 DEF VitcInv, ShowsTheFrame, PastSince, maxFrame
<1> HIDE DEF p
<1>7. (HeldFits(pc))' = HeldFits(p)
  BY <1>1 DEF HeldFits
<1> QED BY <1>1, <1>5, <1>6, <1>7 DEF VitcInv

\* add: as many frames on, still below the frame it counts to.
LEMMA VitcAdd == ASSUME VitcInv, NEW frameNum \in Adds, add(frameNum) PROVE VitcInv'
<1> DEFINE max == maxFrameOfAdd
           Loop(g) == g = [i \in 0 .. frameNum |-> IF i = 0 THEN pc.time ELSE tick(g[i - 1], max)]
           counted == CHOOSE g : Loop(g)
           u == counted[frameNum]
<1>1. /\ pc # NoTime /\ pc' = NoTime /\ UNCHANGED m_format
      /\ tc' = u
      /\ num' = IF Shown(pc.time, m_format) = Unknown THEN Unknown
                ELSE (Shown(pc.time, m_format) + frameNum) % DayAt(m_format)
      /\ since' = 0 /\ switched' = (IF pc.format = m_format THEN 0 ELSE 1) /\ late' = pc.late
  BY DEF add
<1>2. frameNum \in Nat /\ frameNum \in 0 .. frameNum
  BY CVITCAssumption
<1>3. max \in 1 .. 255 /\ max > 2 /\ max \in {25, 30}
  BY DEF maxFrameOfAdd
<1>4. Run(counted, frameNum, pc.time, max)
  <2>1. PICK g : Run(g, frameNum, pc.time, max)
    BY <1>2, RunExists
  <2>2. Loop(g)
    BY <2>1 DEF Run
  <2>3. Loop(counted)
    <3> HIDE DEF Loop
    <3> QED BY <2>2
  <2> QED BY <2>3 DEF Run
<1> HIDE DEF max, counted
<1>5. pc.time \in VitcTime /\ HeldFits(pc) /\ pc.late \in BOOLEAN
  BY <1>1 DEF VitcInv
<1>6. /\ u \in VitcTime
      /\ pc.time.frame < max => u.frame < max
      /\ Counts(m_format) /\ max = Rate(m_format) /\ Shown(pc.time, m_format) # Unknown =>
           Shown(u, m_format) = (Shown(pc.time, m_format) + frameNum) % DayAt(m_format)
  <2>1. pc.time \in VitcTime /\ max \in 1 .. 255 /\ max > 2 /\ frameNum \in Nat /\ frameNum \in 0 .. frameNum
    BY <1>2, <1>3, <1>5
  <2> DEFINE t == pc.time
  <2>2. t \in VitcTime /\ Run(counted, frameNum, t, max)
    BY <1>4, <1>5
  <2> HIDE DEF t
  <2>3. ASSUME NEW i \in 0 .. frameNum
        PROVE  /\ counted[i] \in VitcTime
               /\ t.frame < max => counted[i].frame < max
               /\ Counts(m_format) /\ max = Rate(m_format) /\ Shown(t, m_format) # Unknown =>
                    Shown(counted[i], m_format) = (Shown(t, m_format) + i) % DayAt(m_format)
    BY <2>1, <2>2, RunCounts
  <2> QED BY <2>1, <2>3 DEF t
<1> HIDE DEF u
<1>7. ShowsTheFrame'
  <2> SUFFICES ASSUME num' # Unknown PROVE Shown(u, m_format) = num'
    BY <1>1 DEF ShowsTheFrame
  <2>1. Shown(pc.time, m_format) # Unknown
    BY <1>1
  <2>2. Counts(m_format) /\ max = Rate(m_format)
    BY <2>1 DEF Shown, Counts, Rate, maxFrameOfAdd, max
  <2> QED BY <1>1, <1>6, <2>1, <2>2
<1>8. PastSince'
  <2> SUFFICES ASSUME u.frame >= maxFrame, pc.format = m_format, ~pc.late, m_format \notin {24, 60}
               PROVE  FALSE
    <3>1. maxFrame' = maxFrame /\ maxFrame \in Nat /\ u.frame \in Nat
      BY <1>1, <1>6 DEF maxFrame, VitcTime
    <3>2. u.frame >= maxFrame => 0 <= u.frame - maxFrame
      BY <3>1
    <3> QED BY <1>1, <3>1, <3>2 DEF PastSince
  <2>1. m_format \in {25, 29, 30, 50, 59}
    BY DEF VitcInv, VitcFormats
  <2>2. max <= maxFrame /\ maxFrame \in Nat
    BY <2>1 DEF max, maxFrame, maxFrameOfAdd
  <2>3. pc.time.frame < max
    <3>1. pc.time.frame \in Nat
      BY <1>5 DEF VitcTime
    <3>2. m_format \in {29, 30} => max = 30
      BY DEF max, maxFrameOfAdd
    <3> QED BY <1>3, <1>5, <3>1, <3>2 DEF HeldFits
  <2>4. u.frame \in Nat
    BY <1>6 DEF VitcTime
  <2> QED BY <1>3, <1>6, <2>2, <2>3, <2>4
<1>9. NoTime \in [time : VitcTime, format : Nat, late : BOOLEAN] /\ NoTime' = NoTime
  BY DEF NoTime, VitcTime, time
<1>10. m_format' \in VitcFormats /\ since' \in Nat /\ switched' \in Nat /\ late' \in BOOLEAN
  BY <1>1, <1>5 DEF VitcInv
<1> QED BY <1>1, <1>6, <1>7, <1>8, <1>9, <1>10 DEF VitcInv

LEMMA VitcNext == VitcInv /\ [Next]_vars => VitcInv'
<1> SUFFICES ASSUME VitcInv, [Next]_vars PROVE VitcInv'
  OBVIOUS
<1>1. CASE UNCHANGED vars
  <2>1. UNCHANGED <<m_format, tc, pc, num, since, switched, late>>
    BY <1>1 DEF vars, history
  <2>2. (HeldFits(pc))' = HeldFits(pc) /\ NoTime' = NoTime
    BY <2>1 DEF HeldFits, NoTime, time
  <2>3. ShowsTheFrame' /\ PastSince'
    BY <2>1 DEF VitcInv, ShowsTheFrame, PastSince, maxFrame
  <2> QED BY <2>1, <2>2, <2>3 DEF VitcInv
<1>2. CASE inc
  BY <1>2, VitcCounts
<1>3. ASSUME NEW format \in Formats, setFormat(format) PROVE VitcInv'
  BY <1>3, VitcFormat
<1>4. ASSUME NEW n \in Numbers, set(n) PROVE VitcInv'
  BY <1>4, VitcSet
<1>5. ASSUME NEW t \in PcTimes, NEW ms \in Millis, loadFromPCtime(t, ms) PROVE VitcInv'
  BY <1>5, VitcLoad
<1>6. ASSUME NEW frameNum \in Adds, add(frameNum) PROVE VitcInv'
  BY <1>6, VitcAdd
<1> QED BY <1>1, <1>2, <1>3, <1>4, <1>5, <1>6 DEF Next

LEMMA VitcInductive == Spec => []VitcInv
BY VitcInit, VitcNext, PTL DEF Spec

\* However often it is set, counted and counted on from, and whatever formats it
\* is given in between, the time code of the pictures shows the frame of the
\* day it should as long as the counts make sense (vitc.cpp:67-134, 152-182).
THEOREM AlwaysShowsTheFrame == Spec => []ShowsTheFrame
BY VitcInductive, PTL DEF VitcInv

\* A frame past the rate is always one that a change of format, a 31st frame
\* of loadFromPCtime or the formats 24 and 60 account for, and the byte of
\* m_frames runs out of it in time (vitc.cpp:67-134, 152-208).
THEOREM PastRateAlwaysHasReason == Spec => []PastRateHasReason
<1>1. VitcInv => PastRateHasReason
  <2> SUFFICES ASSUME VitcInv, tc.frame >= maxFrame
               PROVE  /\ switched > 0 \/ late \/ m_format \in {24, 60}
                      /\ since <= 255 - maxFrame
    BY DEF PastRateHasReason
  <2>1. tc.frame \in 0 .. 255 /\ maxFrame \in Nat /\ since \in Nat
    BY DEF VitcInv, VitcTime, maxFrame
  <2> QED BY <2>1 DEF VitcInv, PastSince
<1> QED BY <1>1, VitcInductive, PTL
=============================================================================
