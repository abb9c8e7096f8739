---------------------------- MODULE TelemetryProofs ----------------------------
(***************************************************************************)
(* Proofs about Telemetry and the Collector, for any clients, any cap, any *)
(* disks, any width of the counters, and any readings that fail.           *)
(*                                                                         *)
(* The argument for the samples: a counter is what it was at the last      *)
(* sample and what has happened since, and a time that is counted twice    *)
(* can only raise a share, one that went back only lower it.  For the cap: *)
(* whoever is let in adds himself to those between Count and Register,     *)
(* whose number peak knows.                                                *)
(***************************************************************************)
EXTENDS Telemetry, FiniteSetTheorems, TLAPS

(* The counters since the last sample.                                     *)
Disks == /\ \A d \in DOMAIN disk \ odd : disk[d] = Before(d) + did[d]
         /\ \A d \in (DOMAIN rates \cap DOMAIN disk) \ odd : lately[d] = did[d]
Times == /\ cpu["busy"] = prevCPU["busy"] + ran["busy"]
         /\ cpu["guest"] = prevCPU["guest"] + ran["guest"]
         /\ "idle" \notin odd => cpu["idle"] = prevCPU["idle"] + ran["idle"]
         /\ "iowait" \notin odd => cpu["iowait"] = prevCPU["iowait"] + ran["iowait"]
         /\ cpu["iowait"] <= prevCPU["iowait"] + ran["iowait"]
         /\ ran["idle"] <= churn

(* Who is registered, and how many may be.                                 *)
Books == /\ registered = {c \in Clients : handler[c] \in {"serving", "closing", "leaving"}}
         /\ IsFiniteSet(registered) /\ IsFiniteSet(Between) /\ Cardinality(Between) <= peak

IInv == TypeOK /\ Disks /\ Times /\ RatesTrue /\ PctTrue /\ Books /\ CapHolds
-----------------------------------------------------------------------------
(* What the proofs know of the constants.                                  *)
LEMMA Bounds ==
  /\ Width \in Nat /\ Width > 0 /\ Interval \in Nat /\ Interval > 0
  /\ SendBuffer \in Nat /\ SendBuffer > 0 /\ WSMaxConns \in Nat
  /\ Nobody \notin Loops /\ "read" \in Loops /\ "write" \in Loops
  /\ \A s \in Scenes : s.come \subseteq Clients /\ s.churn \in Nat /\ s.churn < Width
                       /\ s.boot \in Nat /\ s.boot < Width /\ s.readable \subseteq BOOLEAN
  /\ Devices \cap Kinds = {}
<1>1. \A s \in Scenes : s.come \subseteq Clients /\ s.churn \in Nat /\ s.churn < Width
                        /\ s.boot \in Nat /\ s.boot < Width /\ s.readable \subseteq BOOLEAN
  BY TelemetryAssumption
<1> QED BY <1>1, TelemetryAssumption

(* A function on some of the disks is a reading of counters.               *)
LEMMA InCounters ==
  ASSUME NEW D \in SUBSET Devices, NEW f \in [D -> 0..Width - 1]
  PROVE  f \in Counters
BY DEF Counters

(* What a reading of counters is.                                          *)
LEMMA OfCounters ==
  ASSUME NEW f \in Counters
  PROVE  /\ DOMAIN f \subseteq Devices /\ f \in [DOMAIN f -> 0..Width - 1]
         /\ \A d \in DOMAIN f : f[d] \in 0..Width - 1
BY DEF Counters

(* Division, as far as the percentage needs it.                            *)
LEMMA PercentRange ==
  ASSUME NEW p \in Int, NEW t \in Nat, t > 0, p <= 100 * t
  PROVE  /\ p \div t \in Int /\ p \div t <= 100
         /\ p >= 0 => p \div t >= 0
OBVIOUS

(* More work in the same rest of the time is no smaller a share.           *)
LEMMA MoreWork ==
  ASSUME NEW x \in Nat, NEW g \in Nat, NEW i \in Nat, x + i > 0
  PROVE  (100 * x) \div (x + i) <= (100 * (x + g)) \div (x + g + i)
<1> DEFINE q == (100 * x) \div (x + i)
<1>1. q \in Int /\ q <= 100 /\ q * (x + i) <= 100 * x
  <2>1. 100 * x \in Int /\ x + i \in Nat /\ 100 * x <= 100 * (x + i)
    OBVIOUS
  <2>2. q \in Int /\ q <= 100
    BY <2>1, PercentRange
  <2>3. \A a \in Int, b \in Nat : b > 0 => (a \div b) * b <= a
    OBVIOUS
  <2> QED BY <2>1, <2>2, <2>3
<1>2. q * g <= 100 * g
  <2>1. (100 - q) * g >= 0
    BY <1>1
  <2> QED BY <1>1, <2>1
<1>3. q * (x + g + i) <= 100 * (x + g)
  <2>1. q * (x + g + i) = q * (x + i) + q * g
    BY <1>1
  <2> QED BY <1>1, <1>2, <2>1
<1>4. \A a \in Int, b \in Nat : (b > 0 /\ q * b <= a) => q <= a \div b
  <2> SUFFICES ASSUME NEW a \in Int, NEW b \in Nat, b > 0, q * b <= a PROVE q <= a \div b
    OBVIOUS
  <2> DEFINE r == a \div b
  <2>1. r \in Int /\ a < (r + 1) * b
    OBVIOUS
  <2> HIDE DEF q, r
  <2>2. q * b < (r + 1) * b
    <3>1. q * b \in Int /\ (r + 1) * b \in Int
      BY <1>1, <2>1
    <3> QED BY <2>1, <3>1
  <2>3. ~(q >= r + 1)
    <3>1. ASSUME q >= r + 1 PROVE FALSE
      <4>1. (q - (r + 1)) * b >= 0
        BY <1>1, <2>1, <3>1
      <4>2. (q - (r + 1)) * b = q * b - (r + 1) * b
        BY <1>1, <2>1
      <4> QED BY <1>1, <2>1, <2>2, <4>1, <4>2
    <3> QED BY <3>1
  <2>4. q <= r
    BY <1>1, <2>1, <2>3
  <2> QED BY <2>4 DEF r
<1>5. 100 * (x + g) \in Int /\ x + g + i \in Nat /\ x + g + i > 0
  OBVIOUS
<1> HIDE DEF q
<1>6. q <= (100 * (x + g)) \div (x + g + i)
  BY <1>3, <1>4, <1>5
<1> QED BY <1>6 DEF q

(* A number that fits the width is what it is.                             *)
LEMMA SmallRest ==
  ASSUME NEW x \in Nat, x < Width
  PROVE  x % Width = x
BY Bounds

(* A difference of counters wraps around into the width.                   *)
LEMMA MinusRange ==
  ASSUME NEW x \in Int, NEW y \in Int
  PROVE  Minus(x, y) \in 0..Width - 1
BY Bounds DEF Minus

-----------------------------------------------------------------------------
(* The samples.                                                            *)
LEMMA DisksSampled ==
  ASSUME CollectorTypeOK, Disks, NEW readable \in BOOLEAN, SampleDisks(readable)
  PROVE  /\ rates' \in Counters /\ prevDisks' \in Counters
         /\ \A d \in DOMAIN rates' \ odd : /\ rates'[d] = did[d] \div Interval
                                           /\ d \in DOMAIN rates => lately[d] = did[d]
<1>1. /\ disk \in Counters /\ prevDisks \in Counters /\ DOMAIN disk \subseteq Devices
      /\ \A d \in DOMAIN disk : disk[d] \in 0..Width - 1
      /\ \A d \in DOMAIN prevDisks : prevDisks[d] \in 0..Width - 1
      /\ did \in [Devices -> Nat]
  BY OfCounters DEF CollectorTypeOK
<1>2. \A d : Before(d) \in 0..Width - 1
  BY <1>1, Bounds DEF Before
<1>3. CASE readable /\ DOMAIN disk # {}
  <2>1. rates' = [d \in DOMAIN disk |-> IOPS(d)] /\ prevDisks' = disk
    BY <1>3 DEF SampleDisks
  <2>2. rates' \in [DOMAIN disk -> 0..Width - 1]
    <3>1. ASSUME NEW d \in DOMAIN disk PROVE IOPS(d) \in 0..Width - 1
      <4>1. Minus(disk[d], Before(d)) \in 0..Width - 1
        <5>1. disk[d] \in Int /\ Before(d) \in Int
          BY <1>1, <1>2, Bounds
        <5> QED BY <5>1, MinusRange
      <4>2. \A m \in 0..Width - 1 : m \div Interval \in 0..Width - 1
        BY Bounds
      <4> QED BY <4>1, <4>2 DEF IOPS
    <3> QED BY <2>1, <3>1
  <2>3. ASSUME NEW d \in DOMAIN disk \ odd PROVE IOPS(d) = did[d] \div Interval
    <3>1. disk[d] = Before(d) + did[d] /\ did[d] \in Nat
      BY <1>1 DEF Disks
    <3>2. did[d] = disk[d] - Before(d) /\ did[d] < Width
      BY <1>1, <1>2, <3>1, Bounds
    <3>3. did[d] % Width = did[d]
      BY <3>1, <3>2, SmallRest
    <3> QED BY <3>2, <3>3 DEF Minus, IOPS
  <2>4. \A d \in (DOMAIN disk \cap DOMAIN rates) \ odd : lately[d] = did[d]
    BY DEF Disks
  <2> QED BY <1>1, <2>1, <2>2, <2>3, <2>4, InCounters
<1>4. CASE ~(readable /\ DOMAIN disk # {})
  <2>1. rates' = None /\ prevDisks' = prevDisks
    BY <1>4 DEF SampleDisks
  <2>2. DOMAIN rates' = {} /\ rates' \in [{} -> 0..Width - 1]
    BY <2>1 DEF None
  <2> QED BY <1>1, <2>1, <2>2, InCounters
<1> QED BY <1>3, <1>4

(* What the CPU's times are.                                               *)
LEMMA TimesRange ==
  ASSUME CollectorTypeOK
  PROVE  \A k \in {"busy", "guest", "idle", "iowait"} :
           cpu[k] \in Nat /\ prevCPU[k] \in Nat /\ ran[k] \in Nat
BY DEF CollectorTypeOK, Kinds

(* The share that a total with guests counted twice gives, and one whose   *)
(* iowait went back.                                                       *)
LEMMA ShownShare ==
  ASSUME NEW w \in Nat, NEW i \in Nat, NEW part \in Int, NEW total \in Int, NEW pctShown \in Int,
         total > 0 => part = (100 * (total - i)) \div total,
         pctShown = IF total <= 0 THEN 0 ELSE IF part < 0 THEN 0 ELSE part
  PROVE  LET share == IF w + i = 0 THEN 0 ELSE (100 * w) \div (w + i)
         IN  /\ total >= w + i => pctShown >= share
             /\ total <= w + i => pctShown <= share
<1> DEFINE share == IF w + i = 0 THEN 0 ELSE (100 * w) \div (w + i)
<1>1. share \in Int /\ share >= 0
  <2>1. CASE w + i > 0
    <3>1. 100 * w \in Int /\ 100 * w <= 100 * (w + i) /\ 100 * w >= 0 /\ w + i \in Nat
      OBVIOUS
    <3> QED BY <2>1, <3>1, PercentRange
  <2> QED BY <2>1
<1>2. ASSUME total >= w + i PROVE pctShown >= share
  <2>1. CASE w + i = 0
    <3>1. pctShown >= 0
      OBVIOUS
    <3> QED BY <2>1, <3>1
  <2>2. CASE w + i > 0
    <3> DEFINE g == total - (w + i)
    <3>1. g \in Nat /\ total = w + g + i /\ total - i = w + g /\ total > 0
      BY <1>2, <2>2
    <3>2. part = (100 * (w + g)) \div (w + g + i)
      BY <3>1
    <3>3. share <= part
      <4> HIDE DEF g
      <4>1. (100 * w) \div (w + i) <= (100 * (w + g)) \div (w + g + i)
        BY <2>2, <3>1, MoreWork
      <4> QED BY <2>2, <3>2, <4>1
    <3> HIDE DEF share, g
    <3> QED BY <1>1, <3>1, <3>3
  <2> QED BY <2>1, <2>2
<1>3. ASSUME total <= w + i PROVE pctShown <= share
  <2>1. CASE total <= 0 \/ part < 0
    <3>1. pctShown = 0
      BY <2>1
    <3> HIDE DEF share
    <3> QED BY <1>1, <3>1
  <2>2. CASE total > 0 /\ part >= 0
    <3> DEFINE x == total - i
               g == w - x
    <3>1. part = (100 * x) \div total /\ pctShown = part
      BY <2>2
    <3>2. x >= 0
      <4>1. \A a \in Int, b \in Nat : (b > 0 /\ a < 0) => a \div b < 0
        OBVIOUS
      <4>2. 100 * x \in Int /\ total \in Nat
        BY <2>2
      <4>3. ~(100 * x < 0)
        <5> HIDE DEF x
        <5> QED BY <2>2, <3>1, <4>1, <4>2
      <4> QED BY <4>3
    <3>3. x \in Nat /\ g \in Nat /\ x + i = total /\ x + g = w /\ x + g + i = w + i /\ w + i > 0
      BY <1>3, <2>2, <3>2
    <3>4. (100 * x) \div (x + i) <= (100 * (x + g)) \div (x + g + i)
      <4> HIDE DEF x, g
      <4> QED BY <2>2, <3>3, MoreWork
    <3>5. part <= share
      BY <3>1, <3>3, <3>4
    <3> HIDE DEF share
    <3> QED BY <3>1, <3>5
  <2> QED BY <2>1, <2>2
<1> QED BY <1>2, <1>3

(* A sample of /proc/stat shows the time since the last one.               *)
LEMMA TimesSampled ==
  ASSUME CollectorTypeOK, Times, churn \in Nat, churn < Width, NEW readable \in BOOLEAN, SampleCPU(readable)
  PROVE  /\ pct' \in 0..100 /\ prevCPU' \in [Kinds -> Nat]
         /\ (readable /\ "idle" \notin odd) =>
              /\ "iowait" \notin odd => pct' >= Share(ran)
              /\ ran["guest"] = 0     => pct' <= Share(ran)
<1>1. /\ cpu["busy"] \in Nat /\ cpu["guest"] \in Nat /\ cpu["idle"] \in Nat /\ cpu["iowait"] \in Nat
      /\ prevCPU["busy"] \in Nat /\ prevCPU["guest"] \in Nat
      /\ prevCPU["idle"] \in Nat /\ prevCPU["iowait"] \in Nat
      /\ ran["busy"] \in Nat /\ ran["guest"] \in Nat /\ ran["idle"] \in Nat /\ ran["iowait"] \in Nat
  BY TimesRange
<1>2. cpu \in [Kinds -> Nat] /\ prevCPU \in [Kinds -> Nat]
  BY DEF CollectorTypeOK
<1>3. CASE ~readable
  BY <1>2, <1>3 DEF SampleCPU
<1>4. CASE readable
  <2> DEFINE total == Total(cpu) - Total(prevCPU)
             m     == Minus(cpu["idle"], prevCPU["idle"])
             part  == (100 * (total - m)) \div total
  <2>1. pct' = (IF total <= 0 THEN 0 ELSE IF part < 0 THEN 0 ELSE part) /\ prevCPU' = cpu
    BY <1>4 DEF SampleCPU, CalcCPUPct
  <2>2. total \in Int
    BY <1>1 DEF Total
  <2>3. m \in Nat
    <3>1. cpu["idle"] \in Int /\ prevCPU["idle"] \in Int
      BY <1>1
    <3>2. m \in 0..Width - 1
      BY <3>1, MinusRange
    <3> QED BY <3>2, Bounds
  <2>4. ASSUME total > 0 PROVE part \in Int /\ part <= 100
    <3> HIDE DEF total, m
    <3>1. 100 * (total - m) \in Int /\ 100 * (total - m) <= 100 * total
      BY <2>2, <2>3
    <3> QED BY <2>2, <2>4, <3>1, PercentRange
  <2>5. pct' \in 0..100
    <3> HIDE DEF total, m, part
    <3> QED BY <2>1, <2>2, <2>4
  <2>6. ASSUME "idle" \notin odd
        PROVE  /\ "iowait" \notin odd => pct' >= Share(ran)
               /\ ran["guest"] = 0     => pct' <= Share(ran)
    <3> DEFINE w == ran["busy"] + ran["guest"] + ran["iowait"]
               i == ran["idle"]
    <3>1. m = i
      <4>1. cpu["idle"] - prevCPU["idle"] = ran["idle"] /\ ran["idle"] < Width
        BY <1>1, <2>6, Bounds DEF Times
      <4> QED BY <1>1, <4>1, SmallRest DEF Minus
    <3>2. "iowait" \notin odd => total >= w + i
      BY <1>1, <2>6 DEF Times, Total
    <3>3. ran["guest"] = 0 => total <= w + i
      BY <1>1, <2>6 DEF Times, Total
    <3>4. Share(ran) = IF w + i = 0 THEN 0 ELSE (100 * w) \div (w + i)
      BY DEF Share
    <3>5. w \in Nat /\ i \in Nat
      BY <1>1
    <3>6. CASE total > 0
      <4>1. part \in Int /\ part = (100 * (total - i)) \div total
        BY <2>4, <3>1, <3>6
      <4> HIDE DEF total, m, part, w, i
      <4>2. pct' \in Int
        BY <2>5
      <4>3. LET share == IF w + i = 0 THEN 0 ELSE (100 * w) \div (w + i)
            IN  /\ total >= w + i => pct' >= share
                /\ total <= w + i => pct' <= share
        BY <2>1, <2>2, <3>5, <4>1, <4>2, ShownShare
      <4> QED BY <3>2, <3>3, <3>4, <4>3
    <3>7. CASE total <= 0
      <4> HIDE DEF total, m, part, w, i
      <4>1. pct' = (IF total <= 0 THEN 0 ELSE IF 0 < 0 THEN 0 ELSE 0) /\ pct' \in Int
        BY <2>1, <3>7
      <4>2. total > 0 => 0 = (100 * (total - i)) \div total
        BY <2>2, <3>7
      <4>3. LET share == IF w + i = 0 THEN 0 ELSE (100 * w) \div (w + i)
            IN  /\ total >= w + i => pct' >= share
                /\ total <= w + i => pct' <= share
        BY <2>2, <3>5, <4>1, <4>2, ShownShare
      <4> QED BY <3>2, <3>3, <3>4, <4>3
    <3> QED BY <2>2, <3>6, <3>7
  <2> QED BY <1>2, <2>1, <2>5, <2>6
<1> QED BY <1>3, <1>4

(* A sample.                                                               *)
Samples == CollectorTypeOK /\ Disks /\ Times /\ RatesTrue /\ PctTrue

(* A pass of the collector keeps what is known of its samples.             *)
LEMMA CollectStep ==
  ASSUME Samples, churn \in Nat, churn < Width, UNCHANGED churn,
         NEW outcomes \in SUBSET BOOLEAN, Collect(outcomes)
  PROVE  Samples'
<1> USE DEF Samples
<1>1. PICK stat \in BOOLEAN, stats \in BOOLEAN :
        /\ SampleCPU(stat) /\ SampleDisks(stats)
        /\ due' = Due(DOMAIN rates, stat)
        /\ did' = [d \in Devices |-> IF d \in (IF stats THEN DOMAIN disk ELSE {}) THEN 0 ELSE did[d]]
        /\ lately' = [d \in Devices |-> 0]
        /\ ran' = IF stat THEN NoTime ELSE ran
        /\ odd' = odd \ ((IF stats THEN DOMAIN disk ELSE {}) \cup IF stat THEN Kinds ELSE {})
        /\ UNCHANGED <<disk, cpu>>
  BY DEF Collect
<1>2. /\ rates' \in Counters /\ prevDisks' \in Counters
      /\ \A d \in DOMAIN rates' \ odd : /\ rates'[d] = did[d] \div Interval
                                        /\ d \in DOMAIN rates => lately[d] = did[d]
  BY <1>1, DisksSampled
<1>3. /\ pct' \in 0..100 /\ prevCPU' \in [Kinds -> Nat]
      /\ (stat /\ "idle" \notin odd) =>
           /\ "iowait" \notin odd => pct' >= Share(ran)
           /\ ran["guest"] = 0     => pct' <= Share(ran)
  BY <1>1, TimesSampled
<1>4. /\ disk \in Counters /\ DOMAIN disk \subseteq Devices
      /\ \A d \in DOMAIN disk : disk[d] \in 0..Width - 1
      /\ did \in [Devices -> Nat] /\ odd \subseteq Devices \cup Kinds
      /\ cpu \in [Kinds -> Nat] /\ ran \in [Kinds -> Nat]
  BY OfCounters DEF CollectorTypeOK
<1>5. CollectorTypeOK'
  <2>1. did' \in [Devices -> Nat] /\ lately' \in [Devices -> Nat]
    BY <1>1, <1>4
  <2>2. ran' \in [Kinds -> Nat]
    BY <1>1, <1>4 DEF NoTime
  <2>3. odd' \subseteq Devices \cup Kinds
    BY <1>1, <1>4
  <2> QED BY <1>1, <1>2, <1>3, <1>4, <2>1, <2>2, <2>3 DEF CollectorTypeOK
<1>6. Disks'
  <2>1. ASSUME NEW d \in DOMAIN disk, d \notin odd' PROVE disk[d] = Before(d)' + did'[d]
    <3>1. d \in Devices /\ disk[d] \in Nat
      BY <1>4, <2>1, Bounds
    <3>2. CASE stats
      <4>1. prevDisks' = disk /\ did'[d] = 0
        BY <1>1, <2>1, <3>1, <3>2 DEF SampleDisks
      <4> QED BY <2>1, <3>1, <4>1 DEF Before
    <3>3. CASE ~stats
      <4>1. prevDisks' = prevDisks /\ did'[d] = did[d]
        BY <1>1, <3>1, <3>3 DEF SampleDisks
      <4>2. d \notin odd
        BY <1>1, <2>1, <3>1, <3>3, Bounds
      <4> QED BY <2>1, <4>1, <4>2 DEF Disks, Before
    <3> QED BY <3>2, <3>3
  <2>2. ASSUME NEW d \in DOMAIN rates', d \in DOMAIN disk PROVE lately'[d] = did'[d]
    <3>1. stats
      BY <1>1, <2>2 DEF SampleDisks, None
    <3>2. d \in Devices
      BY <1>4, <2>2
    <3> QED BY <1>1, <2>2, <3>1, <3>2
  <2> QED BY <1>1, <2>1, <2>2 DEF Disks
<1>7. Times'
  <2>1. CASE stat
    <3>1. prevCPU' = cpu /\ ran' = NoTime /\ cpu' = cpu
      BY <1>1, <2>1 DEF SampleCPU
    <3>2. \A k \in Kinds : NoTime[k] = 0 /\ cpu[k] = cpu[k] + 0
      BY <1>4 DEF NoTime
    <3>3. {"busy", "guest", "idle", "iowait"} = Kinds
      BY DEF Kinds
    <3>4. /\ cpu["busy"] = cpu["busy"] + NoTime["busy"]
          /\ cpu["guest"] = cpu["guest"] + NoTime["guest"]
          /\ cpu["idle"] = cpu["idle"] + NoTime["idle"]
          /\ cpu["iowait"] = cpu["iowait"] + NoTime["iowait"] /\ cpu["iowait"] \in Nat
          /\ NoTime["idle"] = 0
      BY <1>4, <3>2, <3>3
    <3> QED BY <3>1, <3>4 DEF Times
  <2>2. CASE ~stat
    <3>1. prevCPU' = prevCPU /\ ran' = ran /\ cpu' = cpu
      BY <1>1, <2>2 DEF SampleCPU
    <3>2. odd \cap Kinds \subseteq odd'
      BY <1>1, <1>4, <2>2, Bounds
    <3>3. ("idle" \notin odd' => "idle" \notin odd) /\ ("iowait" \notin odd' => "iowait" \notin odd)
      BY <3>2 DEF Kinds
    <3> QED BY <3>1, <3>3 DEF Times
  <2> QED BY <2>1, <2>2
<1>8. RatesTrue'
  <2>1. due'.odd = odd /\ due'.did = did /\ due'.lately = lately /\ due'.shown = DOMAIN rates
    BY <1>1 DEF Due
  <2> QED BY <1>2, <2>1 DEF RatesTrue
<1>9. PctTrue'
  <2>1. due'.odd = odd /\ due'.ran = ran /\ due'.stat = stat
    BY <1>1 DEF Due
  <2>2. Share(due.ran)' = Share(ran)
    BY <2>1 DEF Share
  <2> QED BY <1>3, <2>1, <2>2 DEF PctTrue
<1> QED BY <1>5, <1>6, <1>7, <1>8, <1>9

(* The machine goes on.                                                    *)
LEMMA MachineStep == ASSUME Samples, churn \in Nat, Machine PROVE Samples'
<1> USE DEF Samples
<1>1. /\ disk \in Counters /\ DOMAIN disk \subseteq Devices /\ disk \in [DOMAIN disk -> 0..Width - 1]
      /\ did \in [Devices -> Nat] /\ lately \in [Devices -> Nat] /\ odd \subseteq Devices \cup Kinds
      /\ cpu \in [Kinds -> Nat] /\ ran \in [Kinds -> Nat]
      /\ \A k \in {"busy", "guest", "idle", "iowait"} :
           cpu[k] \in Nat /\ prevCPU[k] \in Nat /\ ran[k] \in Nat
      /\ \A d : Before(d) \in Nat
  <2>1. \A d \in DOMAIN prevDisks : prevDisks[d] \in 0..Width - 1
    BY OfCounters DEF CollectorTypeOK
  <2>2. \A d : Before(d) \in Nat
    BY <2>1, Bounds DEF Before
  <2> QED BY <2>2, OfCounters, TimesRange DEF CollectorTypeOK
<1>2. /\ churn' = churn + 1 /\ UNCHANGED <<prevDisks, prevCPU, rates, pct, due>>
      /\ \A d : Before(d)' = Before(d)
  BY DEF Machine, Before
<1>3. RatesTrue' /\ PctTrue'
  BY <1>2 DEF RatesTrue, PctTrue, Share
<1>4. ASSUME UNCHANGED <<cpu, ran>>, odd \cap Kinds \subseteq odd' PROVE Times'
  <2>1. ("idle" \notin odd' => "idle" \notin odd) /\ ("iowait" \notin odd' => "iowait" \notin odd)
    BY <1>4 DEF Kinds
  <2> QED BY <1>1, <1>2, <1>4, <2>1 DEF Times
<1>5. ASSUME UNCHANGED <<disk, did, lately>>, odd \subseteq odd' PROVE Disks'
  BY <1>2, <1>5 DEF Disks
<1>6. CASE \E d \in Devices : DiskWorks(d)
  <2>1. PICK d \in Devices : DiskWorks(d)
    BY <1>6
  <2>2. /\ d \in DOMAIN disk /\ disk[d] + 1 \in 0..Width - 1
        /\ disk' = [disk EXCEPT ![d] = disk[d] + 1] /\ did' = [did EXCEPT ![d] = did[d] + 1]
        /\ lately' = [lately EXCEPT ![d] = lately[d] + 1]
        /\ UNCHANGED <<cpu, ran, odd>>
    BY <1>1, <2>1, Bounds DEF DiskWorks
  <2>3. disk' \in Counters /\ did' \in [Devices -> Nat] /\ lately' \in [Devices -> Nat]
    <3>1. disk' \in [DOMAIN disk -> 0..Width - 1]
      BY <1>1, <2>2
    <3>2. did' \in [Devices -> Nat] /\ lately' \in [Devices -> Nat]
      BY <1>1, <2>2
    <3> QED BY <1>1, <3>1, <3>2, InCounters
  <2>4. ASSUME NEW e \in DOMAIN disk, e \notin odd PROVE disk'[e] = Before(e) + did'[e]
    <3>1. disk[e] = Before(e) + did[e] /\ Before(e) \in Nat /\ did[e] \in Nat
      BY <1>1, <2>4 DEF Disks
    <3> QED BY <1>1, <2>2, <2>4, <3>1
  <2>5. ASSUME NEW e \in DOMAIN rates \cap DOMAIN disk, e \notin odd PROVE lately'[e] = did'[e]
    <3>1. lately[e] = did[e]
      BY <2>5 DEF Disks
    <3> QED BY <1>1, <2>2, <2>5, <3>1
  <2>6. Disks' /\ Times'
    <3>1. DOMAIN disk' = DOMAIN disk
      BY <2>2
    <3> QED BY <1>2, <1>4, <2>2, <2>4, <2>5, <3>1 DEF Disks
  <2> QED BY <1>2, <1>3, <2>2, <2>3, <2>6 DEF CollectorTypeOK
<1>7. CASE \E d \in Devices : DiskReset(d)
  <2>1. PICK d \in Devices : DiskReset(d)
    BY <1>7
  <2>2. /\ d \in DOMAIN disk /\ disk' = [disk EXCEPT ![d] = 0] /\ odd' = odd \cup {d}
        /\ UNCHANGED <<cpu, did, lately, ran>>
    BY <2>1 DEF DiskReset
  <2>3. disk' \in Counters
    <3>1. 0 \in 0..Width - 1
      BY Bounds
    <3> QED BY <1>1, <2>2, <3>1, InCounters
  <2>4. Disks'
    BY <1>2, <2>2 DEF Disks
  <2> QED BY <1>1, <1>2, <1>3, <1>4, <2>2, <2>3, <2>4 DEF CollectorTypeOK
<1>8. CASE \E d \in Devices : DiskGoes(d)
  <2>1. PICK d \in Devices : DiskGoes(d)
    BY <1>8
  <2>2. /\ disk' = [e \in DOMAIN disk \ {d} |-> disk[e]] /\ UNCHANGED <<cpu, did, lately, ran, odd>>
    BY <2>1 DEF DiskGoes
  <2>3. disk' \in Counters
    BY <1>1, <2>2, InCounters
  <2>4. Disks'
    BY <1>2, <2>2 DEF Disks
  <2> QED BY <1>1, <1>2, <1>3, <1>4, <2>2, <2>3, <2>4 DEF CollectorTypeOK
<1>9. CASE \E d \in Devices : DiskComes(d)
  <2>1. PICK d \in Devices : DiskComes(d)
    BY <1>9
  <2>2. /\ d \notin DOMAIN disk
        /\ disk' = [e \in DOMAIN disk \cup {d} |-> IF e = d THEN 0 ELSE disk[e]]
        /\ did' = [did EXCEPT ![d] = 0] /\ lately' = [lately EXCEPT ![d] = 0]
        /\ odd' = (IF d \in DOMAIN prevDisks THEN odd \cup {d} ELSE odd \ {d})
        /\ UNCHANGED <<cpu, ran>>
    BY <2>1 DEF DiskComes
  <2>3. disk' \in Counters /\ did' \in [Devices -> Nat] /\ lately' \in [Devices -> Nat]
    <3>1. 0 \in 0..Width - 1
      BY Bounds
    <3>2. disk' \in [DOMAIN disk \cup {d} -> 0..Width - 1] /\ DOMAIN disk \cup {d} \in SUBSET Devices
      BY <1>1, <2>1, <2>2, <3>1
    <3> QED BY <1>1, <2>2, <3>2, InCounters
  <2>4. ASSUME NEW e \in DOMAIN disk \cup {d}, e \notin odd' PROVE disk'[e] = Before(e) + did'[e]
    <3>1. CASE e = d
      BY <1>1, <2>2, <2>4, <3>1 DEF Before
    <3>2. CASE e # d
      BY <1>1, <2>2, <2>4, <3>2 DEF Disks
    <3> QED BY <3>1, <3>2
  <2>5. ASSUME NEW e \in DOMAIN rates, e \in DOMAIN disk \cup {d}, e \notin odd' PROVE lately'[e] = did'[e]
    <3>1. CASE e = d
      BY <1>1, <2>2, <2>5, <3>1
    <3>2. CASE e # d
      BY <1>1, <2>2, <2>5, <3>2 DEF Disks
    <3> QED BY <3>1, <3>2
  <2>6. Disks'
    <3>1. DOMAIN disk' = DOMAIN disk \cup {d}
      BY <2>2
    <3> QED BY <1>2, <2>4, <2>5, <3>1 DEF Disks
  <2>7. odd \cap Kinds \subseteq odd' /\ odd' \subseteq Devices \cup Kinds
    BY <1>1, <2>1, <2>2, Bounds
  <2> QED BY <1>1, <1>2, <1>3, <1>4, <2>2, <2>3, <2>6, <2>7 DEF CollectorTypeOK
<1>10. CASE \E k \in Kinds : CpuRuns(k)
  <2>1. PICK k \in Kinds : CpuRuns(k)
    BY <1>10
  <2>2. /\ cpu' = [cpu EXCEPT ![k] = cpu[k] + 1] /\ ran' = [ran EXCEPT ![k] = ran[k] + 1]
        /\ UNCHANGED <<disk, did, lately, odd>> /\ k \in {"busy", "guest", "idle", "iowait"}
    BY <2>1 DEF CpuRuns, Kinds
  <2>3. cpu' \in [Kinds -> Nat] /\ ran' \in [Kinds -> Nat]
    BY <1>1, <2>1, <2>2
  <2>4. \A j \in {"busy", "guest", "idle", "iowait"} :
          /\ cpu'[j] = IF j = k THEN cpu[j] + 1 ELSE cpu[j]
          /\ ran'[j] = IF j = k THEN ran[j] + 1 ELSE ran[j]
    BY <1>1, <2>2 DEF Kinds
  <2>5. Times'
    <3>1. \A j \in {"busy", "guest", "idle", "iowait"} :
            /\ cpu[j] = prevCPU[j] + ran[j] => cpu'[j] = prevCPU[j] + ran'[j]
            /\ cpu[j] <= prevCPU[j] + ran[j] => cpu'[j] <= prevCPU[j] + ran'[j]
            /\ ran'[j] <= ran[j] + 1
      BY <1>1, <2>4
    <3>2. ran'["idle"] <= churn + 1
      <4>1. ran["idle"] <= churn /\ ran["idle"] \in Nat /\ ran'["idle"] \in Nat
        BY <1>1, <2>4 DEF Times
      <4> QED BY <3>1, <4>1
    <3> QED BY <1>2, <2>2, <3>1, <3>2 DEF Times
  <2> QED BY <1>2, <1>3, <1>5, <2>2, <2>3, <2>5 DEF CollectorTypeOK
<1>11. CASE \E k \in Kinds : CpuBack(k)
  <2>1. PICK k \in Kinds : CpuBack(k)
    BY <1>11
  <2>2. /\ cpu[k] > 0 /\ cpu' = [cpu EXCEPT ![k] = cpu[k] - 1] /\ odd' = odd \cup {k}
        /\ UNCHANGED <<disk, did, lately, ran>> /\ k \in {"idle", "iowait"}
    BY <2>1 DEF CpuBack
  <2>3. cpu' \in [Kinds -> Nat] /\ odd' \subseteq Devices \cup Kinds
    BY <1>1, <2>1, <2>2
  <2>4. \A j \in {"busy", "guest", "idle", "iowait"} : cpu'[j] = IF j = k THEN cpu[j] - 1 ELSE cpu[j]
    BY <1>1, <2>2 DEF Kinds
  <2>5. Times'
    <3>1. cpu'["busy"] = cpu["busy"] /\ cpu'["guest"] = cpu["guest"]
      BY <2>2, <2>4
    <3>2. ("idle" \notin odd' => ("idle" \notin odd /\ cpu'["idle"] = cpu["idle"]))
      BY <2>2, <2>4
    <3>3. ("iowait" \notin odd' => ("iowait" \notin odd /\ cpu'["iowait"] = cpu["iowait"]))
      BY <2>2, <2>4
    <3>4. cpu'["iowait"] <= prevCPU["iowait"] + ran["iowait"]
      <4>1. cpu'["iowait"] <= cpu["iowait"] /\ cpu'["iowait"] \in Int
        BY <1>1, <2>4
      <4> QED BY <1>1, <4>1 DEF Times
    <3>5. ran["idle"] <= churn + 1
      BY <1>1 DEF Times
    <3> QED BY <1>2, <2>2, <3>1, <3>2, <3>3, <3>4, <3>5 DEF Times
  <2>6. Disks'
    BY <1>5, <2>2
  <2> QED BY <1>2, <1>3, <2>2, <2>3, <2>5, <2>6 DEF CollectorTypeOK
<1> QED BY <1>6, <1>7, <1>8, <1>9, <1>10, <1>11 DEF Machine

-----------------------------------------------------------------------------
(* The steps that leave the collector alone, one by one.                   *)
Client(c) == \/ Check(c) \/ Upgrade(c) \/ Join(c) \/ Ended(c) \/ HandlerCloses(c) \/ Leave(c)
             \/ ReadEnds(c) \/ Ponged(c) \/ Pinged(c) \/ Take(c) \/ Lock(c)
             \/ Written(c, TRUE) \/ Written(c, FALSE) \/ WriterCloses(c) \/ Stop(c) \/ PeerLeaves(c)

(* Next, by what its actions touch.                                        *)
LEMMA Steps ==
  ASSUME [Next]_vars
  PROVE  Publish \/ Machine \/ StopCollector \/ UNCHANGED vars \/ \E c \in Clients : Client(c)
BY DEF Next, Quiet, Handle, ReadLoop, WriteLoop, Client

(* No step of a client touches the collector.                              *)
LEMMA LeftAlone ==
  ASSUME NEW c \in Clients, Client(c)
  PROVE  UNCHANGED <<collectorVars, scene, churn, stopped>>
BY DEF Client, Check, Upgrade, Join, Ended, HandlerCloses, Leave, ReadEnds, Ponged, Pinged, Take,
   Lock,
   Written, WriterCloses, Stop, PeerLeaves

(* Each step keeps what is known of the samples.                           *)
LEMMA SamplesStep ==
  ASSUME Samples, churn \in Nat, churn < Width, scene \in Scenes, [Next]_vars
  PROVE  Samples'
<1>1. CASE UNCHANGED collectorVars /\ UNCHANGED churn
  BY <1>1 DEF Samples, CollectorTypeOK, Disks, Times, RatesTrue, PctTrue, Before, Share,
     collectorVars, kernelVars
<1>2. CASE Publish
  <2>1. scene.readable \in SUBSET BOOLEAN
    BY Bounds
  <2>2. Collect(scene.readable) /\ UNCHANGED churn
    BY <1>2 DEF Publish
  <2> QED BY <2>1, <2>2, CollectStep
<1>3. CASE Machine
  BY <1>3, MachineStep
<1> QED BY <1>1, <1>2, <1>3, Steps, LeftAlone DEF vars, StopCollector

-----------------------------------------------------------------------------
(* Those between Count and Register, and the registered, one step on.      *)
LEMMA Finites ==
  ASSUME NEW S, IsFiniteSet(S), NEW x
  PROVE  /\ IsFiniteSet(S \cup {x}) /\ IsFiniteSet(S \ {x}) /\ Cardinality(S) \in Nat
         /\ Cardinality(S \cup {x}) = (IF x \in S THEN Cardinality(S) ELSE Cardinality(S) + 1)
         /\ Cardinality(S \ {x}) = (IF x \in S THEN Cardinality(S) - 1 ELSE Cardinality(S))
BY FS_CardinalityType, FS_AddElement, FS_RemoveElement

(* A client that moves in its handler changes the books as it should.      *)
LEMMA BooksStep ==
  ASSUME TypeOK, Books, CapHolds, NEW c \in Clients, Client(c)
  PROVE  Books' /\ CapHolds' /\ peak' \in Nat
<1>1. /\ handler \in [Clients -> {"new", "checked", "upgraded", "refused", "serving",
                                  "closing", "leaving", "over"}]
      /\ peak \in Nat /\ WSMaxConns \in Nat
  BY Bounds DEF TypeOK
<1>2. /\ IsFiniteSet(registered) /\ Cardinality(registered) \in Nat
      /\ IsFiniteSet(Between) /\ Cardinality(Between) \in Nat /\ Cardinality(Between) <= peak
      /\ registered = {d \in Clients : handler[d] \in {"serving", "closing", "leaving"}}
  BY Finites DEF Books
<1>3. Cardinality(registered) + Cardinality(Between) <= WSMaxConns + (IF peak = 0 THEN 0 ELSE peak - 1)
  BY DEF CapHolds
<1>4. CASE Check(c)
  <2>1. /\ handler[c] = "new"
        /\ handler' = [handler EXCEPT ![c] = IF Full THEN "refused" ELSE "checked"]
        /\ peak' = (IF Cardinality(Between') > peak THEN Cardinality(Between') ELSE peak)
        /\ registered' = registered
    BY <1>4 DEF Check, hubVars
  <2>2. registered' = {d \in Clients : handler'[d] \in {"serving", "closing", "leaving"}}
    BY <1>1, <1>2, <2>1
  <2>3. CASE Full
    <3>1. Between' = Between
      BY <1>1, <2>1, <2>3 DEF Between
    <3>2. peak' = peak
      BY <1>1, <1>2, <2>1, <3>1
    <3> QED BY <1>1, <1>2, <2>1, <2>2, <3>1, <3>2 DEF Books, CapHolds
  <2>4. CASE ~Full
    <3>1. Between' = Between \cup {c} /\ c \notin Between
      BY <1>1, <2>1, <2>4 DEF Between
    <3>2. IsFiniteSet(Between') /\ Cardinality(Between') = Cardinality(Between) + 1
      BY <1>2, <3>1, Finites
    <3>3. Cardinality(registered) < WSMaxConns
      BY <1>1, <1>2, <2>4 DEF Full
    <3>4. peak' \in Nat /\ peak' > 0 /\ Cardinality(Between') <= peak'
      BY <1>1, <1>2, <2>1, <3>2
    <3>5. Cardinality(registered) + Cardinality(Between') <= WSMaxConns + (peak' - 1)
      BY <1>1, <1>2, <3>2, <3>3, <3>4
    <3> QED BY <1>2, <2>1, <2>2, <3>2, <3>4, <3>5 DEF Books, CapHolds
  <2> QED BY <2>3, <2>4
<1>5. CASE Upgrade(c)
  <2>1. /\ handler[c] = "checked" /\ registered' = registered /\ peak' = peak
        /\ handler' = [handler EXCEPT ![c] = "upgraded"] \/ handler' = [handler EXCEPT ![c] = "refused"]
    BY <1>5 DEF Upgrade, hubVars
  <2>2. registered' = {d \in Clients : handler'[d] \in {"serving", "closing", "leaving"}}
    BY <1>1, <1>2, <2>1
  <2>3. Between' = Between \/ (Between' = Between \ {c} /\ c \in Between)
    BY <1>1, <2>1 DEF Between
  <2>4. IsFiniteSet(Between') /\ Cardinality(Between') \in Nat /\ Cardinality(Between') <= Cardinality(Between)
    BY <1>2, <2>3, Finites
  <2> QED BY <1>1, <1>2, <1>3, <2>1, <2>2, <2>4 DEF Books, CapHolds
<1>6. CASE Join(c)
  <2>1. /\ handler[c] = "upgraded" /\ registered' = registered \cup {c} /\ peak' = peak
        /\ handler' = [handler EXCEPT ![c] = "serving"]
    BY <1>6 DEF Join, Register
  <2>2. registered' = {d \in Clients : handler'[d] \in {"serving", "closing", "leaving"}} /\ c \notin registered
    BY <1>1, <1>2, <2>1
  <2>3. Between' = Between \ {c} /\ c \in Between
    BY <1>1, <2>1 DEF Between
  <2>4. IsFiniteSet(Between') /\ Cardinality(Between') = Cardinality(Between) - 1
    BY <1>2, <2>3, Finites
  <2>5. IsFiniteSet(registered') /\ Cardinality(registered') = Cardinality(registered) + 1
    BY <1>2, <2>1, <2>2, Finites
  <2> QED BY <1>1, <1>2, <1>3, <2>1, <2>2, <2>4, <2>5 DEF Books, CapHolds
<1>7. CASE Leave(c)
  <2>1. /\ handler[c] = "leaving" /\ registered' = registered \ {c} /\ peak' = peak
        /\ handler' = [handler EXCEPT ![c] = "over"]
    BY <1>7 DEF Leave, Unregister
  <2>2. registered' = {d \in Clients : handler'[d] \in {"serving", "closing", "leaving"}} /\ c \in registered
    BY <1>1, <1>2, <2>1
  <2>3. Between' = Between
    BY <1>1, <2>1 DEF Between
  <2>4. IsFiniteSet(registered') /\ Cardinality(registered') = Cardinality(registered) - 1
    <3>1. IsFiniteSet(registered)
      BY <1>2
    <3>2. c \in registered /\ registered' = registered \ {c}
      BY <2>1, <2>2
    <3> QED BY <3>1, <3>2, Finites
  <2> QED BY <1>1, <1>2, <1>3, <2>1, <2>2, <2>3, <2>4 DEF Books, CapHolds
<1>8. CASE Ended(c) \/ HandlerCloses(c)
  <2>1. /\ handler[c] \in {"serving", "closing"} /\ registered' = registered /\ peak' = peak
        /\ handler' = [handler EXCEPT ![c] = "closing"] \/ handler' = [handler EXCEPT ![c] = "leaving"]
    BY <1>8 DEF Ended, HandlerCloses, hubVars
  <2>2. registered' = {d \in Clients : handler'[d] \in {"serving", "closing", "leaving"}}
    BY <1>1, <1>2, <2>1
  <2>3. Between' = Between
    BY <1>1, <2>1 DEF Between
  <2> QED BY <1>1, <1>2, <1>3, <2>1, <2>2, <2>3 DEF Books, CapHolds
<1>9. CASE UNCHANGED <<handler, registered, peak>>
  BY <1>1, <1>9 DEF Books, CapHolds, Between
<1>10. \/ Check(c) \/ Upgrade(c) \/ Join(c) \/ Leave(c) \/ Ended(c) \/ HandlerCloses(c)
       \/ UNCHANGED <<handler, registered, peak>>
  BY DEF Client, ReadEnds, Ponged, Pinged, Take, Receive, Lock, Written, WriterCloses, Stop,
     PeerLeaves, hubVars
<1> QED BY <1>4, <1>5, <1>6, <1>7, <1>8, <1>9, <1>10

(* The rest of the types.                                                  *)
LEMMA ClientTypes == ASSUME TypeOK, Books, CapHolds, NEW c \in Clients, Client(c) PROVE TypeOK'
<1>1. UNCHANGED <<scene, churn, stopped>> /\ CollectorTypeOK' /\ peak' \in Nat
  BY LeftAlone, BooksStep DEF TypeOK, CollectorTypeOK, collectorVars, kernelVars
<1>2. WsTypeOK'
  BY Bounds DEF Client, Check, Upgrade, Join, Ended, HandlerCloses, Leave, ReadEnds, Ponged, Pinged,
     Take, Lock, Written, WriterCloses, Stop, PeerLeaves, BeginWrite, CannotWrite, EndWrite, Close,
     wsVars, TypeOK, WsTypeOK
<1>3. HubTypeOK'
  <2>1. registered' \subseteq Clients
    BY BooksStep DEF Books
  <2>2. CASE Receive(c)
    <3>1. sendCh \in [Clients -> 0..SendBuffer] /\ sendCh[c] > 0
          /\ sendCh' = [sendCh EXCEPT ![c] = @ - 1]
      BY <2>2 DEF Receive, TypeOK, HubTypeOK
    <3>2. sendCh[c] - 1 \in 0..SendBuffer
      BY <3>1, Bounds
    <3>3. sendCh' \in [Clients -> 0..SendBuffer]
      BY <3>1, <3>2
    <3> QED BY <2>1, <3>3 DEF HubTypeOK
  <2>3. CASE ~Receive(c)
    <3>1. CASE Join(c)
      BY <2>1, <3>1, Bounds DEF Join, Register, TypeOK, HubTypeOK
    <3>2. CASE sendCh' = sendCh
      BY <2>1, <3>2 DEF TypeOK, HubTypeOK
    <3>3. Join(c) \/ sendCh' = sendCh
      BY <2>3 DEF Client, Check, Upgrade, Ended, HandlerCloses, Leave, ReadEnds, Ponged, Pinged,
         Take, Lock, Written, WriterCloses, Stop, PeerLeaves, Unregister, hubVars
    <3> QED BY <3>1, <3>2, <3>3
  <2> QED BY <2>2, <2>3
<1>4. silent' \subseteq Clients
  BY DEF Client, Check, Upgrade, Join, Ended, HandlerCloses, Leave, ReadEnds, Ponged, Pinged,
     Take, Lock, Written, WriterCloses, Stop, PeerLeaves, TypeOK
<1>5. handler' \in [Clients -> {"new", "checked", "upgraded", "refused", "serving",
                                "closing", "leaving", "over"}]
  BY DEF Client, Check, Upgrade, Join, Ended, HandlerCloses, Leave, ReadEnds, Ponged, Pinged,
     Take, Lock, Written, WriterCloses, Stop, PeerLeaves, TypeOK
<1>6. read' \in [Clients -> {"none", "reading", "pong", "ended"}]
  BY DEF Client, Check, Upgrade, Join, Ended, HandlerCloses, Leave, ReadEnds, Ponged, Pinged,
     Take, Lock, Written, WriterCloses, Stop, PeerLeaves, TypeOK
<1>7. write' \in [Clients -> {"none", "waiting", "frame", "writing", "closing", "ended"}]
  BY DEF Client, Check, Upgrade, Join, Ended, HandlerCloses, Leave, ReadEnds, Ponged, Pinged,
     Take, Lock, Written, WriterCloses, Stop, PeerLeaves, TypeOK
<1> QED BY <1>1, <1>2, <1>3, <1>4, <1>5, <1>6, <1>7 DEF TypeOK

-----------------------------------------------------------------------------
(* The invariant holds when the server starts.                             *)
LEMMA Initially == Init => IInv
<1> SUFFICES ASSUME Init PROVE IInv
  OBVIOUS
<1>1. /\ 0 \in 0..Width - 1 /\ 0 \in 0..SendBuffer
  BY Bounds
<1>2. scene.boot \in Nat /\ scene.boot \in 0..Width - 1
  BY Bounds DEF Init
<1>3. CollectorTypeOK
  <2>1. disk \in [Devices -> 0..Width - 1] /\ prevDisks \in [{} -> 0..Width - 1]
        /\ rates \in [{} -> 0..Width - 1]
    BY <1>1, <1>2 DEF Init, CollectorInit, None
  <2>2. disk \in Counters /\ prevDisks \in Counters /\ rates \in Counters
    BY <2>1, InCounters
  <2> QED BY <1>2, <2>2 DEF Init, CollectorInit, CollectorTypeOK, NoTime
<1>4. HubTypeOK /\ WsTypeOK
  BY <1>1 DEF Init, HubInit, HubTypeOK, WsInit, WsTypeOK
<1>5. churn \in 0..scene.churn /\ peak \in Nat
  BY Bounds DEF Init
<1>6. TypeOK
  BY <1>3, <1>4, <1>5 DEF Init, TypeOK
<1>7. Disks
  <2>1. /\ disk = [d \in Devices |-> scene.boot] /\ did = [d \in Devices |-> scene.boot]
        /\ DOMAIN prevDisks = {} /\ DOMAIN rates = {}
    BY DEF Init, CollectorInit, None
  <2>2. ASSUME NEW d \in DOMAIN disk PROVE disk[d] = Before(d) + did[d]
    <3>1. disk[d] = scene.boot /\ did[d] = scene.boot /\ Before(d) = 0
      BY <2>1, <2>2 DEF Before
    <3> QED BY <1>2, <3>1
  <2> QED BY <2>1, <2>2 DEF Disks
<1>8. Times
  <2>1. \A k \in {"busy", "guest", "idle", "iowait"} : cpu[k] = 0 /\ prevCPU[k] = 0 /\ ran[k] = 0
    BY DEF Init, CollectorInit, NoTime, Kinds
  <2>2. churn = 0
    BY DEF Init
  <2> QED BY <2>1, <2>2 DEF Times
<1>9. RatesTrue /\ PctTrue
  BY DEF Init, CollectorInit, RatesTrue, PctTrue, None, Due
<1>10. registered = {} /\ Between = {} /\ peak = 0
       /\ registered = {c \in Clients : handler[c] \in {"serving", "closing", "leaving"}}
  BY DEF Init, HubInit, Between
<1>11. IsFiniteSet({}) /\ Cardinality({}) = 0
  BY FS_EmptySet
<1>12. Books
  BY <1>10, <1>11 DEF Books
<1>13. CapHolds
  BY <1>10, <1>11, Bounds DEF CapHolds
<1> QED BY <1>6, <1>7, <1>8, <1>9, <1>12, <1>13 DEF IInv

(* Each step keeps the invariant.                                          *)
LEMMA Inductive == IInv /\ [Next]_vars => IInv'
<1> SUFFICES ASSUME IInv, [Next]_vars PROVE IInv'
  OBVIOUS
<1>1. /\ TypeOK /\ Disks /\ Times /\ RatesTrue /\ PctTrue /\ Books /\ CapHolds
  BY DEF IInv
<1>2. scene \in Scenes /\ churn \in 0..scene.churn /\ CollectorTypeOK
  BY <1>1 DEF TypeOK
<1>3. churn \in Nat /\ churn < Width
  BY <1>2, Bounds
<1>4. CollectorTypeOK' /\ Disks' /\ Times' /\ RatesTrue' /\ PctTrue'
  BY <1>1, <1>2, <1>3, SamplesStep DEF Samples
<1>5. ASSUME UNCHANGED <<registered, handler, peak>> PROVE Books' /\ CapHolds'
  BY <1>1, <1>5 DEF Books, CapHolds, Between
<1>6. CASE \E c \in Clients : Client(c)
  <2>1. TypeOK' /\ Books' /\ CapHolds'
    BY <1>1, <1>6, BooksStep, ClientTypes
  <2> QED BY <1>4, <2>1 DEF IInv
<1>7. CASE Publish
  <2>1. UNCHANGED <<wsVars, clientVars, registered, scene, churn, stopped>>
    BY <1>7 DEF Publish, Broadcast
  <2>2. sendCh' \in [Clients -> 0..SendBuffer]
    <3>1. sendCh \in [Clients -> 0..SendBuffer]
      BY <1>1 DEF TypeOK, HubTypeOK
    <3>2. \A c \in Clients : sendCh[c] < SendBuffer => sendCh[c] + 1 \in 0..SendBuffer
      BY <3>1, Bounds
    <3> QED BY <1>7, <3>1, <3>2 DEF Publish, Broadcast
  <2>3. TypeOK'
    BY <1>1, <1>4, <2>1, <2>2 DEF TypeOK, HubTypeOK, WsTypeOK, wsVars, clientVars
  <2> QED BY <1>4, <1>5, <2>1, <2>3 DEF IInv, clientVars
<1>8. CASE Machine
  <2>1. UNCHANGED <<wsVars, clientVars, hubVars, scene, stopped>>
    BY <1>8 DEF Machine
  <2>2. churn' \in 0..scene'.churn
    BY <1>2, <1>8, <2>1, Bounds DEF Machine
  <2>3. TypeOK'
    BY <1>1, <1>4, <2>1, <2>2 DEF TypeOK, HubTypeOK, WsTypeOK, wsVars, clientVars, hubVars
  <2> QED BY <1>4, <1>5, <2>1, <2>3 DEF IInv, clientVars, hubVars
<1>9. CASE StopCollector \/ UNCHANGED vars
  <2>1. UNCHANGED <<wsVars, clientVars, hubVars, scene, churn>> /\ stopped' \in BOOLEAN
    BY <1>1, <1>9 DEF StopCollector, vars, TypeOK
  <2>2. TypeOK'
    BY <1>1, <1>4, <2>1 DEF TypeOK, HubTypeOK, WsTypeOK, wsVars, clientVars, hubVars
  <2> QED BY <1>4, <1>5, <2>1, <2>2 DEF IInv, clientVars, hubVars
<1> QED BY <1>6, <1>7, <1>8, <1>9, Steps

(* So it holds in every state.                                             *)
LEMMA Always == Spec => []IInv
BY Initially, Inductive, PTL DEF Spec

-----------------------------------------------------------------------------
(* Every variable keeps its type: a percentage is one, a channel takes no  *)
(* more than it has room for, and no connection has two writers.           *)
THEOREM Typing == Spec => []TypeOK
BY Always, PTL DEF IInv

(* The connections and the handlers between Count and Register exceed      *)
(* ws_max_conns by no more than the handlers that were between them at a   *)
(* time, less one, in whatever order handlers count, fail and leave.       *)
THEOREM Capped == Spec => []CapHolds
BY Always, PTL DEF IInv

(* A snapshot accounts for what a disk has done since it was last shown or *)
(* came, once and in full, as a rate of one interval, whatever samples     *)
(* failed and whatever disks went between; and it is the rate of the last  *)
(* interval if the snapshot before showed the disk too.                    *)
THEOREM RatesRight == Spec => []RatesTrue
BY Always, PTL DEF IInv

(* The CPU percentage of a snapshot that has read /proc/stat is no less    *)
(* than the share of the time that the CPU was at work if iowait did not go*)
(* back, and no more than it if no guest ran; so it is that share if       *)
(* neither is so.                                                          *)
THEOREM PctRight == Spec => []PctTrue
BY Always, PTL DEF IInv
================================================================================
