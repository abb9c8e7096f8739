------------------------------- MODULE Collector -------------------------------
(***************************************************************************)
(* Telemetry samples of src/pkg/telemetry/collector.go: the kernel's       *)
(* counters, what the collector remembers of them, and the snapshot that   *)
(* it makes.  A disk is given by one counter of operations; the CPU by the *)
(* aggregate line of /proc/stat.  The lines of the cores, which the code   *)
(* pairs by their place in lists of the same length, are left out, and so  *)
(* is what is copied from a file of /proc as it stands (memory, load,      *)
(* network, mounts).  The module has no next-state relation of its own.    *)
(***************************************************************************)
EXTENDS Integers

CONSTANTS
  Devices,   \* disks that may be there
  Width,     \* counters are unsigned numbers below it (2^64)
  Interval   \* of the collector, in seconds (2)

VARIABLES
  disk,      \* the kernel's counters, of the disks that are there
  cpu,
  prevDisks, \* Collector.prevDisks, by device
  prevCPU,
  rates,     \* of the last snapshot: operations per second of each disk
  pct,       \* of the last snapshot: CPU.Aggregate
  did,       \* history: what each disk has done since it was last shown, or came
  lately,    \* history: what each disk has done since the last snapshot, or came
  ran,       \* history: what the CPU has done since /proc/stat was last read
  odd,       \* history: counters that were reset since, or that went back
  due        \* history: what the last snapshot had to go by

kernelVars    == <<disk, cpu, did, lately, ran, odd>>
collectorVars == <<kernelVars, prevDisks, prevCPU, rates, pct, due>>

(* What the CPU may do.  Guest time is part of the user time of /proc/stat *)
(* and has a field of its own; busy stands for the rest of user, nice,     *)
(* system, irq, softirq and steal.                                         *)
Kinds  == {"busy", "guest", "idle", "iowait"}
NoTime == [k \in Kinds |-> 0]
None   == [d \in {} |-> 0]
Due(shown, stat) == [did |-> did, lately |-> lately, ran |-> ran, odd |-> odd,
                     shown |-> shown, stat |-> stat]
(* Each disk has been at work before the server starts.                    *)
CollectorInit(boot) ==
  /\ disk = [d \in Devices |-> boot] /\ cpu = NoTime
  /\ prevDisks = None /\ prevCPU = NoTime /\ rates = None /\ pct = 0
  /\ did = [d \in Devices |-> boot] /\ lately = [d \in Devices |-> 0]
  /\ ran = NoTime /\ odd = {} /\ due = Due({}, FALSE)

Counters == UNION {[D -> 0..Width - 1] : D \in SUBSET Devices}
CollectorTypeOK ==
  /\ disk \in Counters /\ prevDisks \in Counters /\ rates \in Counters
  /\ cpu \in [Kinds -> Nat] /\ prevCPU \in [Kinds -> Nat] /\ ran \in [Kinds -> Nat]
  /\ did \in [Devices -> Nat] /\ lately \in [Devices -> Nat]
  /\ pct \in 0..100 /\ odd \subseteq Devices \cup Kinds

(* The machine works; a disk is reset, or comes or goes; and the idle and  *)
(* the iowait time that Linux reports may go back.                         *)
DiskWorks(d) == /\ d \in DOMAIN disk /\ disk[d] < Width - 1
                /\ disk' = [disk EXCEPT ![d] = @ + 1]
                /\ did' = [did EXCEPT ![d] = @ + 1] /\ lately' = [lately EXCEPT ![d] = @ + 1]
                /\ UNCHANGED <<cpu, ran, odd>>
DiskReset(d) == /\ d \in DOMAIN disk /\ disk[d] > 0
                /\ disk' = [disk EXCEPT ![d] = 0] /\ odd' = odd \cup {d}
                /\ UNCHANGED <<cpu, did, lately, ran>>
DiskGoes(d)  == /\ d \in DOMAIN disk
                /\ disk' = [e \in DOMAIN disk \ {d} |-> disk[e]]
                /\ UNCHANGED <<cpu, did, lately, ran, odd>>
(* A disk that comes back while the collector remembers it is odd.         *)
DiskComes(d) == /\ d \in Devices \ DOMAIN disk
                /\ disk' = [e \in DOMAIN disk \cup {d} |-> IF e = d THEN 0 ELSE disk[e]]
                /\ did' = [did EXCEPT ![d] = 0] /\ lately' = [lately EXCEPT ![d] = 0]
                /\ odd' = IF d \in DOMAIN prevDisks THEN odd \cup {d} ELSE odd \ {d}
                /\ UNCHANGED <<cpu, ran>>
CpuRuns(k)   == /\ cpu' = [cpu EXCEPT ![k] = @ + 1] /\ ran' = [ran EXCEPT ![k] = @ + 1]
                /\ UNCHANGED <<disk, did, lately, odd>>
CpuBack(k)   == /\ k \in {"idle", "iowait"} /\ cpu[k] > 0
                /\ cpu' = [cpu EXCEPT ![k] = @ - 1] /\ odd' = odd \cup {k}
                /\ UNCHANGED <<disk, did, lately, ran>>

(* Unsigned differences; and the sum of the nine fields, guest among them. *)
Minus(x, y) == (x - y) % Width
Total(t)    == t["busy"] + 2 * t["guest"] + t["idle"] + t["iowait"]
CalcCPUPct(prev, curr) ==
  LET total == Total(curr) - Total(prev)
      part  == (100 * (total - Minus(curr["idle"], prev["idle"]))) \div total
  IN  IF total <= 0 THEN 0 ELSE IF part < 0 THEN 0 ELSE part

Before(d) == IF d \in DOMAIN prevDisks THEN prevDisks[d] ELSE 0
IOPS(d)   == Minus(disk[d], Before(d)) \div Interval

(* Mutant of SampleDisks: forgets the last sample when a reading fails.    *)
SampleForgets(readable) ==
  IF readable /\ DOMAIN disk # {}
    THEN /\ rates' = [d \in DOMAIN disk |-> IOPS(d)] /\ prevDisks' = disk
    ELSE rates' = None /\ prevDisks' = None
(* The differences to the last sample that could be read and had disks, by *)
(* the interval of one sample.                                             *)
SampleDisks(readable) ==
  IF readable /\ DOMAIN disk # {}
    THEN /\ rates' = [d \in DOMAIN disk |-> IOPS(d)] /\ prevDisks' = disk
    ELSE rates' = None /\ UNCHANGED prevDisks

(* Mutant of SampleCPU: compares with what it has just read.               *)
SampleAfter(readable) ==
  IF readable THEN pct' = CalcCPUPct(cpu, cpu) /\ prevCPU' = cpu
              ELSE pct' = 0 /\ UNCHANGED prevCPU
(* Aggregate is 0 in a new snapshot, and JSON shows it.                    *)
SampleCPU(readable) ==
  IF readable THEN pct' = CalcCPUPct(prevCPU, cpu) /\ prevCPU' = cpu
              ELSE pct' = 0 /\ UNCHANGED prevCPU

(* buildSnapshot: each file is read by itself and may not be readable.     *)
Collect(outcomes) == \E stat, stats \in outcomes :
  /\ SampleCPU(stat) /\ SampleDisks(stats)
  /\ due' = Due(DOMAIN rates, stat)
  /\ LET seen == IF stats THEN DOMAIN disk ELSE {}
     IN  /\ did' = [d \in Devices |-> IF d \in seen THEN 0 ELSE did[d]]
         /\ lately' = [d \in Devices |-> 0]
         /\ ran' = IF stat THEN NoTime ELSE ran
         /\ odd' = odd \ (seen \cup IF stat THEN Kinds ELSE {})
  /\ UNCHANGED <<disk, cpu>>

-----------------------------------------------------------------------------
(* The share of its time that a CPU was not idle, in percent.              *)
Share(t) ==
  LET work == t["busy"] + t["guest"] + t["iowait"]
  IN  IF work + t["idle"] = 0 THEN 0 ELSE (100 * work) \div (work + t["idle"])

(* A snapshot accounts for what a disk has done since it was last shown,   *)
(* or since it came, all of it and none of it twice, whatever readings     *)
(* failed and whatever disks went in between; and it is the rate of the    *)
(* last interval if the snapshot before showed the disk.  Only a disk that *)
(* was reset, or came back while it was remembered, shows nonsense.        *)
RatesTrue == \A d \in DOMAIN rates \ due.odd :
  /\ rates[d] = due.did[d] \div Interval
  /\ d \in due.shown => rates[d] = due.lately[d] \div Interval

(* The CPU was at work as much of the time since /proc/stat was last read  *)
(* as the snapshot says: but for guests, whose time counts twice, so that  *)
(* it says more, and for iowait that goes back, so that it says less.      *)
PctTrue == (due.stat /\ "idle" \notin due.odd) =>
  /\ "iowait" \notin due.odd => pct >= Share(due.ran)
  /\ due.ran["guest"] = 0     => pct <= Share(due.ran)

(* Not so.  docs/telemetry-engine.md, "ops/s", "Delta over collection      *)
(* interval": what a snapshot shows is what the disk did in the interval   *)
(* that ends with it.  After a reading that failed it is the growth of     *)
(* several intervals, at first that since boot, divided by one.            *)
RatesOfInterval == \A d \in DOMAIN rates \ due.odd : rates[d] = due.lately[d] \div Interval

(* Not so.  docs/telemetry.md, "/proc file missing", "omit metric from     *)
(* snapshot": a snapshot that shows 0 % has found the CPU idle.            *)
ZeroIsIdle == (pct = 0 /\ due.odd = {}) => Share(due.ran) = 0
================================================================================
