------------------------------ MODULE Sampling ------------------------------
(***************************************************************************)
(* The rates of a metric snapshot (normalize.rs): of every disk and every  *)
(* network interface the kernel counts bytes; normalize() remembers the    *)
(* counters it last saw, by name and with the time of day, and shows what  *)
(* was added per second.  Mounts of the same total size become one disk.   *)
(*                                                                         *)
(* Bytes read and written, or received and sent, are treated alike: one    *)
(* counter per name stands for the two.                                    *)
(***************************************************************************)
EXTENDS Naturals, Sequences, SequencesExt

CONSTANTS
  Nics,         \* network interfaces
  Devices,      \* disks by name; the kernel counts the bytes of these
  Virtual,      \* file systems that are no device: their counters stay at 0
  Rank,         \* name -> its place: a device before the others, a short name before a long one
  MountTables,  \* what may be mounted: sequences of [name, total]
  MaxBytes,     \* bound on a counter
  MaxWall,      \* bound on the time of day
  MaxOdd        \* bound on the clock set, counters reset and remounts

Names == Nics \cup Devices \cup Virtual

ASSUME SamplingAssumption ==
  /\ Rank \in [Devices \cup Virtual -> Nat]
  /\ MountTables \subseteq Seq([name : Devices \cup Virtual, total : Nat])
  /\ MaxBytes \in Nat /\ MaxWall \in Nat /\ MaxOdd \in Nat

VARIABLES
  counters,  \* the kernel's: name -> bytes since the device came up
  wall,      \* Utc::now()
  mounts,
  stage,     \* what normalize is at: "disks" or "nets"
  left,      \* the mounts it has listed and not measured yet
  read,      \* the counters it has read and not measured yet, with what they say
  prev,      \* PREV_DISK and PREV_NETWORK: name -> the counter and the time it was seen
  disks,     \* the snapshot: total size -> the row of a disk
  nets,      \* the snapshot: interface -> its row
  moved,     \* history: name -> what went through since its counter was last read
  passed,    \* history: name -> the time since it was last measured
  odd

machineVars == <<counters, wall, mounts, moved, passed, odd>>
samplerVars == <<stage, left, read, prev, disks, nets>>
samplingVars == <<machineVars, samplerVars>>

\* Bytes that went through, and whether the counter began again.
Moved == [bytes : Nat, reset : BOOLEAN]
Still == [bytes |-> 0, reset |-> FALSE]
\* Time that passed, and whether the clock was set meanwhile.
Passed == [time : Nat, setBack : BOOLEAN, setForward : BOOLEAN]
NoTime == [time |-> 0, setBack |-> FALSE, setForward |-> FALSE]

Mount == [name : Devices \cup Virtual, total : Nat]
Reading == [bytes : Nat, moved : Moved]
Mark == [bytes : Nat, at : Nat]
Row == [name : Names, known : BOOLEAN, bytes : Nat, ms : Nat, moved : Moved, passed : Passed]

NamesOf(ms) == {ms[i].name : i \in DOMAIN ms}

SamplingTypeOK ==
  /\ counters \in [Names -> Nat] /\ wall \in Nat
  /\ mounts \in Seq(Mount) /\ left \in Seq(Mount)
  /\ stage \in {"disks", "nets"}
  /\ DOMAIN read \subseteq Names /\ read \in [DOMAIN read -> Reading]
  /\ DOMAIN prev \subseteq Names /\ prev \in [DOMAIN prev -> Mark]
  /\ DOMAIN disks \subseteq Nat /\ disks \in [DOMAIN disks -> Row]
  /\ DOMAIN nets \subseteq Nics /\ nets \in [DOMAIN nets -> Row]
  /\ moved \in [Names -> Moved] /\ passed \in [Names -> Passed]

SamplingInit ==
  /\ counters = [n \in Names |-> 0]
  /\ wall = 0
  /\ mounts \in MountTables
  /\ stage = "nets" /\ left = << >> /\ read = << >>
  /\ prev = << >>
  /\ disks = << >> /\ nets = << >>
  /\ moved = [n \in Names |-> Still]
  /\ passed = [n \in Names |-> NoTime]
  /\ odd = 0

-----------------------------------------------------------------------------
(* The machine                                                             *)

Traffic(n) ==
  /\ n \notin Virtual /\ counters[n] < MaxBytes
  /\ counters' = [counters EXCEPT ![n] = @ + 1]
  /\ moved' = [moved EXCEPT ![n].bytes = @ + 1]
  /\ UNCHANGED <<wall, mounts, passed, odd, samplerVars>>

TimePasses ==
  /\ wall < MaxWall
  /\ wall' = wall + 1
  /\ passed' = [n \in Names |-> [passed[n] EXCEPT !.time = @ + 1]]
  /\ UNCHANGED <<counters, mounts, moved, odd, samplerVars>>

Oddity == odd < MaxOdd /\ odd' = odd + 1

\* A device goes and comes back, counting from zero.
CounterResets(n) ==
  /\ counters[n] > 0 /\ Oddity
  /\ counters' = [counters EXCEPT ![n] = 0]
  /\ moved' = [moved EXCEPT ![n].reset = TRUE]
  /\ UNCHANGED <<wall, mounts, passed, samplerVars>>

\* The time of day is set, back or forward, and no time passes.
ClockSetTo(w) ==
  /\ w # wall /\ Oddity
  /\ wall' = w
  /\ passed' = [n \in Names |-> [passed[n] EXCEPT !.setBack = @ \/ w < wall,
                                                  !.setForward = @ \/ w > wall]]
  /\ UNCHANGED <<counters, mounts, moved, samplerVars>>

Remount ==
  /\ Oddity
  /\ mounts' \in MountTables \ {mounts}
  /\ UNCHANGED <<counters, wall, moved, passed, samplerVars>>

-----------------------------------------------------------------------------
(* normalize: it reads the counters of all disks, measures one after the   *)
(* other, each at a time of day of its own, and then does so with the      *)
(* interfaces.                                                             *)

Read(S) ==
  /\ read' = [n \in S |-> [bytes |-> counters[n], moved |-> moved[n]]]
  /\ moved' = [n \in Names |-> IF n \in S THEN Still ELSE moved[n]]

Difference(a, b) == IF a > b THEN a - b ELSE 0
AtLeastOne(ms) == IF ms > 1 THEN ms ELSE 1

\* What one name shows: the bytes added since, over the milliseconds that make the
\* rate, at least one.  A new name has no rate.
Measured(n) ==
  [name |-> n, known |-> n \in DOMAIN prev, moved |-> read[n].moved, passed |-> passed[n],
   bytes |-> IF n \in DOMAIN prev THEN Difference(read[n].bytes, prev[n].bytes) ELSE 0,
   ms |-> IF n \in DOMAIN prev THEN AtLeastOne(Difference(wall, prev[n].at)) ELSE 1]

\* Mutant of Seen: the counter first seen is kept.
SeenFirst(n) ==
  [x \in DOMAIN prev \cup {n} |->
     IF x = n /\ n \notin DOMAIN prev THEN [bytes |-> read[n].bytes, at |-> wall] ELSE prev[x]]

\* The map with this sample; a name that is not there any more keeps its entry.
Seen(n) ==
  [x \in DOMAIN prev \cup {n} |-> IF x = n THEN [bytes |-> read[n].bytes, at |-> wall] ELSE prev[x]]

Remember(n) ==
  /\ prev' = Seen(n)
  /\ passed' = [passed EXCEPT ![n] = NoTime]

\* deduplicate_disks: the first mount of a size makes the row, the best name names it.
Merged(m, row) ==
  IF m.total = 0 THEN disks
  ELSE [total \in DOMAIN disks \cup {m.total} |->
          IF total # m.total THEN disks[total]
          ELSE IF total \notin DOMAIN disks THEN row
          ELSE IF Rank[m.name] < Rank[disks[total].name] THEN [disks[total] EXCEPT !.name = m.name]
          ELSE disks[total]]

ReadDisks ==
  /\ stage = "nets" /\ DOMAIN read = {}
  /\ stage' = "disks" /\ left' = mounts /\ disks' = << >>
  /\ Read(NamesOf(mounts))
  /\ UNCHANGED <<counters, wall, mounts, prev, nets, passed, odd>>

\* A name mounted twice is measured twice, against the one reading of its counter.
MeasureDisk ==
  /\ left # << >>
  /\ left' = Tail(left)
  /\ LET m == Head(left) IN
       /\ disks' = Merged(m, Measured(m.name))
       /\ Remember(m.name)
       /\ read' = [n \in NamesOf(Tail(left)) |->
                     IF n = m.name THEN [read[n] EXCEPT !.moved = Still] ELSE read[n]]
  /\ UNCHANGED <<counters, wall, mounts, stage, nets, moved, odd>>

ReadNets ==
  /\ stage = "disks" /\ left = << >>
  /\ stage' = "nets" /\ nets' = << >>
  /\ Read(Nics)
  /\ UNCHANGED <<counters, wall, mounts, left, prev, disks, passed, odd>>

MeasureNet(n) ==
  /\ stage = "nets" /\ n \in DOMAIN read
  /\ nets' = [x \in DOMAIN nets \cup {n} |-> IF x = n THEN Measured(n) ELSE nets[x]]
  /\ Remember(n)
  /\ read' = [x \in DOMAIN read \ {n} |-> read[x]]
  /\ UNCHANGED <<counters, wall, mounts, stage, left, disks, moved, odd>>

SamplingNext ==
  \/ \E n \in Names : Traffic(n) \/ CounterResets(n)
  \/ TimePasses \/ Remount
  \/ \E w \in 0..MaxWall : ClockSetTo(w)
  \/ ReadDisks \/ MeasureDisk \/ ReadNets
  \/ \E n \in Nics : MeasureNet(n)

SamplingSpec == SamplingInit /\ [][SamplingNext]_samplingVars

-----------------------------------------------------------------------------
(* Properties                                                              *)

\* What a name is measured at is what went through between two readings of its counter:
\* no byte is in two measurements, and unless the counter began again in none, also
\* when a disk was away for some snapshots or is mounted twice.  The time it is spread
\* over is that between the readings of the clock that followed, at least a millisecond:
\* a clock set back can only make it shorter, one set forward only longer.  (A row shows
\* what the first mount of its size was measured at, under the best name; the others
\* of that size are measured for no row.)
RatesAreTrue ==
  \A row \in {disks[total] : total \in DOMAIN disks} \cup {nets[n] : n \in DOMAIN nets} :
    /\ row.bytes <= row.moved.bytes
    /\ row.known /\ ~row.moved.reset => row.bytes = row.moved.bytes
    /\ row.ms >= 1
    /\ row.known /\ ~row.passed.setBack => row.ms >= AtLeastOne(row.passed.time)
    /\ row.known /\ ~row.passed.setForward => row.ms <= AtLeastOne(row.passed.time)
=============================================================================
