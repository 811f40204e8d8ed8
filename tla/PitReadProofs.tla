---------------------------- MODULE PitReadProofs ----------------------------
(***************************************************************************)
(* Proofs about PitRead, for every index, number of slices, batch size,    *)
(* retry budget and number of evaluations.                                 *)
(*                                                                         *)
(* What a slice has gathered is what lies up to its position, but for      *)
(* documents of shards that failed; what was handed on is what lies in the *)
(* slices that are done. From that follow the completeness of a read that  *)
(* returns and its contract. Independently of it, as long as the gaps      *)
(* between two searches are short, what is left of keep_alive and the time *)
(* since the last search add up to it, and each task holds a working id.   *)
(* An attempt goes through the documents ahead of its position, each page  *)
(* taking some, so that an evaluation has a bounded number of steps; and   *)
(* until it is over, one of its tasks can take the next.                   *)
(***************************************************************************)
EXTENDS PitRead, SumProofs

States == {"waiting", "reading", "done"}
Env    == [gap : Nat, evaluations : Nat, writes : Nat, faults : Nat, id : Nat]
Planned == phase \in {"resolved", "lazy", "running"}

TypeInv ==
    /\ cfg \in Configs /\ world \in Worlds
    /\ phase \in {"start", "resolved", "lazy", "running", "raised"}
    /\ n \in Nat /\ (Planned => n \in SliceCounts \ {0})
    /\ live \subseteq Docs /\ snapshot \subseteq Docs
    /\ ttl \in Nat /\ ids \subseteq Nat
    /\ phase = "running" => /\ task \in [Slices -> States]
                            /\ pos \in [Slices -> Docs \cup {0}]
                            /\ pit_id \in [Slices -> Nat]
                            /\ rows \in [Slices -> [Docs -> Nat]]
    /\ out \in [Docs -> Nat]
    /\ env \in Env /\ env.gap <= world.max_gap
    /\ phase \in {"start", "resolved"} => env.evaluations = 0
    /\ phase = "running" => env.evaluations # 0

LEMMA Constants ==
    /\ Docs \subseteq Nat \ {0}
    /\ SliceCounts \subseteq Nat /\ Cardinality(Shards) \in SliceCounts \ {0}
    /\ 1 \in SliceCounts \ {0}
    /\ \A c \in Configs : c.num_slices \in SliceCounts
    /\ \A w \in Worlds : w.max_gap \in Nat /\ w.refreshes \in Nat /\ w.partial \in BOOLEAN
    /\ KeepAlive \in Nat \ {0} /\ BatchSize \in Nat \ {0}
<1>1. Cardinality(Shards) \in Nat \ {0}
    BY PitReadAssumption, FS_CardinalityType, FS_EmptySet
<1>2. \A c \in Configs : c.num_slices \in Nat
    BY PitReadAssumption DEF Config
<1> QED BY <1>1, <1>2, PitReadAssumption DEF SliceCounts, World

LEMMA Ranks == Docs \cup {0} \subseteq Nat /\ Docs \subseteq Nat /\ KeepAlive \in Nat
BY PitReadAssumption

LEMMA InitTyped == Init => TypeInv
BY Constants DEF Init, TypeInv, Planned, NoRows, CapturedId, Env

-----------------------------------------------------------------------------
(* Types                                                                    *)

LEMMA TouchTyped ==
    ASSUME TypeInv, NEW s, NEW id \in 0..world.refreshes, Touch(s, id)
    PROVE  /\ ttl' = KeepAlive /\ ids' \subseteq Nat
           /\ env' \in Env /\ env'.gap = 0
           /\ env'.evaluations = env.evaluations /\ env'.faults = env.faults
<1>1. id \in Nat /\ env \in Env
    BY Constants DEF TypeInv
<1>2. CASE env' = [env EXCEPT !.gap = 0] /\ UNCHANGED ids
    BY <1>1, <1>2 DEF Touch, Prolonged, Env, TypeInv
<1>3. CASE /\ env' = [env EXCEPT !.gap = 0, !.id = id]
           /\ ids' = (IF world.old_ids_work THEN ids ELSE ids \ {pit_id[s]}) \cup {id}
    <2>1. env' = [gap |-> 0, evaluations |-> env.evaluations, writes |-> env.writes,
                  faults |-> env.faults, id |-> id]
        BY <1>1, <1>3 DEF Env
    <2> QED BY <1>1, <1>3, <2>1 DEF Touch, Prolonged, Env, TypeInv
<1> QED BY <1>2, <1>3 DEF Touch

(* A request that raises changes no more than the count of faults.          *)
LEMMA FaultTyped ==
    ASSUME TypeInv, env' = Faulted
    PROVE  /\ env' \in Env /\ env'.gap = env.gap /\ env'.evaluations = env.evaluations
           /\ env'.faults > 0
BY DEF TypeInv, Env, Faulted

LEMMA DriverTyped == TypeInv /\ Driver => TypeInv'
<1> SUFFICES ASSUME TypeInv, Driver PROVE TypeInv'
    OBVIOUS
<1> USE DEF TypeInv
<1>1. CASE ValidationFails
    BY <1>1 DEF ValidationFails, Raise, Planned, pit, tasks
<1>2. CASE ResolveSlices
    <2>1. /\ phase' = "resolved" /\ UNCHANGED <<cfg, world, live, pit, tasks, out, missing>>
          /\ n' \in SliceCounts \ {0} /\ phase = "start"
        BY <1>2, Constants DEF ResolveSlices, Resolved, ShardCount
    <2>2. env' \in Env /\ env'.gap = env.gap /\ env'.evaluations = env.evaluations
        BY <1>2, FaultTyped DEF ResolveSlices
    <2> QED BY <2>1, <2>2, Constants DEF Planned, pit, tasks
<1>3. CASE PlanFails
    BY <1>3, FaultTyped DEF PlanFails, Raise, Planned, pit, tasks
<1>4. CASE OpenPit
    <2>1. env' \in Env /\ env'.gap = 0 /\ env'.evaluations = env.evaluations
        BY <1>4 DEF OpenPit, Env
    <2> QED BY <1>4, <2>1, Constants DEF OpenPit, Planned, CapturedId, tasks
<1>5. CASE Evaluate
    <2>1. env' \in Env /\ env'.gap = env.gap /\ env'.evaluations # 0
        BY <1>5 DEF Evaluate, Env
    <2> QED BY <1>5, <2>1 DEF Evaluate, Planned, CapturedId, pit, States, Slices, NoRows
<1>6. CASE Return
    BY <1>6 DEF Return, Planned, pit, tasks
<1> QED BY <1>1, <1>2, <1>3, <1>4, <1>5, <1>6 DEF Driver

LEMMA TaskTyped ==
    ASSUME TypeInv, NEW s \in Slices, Task(s)
    PROVE  TypeInv'
<1> USE DEF TypeInv
<1>1. CASE StartTask(s)
    BY <1>1 DEF StartTask, Planned, driver, pit, Slices, States, NoRows, CapturedId
<1>2. CASE NextPage(s)
    <2>1. phase = "running"
        BY <1>2 DEF NextPage, Reading
    <2>2. PICK F \in Failures, id \in 0..world.refreshes :
              \E hits \in SUBSET {d \in Remaining(s) : ShardOf[d] \notin F} :
                 /\ Touch(s, id)
                 /\ rows' = [rows EXCEPT ![s] =
                                [d \in Docs |-> IF d \in hits THEN @[d] + 1 ELSE @[d]]]
                 /\ \E last \in hits : pos' = [pos EXCEPT ![s] = last]
                 /\ pit_id' = [pit_id EXCEPT ![s] = id]
        BY <1>2 DEF NextPage
    <2>3. PICK hits \in SUBSET {d \in Remaining(s) : ShardOf[d] \notin F} :
                 /\ rows' = [rows EXCEPT ![s] =
                                [d \in Docs |-> IF d \in hits THEN @[d] + 1 ELSE @[d]]]
                 /\ \E last \in hits : pos' = [pos EXCEPT ![s] = last]
        BY <2>2
    <2>4. hits \subseteq Docs
        BY DEF Remaining, InSlice
    <2>5. id \in Nat
        BY Constants
    <2>6. /\ pos' \in [Slices -> Docs \cup {0}] /\ pit_id' \in [Slices -> Nat]
          /\ rows' \in [Slices -> [Docs -> Nat]]
        BY <2>1, <2>2, <2>3, <2>4, <2>5
    <2>7. ttl' = KeepAlive /\ ids' \subseteq Nat /\ env' \in Env /\ env'.gap = 0 /\ snapshot' = snapshot
          /\ env'.evaluations = env.evaluations
        BY <2>2, TouchTyped DEF Touch
    <2>8. /\ cfg' = cfg /\ world' = world /\ phase' = phase /\ n' = n /\ live' = live
          /\ task' = task /\ out' = out
        BY <1>2 DEF NextPage, driver
    <2>9. env'.gap <= world'.max_gap /\ ttl' \in Nat /\ (Planned' <=> Planned) /\ Slices' = Slices
        BY <2>7, <2>8, Constants DEF Planned, Slices
    <2> QED BY <2>1, <2>6, <2>7, <2>8, <2>9
<1>3. CASE EndSlice(s)
    <2>1. PICK id \in 0..world.refreshes : Touch(s, id)
        BY <1>3 DEF EndSlice
    <2>2. ttl' = KeepAlive /\ ids' \subseteq Nat /\ env' \in Env /\ env'.gap = 0 /\ snapshot' = snapshot
          /\ env'.evaluations = env.evaluations
        BY <2>1, TouchTyped DEF Touch
    <2>3. phase = "running"
        BY <1>3 DEF EndSlice, Reading
    <2>4. out' \in [Docs -> Nat]
        BY <1>3, <2>3 DEF EndSlice
    <2>5. /\ task' \in [Slices -> States] /\ Slices' = Slices
          /\ UNCHANGED <<cfg, world, phase, n, live, pos, pit_id, rows>>
        BY <1>3, <2>3 DEF EndSlice, driver, Slices, States
    <2>6. ttl' \in Nat /\ env'.gap <= world.max_gap
        BY <2>2, Constants
    <2> QED BY <2>2, <2>3, <2>4, <2>5, <2>6 DEF Planned
<1>4. CASE AttemptFails(s)
    <2>1. phase = "running"
        BY <1>4 DEF AttemptFails, Reading
    <2>2. ttl' \in Nat /\ ids' \subseteq Nat /\ env' \in Env /\ env'.gap <= world.max_gap
          /\ snapshot' = snapshot /\ env'.evaluations = env.evaluations
        <3>1. CASE UNCHANGED <<pit, env>>
            BY <3>1 DEF pit
        <3>2. CASE env' = Faulted /\ UNCHANGED pit
            BY <3>2, FaultTyped DEF pit
        <3>3. ASSUME NEW id \in 0..world.refreshes, Touch(s, id)
              PROVE  /\ ttl' \in Nat /\ ids' \subseteq Nat /\ env' \in Env
                     /\ env'.gap <= world.max_gap /\ snapshot' = snapshot
                     /\ env'.evaluations = env.evaluations
            <4>1. ttl' = KeepAlive /\ env'.gap = 0 /\ world.max_gap \in Nat
                BY <3>3, TouchTyped, Constants
            <4>2. ids' \subseteq Nat /\ env' \in Env /\ snapshot' = snapshot
                  /\ env'.evaluations = env.evaluations
                BY <3>3, TouchTyped DEF Touch
            <4> QED BY <4>1, <4>2, Ranks
        <3> QED BY <1>4, <3>1, <3>2, <3>3 DEF AttemptFails
    <2>3. (UNCHANGED driver) \/ (phase' = "raised" /\ UNCHANGED <<cfg, world, n>>)
        BY <1>4 DEF AttemptFails, Raise
    <2> QED BY <1>4, <2>1, <2>2, <2>3 DEF AttemptFails, driver, Planned, Slices, States
<1> QED BY <1>1, <1>2, <1>3, <1>4 DEF Task

LEMMA OutsideTyped == TypeInv /\ Outside => TypeInv'
<1> SUFFICES ASSUME TypeInv, Outside PROVE TypeInv'
    OBVIOUS
<1> USE DEF TypeInv
<1>1. CASE Tick
    <2>1. env' \in Env /\ env'.gap = env.gap + 1 /\ env'.evaluations = env.evaluations
        BY <1>1 DEF Tick, Env
    <2>2. env'.gap <= world.max_gap /\ ttl' \in Nat
        BY <1>1, <2>1, Constants DEF Tick, Env
    <2> QED BY <1>1, <2>1, <2>2 DEF Tick, driver, tasks, Planned, Slices
<1>2. ASSUME NEW d \in Docs, Write(d) PROVE TypeInv'
    <2>1. env' \in Env /\ env'.gap = env.gap /\ env'.evaluations = env.evaluations
        BY <1>2 DEF Write, Env
    <2> QED BY <1>2, <2>1 DEF Write, driver, pit, tasks, Planned, Slices
<1> QED BY <1>1, <1>2 DEF Outside

LEMMA TypeStep == TypeInv /\ [Next]_vars => TypeInv'
<1>1. TypeInv /\ UNCHANGED vars => TypeInv'
    BY DEF TypeInv, vars, driver, pit, tasks, Planned, Slices
<1> QED BY <1>1, DriverTyped, TaskTyped, OutsideTyped DEF Next

-----------------------------------------------------------------------------
(* What is read                                                             *)

(* The slice that holds d                                                   *)
Home(d) == IF n = 1 THEN 0 ELSE SliceOf[n][d]

LEMMA SlicesPartition ==
    ASSUME TypeInv, phase = "running"
    PROVE  \A d \in Docs : /\ Home(d) \in Slices
                           /\ \A s \in Slices : d \in InSlice(s) <=> d \in snapshot /\ Home(d) = s
<1>1. n \in SliceCounts \ {0} /\ n \in Nat
    BY DEF TypeInv, Planned
<1>2. CASE n = 1
    <2>1. Slices = {0}
        BY <1>2 DEF Slices
    <2> QED BY <1>2, <2>1 DEF Home, InSlice, TypeInv
<1>3. CASE n # 1
    <2>1. SliceOf[n] \in [Docs -> 0..(n - 1)]
        BY <1>1, PitReadAssumption
    <2> QED BY <1>3, <2>1 DEF Home, InSlice, Slices, TypeInv
<1> QED BY <1>2, <1>3

(* The rows of a slice that is being read                                   *)
Gathered(s) ==
    \A d \in Docs :
        /\ rows[s][d] \in {0, 1}
        /\ rows[s][d] = 1 => d \in InSlice(s) /\ d <= pos[s] /\ d \notin world.uncoercible
        /\ d \in InSlice(s) /\ d <= pos[s] /\ ShardOf[d] \notin missing => rows[s][d] = 1

(* The rows of the slices that have been read                               *)
HandedOn ==
    \A d \in Docs :
        /\ out[d] \in {0, 1}
        /\ out[d] = 1 => d \in snapshot /\ task[Home(d)] = "done" /\ d \notin world.uncoercible
        /\ d \in snapshot /\ task[Home(d)] = "done" /\ ShardOf[d] \notin missing => out[d] = 1

Complete ==
    \A d \in Docs :
        /\ out[d] \in {0, 1}
        /\ out[d] = 1 => d \in snapshot /\ d \notin world.uncoercible
        /\ d \in snapshot /\ ShardOf[d] \notin missing => out[d] = 1

ReadInv ==
    /\ phase = "running" => HandedOn /\ \A s \in Slices : task[s] = "reading" => Gathered(s)
    /\ Returned => Complete
    /\ ~world.partial => missing = {}
    /\ phase \in {"start", "resolved"} => out = NoRows /\ snapshot = {}

(* A page follows what was gathered before it: no document of it was there, *)
(* and none up to its last is left out but those of failed shards.          *)
LEMMA PageGathered ==
    ASSUME TypeInv, NEW s \in Slices, phase = "running", Gathered(s), NEW F,
           NEW hits \in SUBSET {d \in Remaining(s) : ShardOf[d] \notin F},
           IsPage(hits, {d \in Remaining(s) : ShardOf[d] \notin F}), Coerced(hits),
           NEW last \in hits, SearchAfter(last, hits),
           rows' = [rows EXCEPT ![s] = [d \in Docs |-> IF d \in hits THEN @[d] + 1 ELSE @[d]]],
           pos' = [pos EXCEPT ![s] = last], missing' = missing \cup F,
           UNCHANGED <<n, snapshot, world>>
    PROVE  Gathered(s)'
<1> DEFINE asked == {d \in Remaining(s) : ShardOf[d] \notin F}
<1>1. /\ pos[s] \in Nat /\ Docs \subseteq Nat /\ rows \in [Slices -> [Docs -> Nat]]
      /\ pos \in [Slices -> Docs \cup {0}] /\ InSlice(s) \subseteq Docs
    <2>1. /\ rows \in [Slices -> [Docs -> Nat]] /\ pos \in [Slices -> Docs \cup {0}]
          /\ snapshot \subseteq Docs
        BY DEF TypeInv
    <2>2. pos[s] \in Docs \cup {0}
        BY <2>1
    <2> QED BY <2>1, <2>2, Ranks DEF InSlice
<1>2. pos'[s] = last /\ last > pos[s] /\ last \in Nat
    BY <1>1 DEF Remaining
<1>3. \A d \in Docs : rows'[s][d] = IF d \in hits THEN rows[s][d] + 1 ELSE rows[s][d]
    BY <1>1
<1>4. InSlice(s)' = InSlice(s)
    BY DEF InSlice
<1>5. ASSUME NEW d \in Docs
      PROVE  /\ rows'[s][d] \in {0, 1}
             /\ rows'[s][d] = 1 => d \in InSlice(s) /\ d <= last /\ d \notin world.uncoercible
             /\ d \in InSlice(s) /\ d <= last /\ ShardOf[d] \notin missing \cup F
                => rows'[s][d] = 1
    <2>1. CASE d \in hits
        <3>1. d \in InSlice(s) /\ d > pos[s] /\ d <= last /\ d \notin world.uncoercible
            BY <2>1 DEF Remaining, SearchAfter, Coerced
        <3>2. rows[s][d] = 0
            BY <1>1, <3>1 DEF Gathered
        <3> QED BY <1>3, <2>1, <3>1, <3>2
    <2>2. CASE d \notin hits
        <3>1. ASSUME d \in InSlice(s), d <= last, ShardOf[d] \notin missing \cup F
              PROVE  d <= pos[s]
            <4>1. SUFFICES ASSUME d > pos[s] PROVE FALSE
                BY <1>1
            <4>2. d \in asked
                BY <3>1, <4>1 DEF Remaining
            <4>3. d < last
                BY <1>1, <1>2, <2>2, <3>1
            <4> QED BY <2>2, <4>2, <4>3 DEF IsPage
        <3> QED BY <1>1, <1>2, <1>3, <2>2, <3>1 DEF Gathered
    <2> QED BY <2>1, <2>2
<1> QED BY <1>2, <1>4, <1>5 DEF Gathered

(* Reading one slice leaves what another one gathered; failed shards only   *)
(* weaken what is claimed.                                                  *)
LEMMA GatheredKept ==
    ASSUME NEW s, Gathered(s), rows'[s] = rows[s], pos'[s] = pos[s], missing \subseteq missing',
           UNCHANGED <<n, snapshot, world>>
    PROVE  Gathered(s)'
BY DEF Gathered, InSlice

LEMMA HandedOnKept ==
    ASSUME HandedOn, \A s \in Slices : (task'[s] = "done") <=> (task[s] = "done"),
           TypeInv, phase = "running", missing \subseteq missing',
           UNCHANGED <<n, snapshot, world, out>>
    PROVE  HandedOn'
<1>1. \A d \in Docs : Home(d)' = Home(d) /\ Home(d) \in Slices
    BY SlicesPartition DEF Home
<1> QED BY <1>1 DEF HandedOn

LEMMA InitRead == Init => ReadInv
BY DEF Init, ReadInv, Returned

LEMMA DriverRead == TypeInv /\ ReadInv /\ Driver => ReadInv'
<1> SUFFICES ASSUME TypeInv, ReadInv, Driver PROVE ReadInv'
    OBVIOUS
<1>1. CASE ValidationFails
    BY <1>1 DEF ValidationFails, Raise, ReadInv, Returned, pit, tasks
<1>2. CASE ResolveSlices
    BY <1>2 DEF ResolveSlices, Resolved, ReadInv, Returned, pit, tasks
<1>3. CASE PlanFails
    BY <1>3 DEF PlanFails, Raise, ReadInv, Returned, pit, tasks
<1>4. CASE OpenPit
    <2>1. env'.evaluations = 0
        BY <1>4 DEF OpenPit, TypeInv, Env
    <2> QED BY <1>4, <2>1 DEF OpenPit, ReadInv, Returned, tasks
<1>5. CASE Evaluate
    <2>1. /\ phase' = "running" /\ out' = NoRows /\ n' = n
          /\ task' = [s \in Slices |-> "waiting"] /\ missing' = missing
          /\ world' = world /\ snapshot' = snapshot
        BY <1>5 DEF Evaluate, pit
    <2>2. TypeInv' /\ Slices' = Slices
        BY <2>1, DriverTyped DEF Slices
    <2>3. \A d \in Docs : Home(d)' \in Slices
        <3>1. n' = n /\ n \in SliceCounts \ {0} /\ n \in Nat
            BY <1>5, <2>1 DEF TypeInv, Planned, Evaluate
        <3>2. CASE n = 1
            BY <3>1, <3>2 DEF Home, Slices
        <3>3. CASE n # 1
            <4>1. SliceOf[n] \in [Docs -> 0..(n - 1)]
                BY <3>1, PitReadAssumption
            <4> QED BY <3>1, <3>3, <4>1 DEF Home, Slices
        <3> QED BY <3>2, <3>3
    <2>4. HandedOn'
        BY <2>1, <2>3 DEF HandedOn, NoRows
    <2> QED BY <2>1, <2>2, <2>4 DEF ReadInv, Returned
<1>6. CASE Return
    <2>1. \A d \in Docs : Home(d) \in Slices
        BY <1>6, SlicesPartition DEF Return
    <2>2. Complete
        BY <1>6, <2>1 DEF Return, ReadInv, HandedOn, Complete
    <2>3. Complete'
        BY <1>6, <2>2 DEF Return, Complete, pit
    <2> QED BY <1>6, <2>3 DEF Return, ReadInv, Returned
<1> QED BY <1>1, <1>2, <1>3, <1>4, <1>5, <1>6 DEF Driver

LEMMA NextPageRead ==
    ASSUME TypeInv, ReadInv, NEW s \in Slices, NextPage(s)
    PROVE  ReadInv'
<1>1. /\ phase = "running" /\ task[s] = "reading" /\ Gathered(s) /\ HandedOn
      /\ UNCHANGED <<cfg, world, phase, n, task, out>>
    BY DEF NextPage, Reading, Working, ReadInv, driver
<1>2. PICK F \in Failures, id \in 0..world.refreshes :
         LET asked == {d \in Remaining(s) : ShardOf[d] \notin F} IN
         \E hits \in SUBSET asked :
            /\ IsPage(hits, asked) /\ hits # {} /\ Coerced(hits)
            /\ Touch(s, id)
            /\ rows' = [rows EXCEPT ![s] =
                           [d \in Docs |-> IF d \in hits THEN @[d] + 1 ELSE @[d]]]
            /\ \E last \in hits :
                  /\ SearchAfter(last, hits)
                  /\ pos' = [pos EXCEPT ![s] = last]
            /\ missing' = missing \cup F
    BY DEF NextPage
<1>3. snapshot' = snapshot /\ missing' = missing \cup F
    BY <1>2 DEF Touch
<1>4. Gathered(s)'
    BY <1>1, <1>2, <1>3, PageGathered
<1>5. ASSUME NEW t \in Slices, t # s, task[t] = "reading" PROVE Gathered(t)'
    <2>1. rows'[t] = rows[t] /\ pos'[t] = pos[t]
        BY <1>1, <1>2, <1>5 DEF TypeInv
    <2>2. Gathered(t)
        BY <1>1, <1>5 DEF ReadInv
    <2> QED BY <1>1, <1>3, <2>1, <2>2, GatheredKept
<1>6. HandedOn'
    BY <1>1, <1>3, HandedOnKept
<1>7. ~world.partial => missing' = {}
    BY <1>3 DEF ReadInv, Failures
<1>8. Slices' = Slices
    BY <1>1 DEF Slices
<1> QED BY <1>1, <1>4, <1>5, <1>6, <1>7, <1>8 DEF ReadInv, Returned

(* The empty page is the proof that nothing is left, but in failed shards.  *)
LEMMA EndSliceRead ==
    ASSUME TypeInv, ReadInv, NEW s \in Slices, EndSlice(s)
    PROVE  ReadInv'
<1>1. /\ phase = "running" /\ task[s] = "reading" /\ Gathered(s) /\ HandedOn
      /\ UNCHANGED <<cfg, world, phase, n, pos, rows>>
      /\ task' = [task EXCEPT ![s] = "done"]
      /\ out' = [d \in Docs |-> out[d] + rows[s][d]]
    BY DEF EndSlice, Reading, Working, ReadInv, driver
<1>2. PICK F \in Failures, id \in 0..world.refreshes :
         NoHits(s, F) /\ Touch(s, id) /\ missing' = missing \cup F
    BY DEF EndSlice
<1>3. snapshot' = snapshot
    BY <1>2 DEF Touch
<1>4. task \in [Slices -> States] /\ Slices' = Slices
    BY <1>1 DEF TypeInv, Slices
<1>5. ASSUME NEW t \in Slices, task'[t] = "reading" PROVE Gathered(t)'
    <2>1. t # s /\ task[t] = "reading"
        BY <1>1, <1>4, <1>5
    <2>2. Gathered(t)
        BY <1>1, <2>1 DEF ReadInv
    <2> QED BY <1>1, <1>2, <1>3, <2>2, GatheredKept
<1>6. ASSUME NEW d \in Docs
      PROVE  /\ out'[d] \in {0, 1}
             /\ out'[d] = 1 => /\ d \in snapshot /\ task'[Home(d)] = "done"
                               /\ d \notin world.uncoercible
             /\ d \in snapshot /\ task'[Home(d)] = "done" /\ ShardOf[d] \notin missing'
                => out'[d] = 1
    <2>1. Home(d) \in Slices /\ (d \in InSlice(s) <=> d \in snapshot /\ Home(d) = s)
        BY <1>1, SlicesPartition
    <2>2. CASE d \in InSlice(s)
        <3>1. out[d] = 0
            BY <1>1, <2>1, <2>2 DEF HandedOn
        <3>2. out'[d] = rows[s][d] /\ rows[s][d] \in {0, 1}
            BY <1>1, <3>1 DEF Gathered
        <3>3. rows[s][d] = 1 => d \notin world.uncoercible
            BY <1>1 DEF Gathered
        <3>4. task'[Home(d)] = "done"
            BY <1>1, <1>4, <2>1, <2>2
        <3>5. ShardOf[d] \notin missing' => d <= pos[s]
            <4>1. ShardOf[d] \notin F => d \notin Remaining(s)
                BY <1>2 DEF NoHits
            <4>2. d \in Nat /\ pos[s] \in Nat
                <5>1. pos \in [Slices -> Docs \cup {0}]
                    BY <1>1 DEF TypeInv
                <5>2. pos[s] \in Docs \cup {0}
                    BY <5>1
                <5> QED BY <5>2, Ranks
            <4> QED BY <1>2, <2>2, <4>1, <4>2 DEF Remaining
        <3>6. ShardOf[d] \notin missing' => rows[s][d] = 1
            BY <1>1, <1>2, <2>2, <3>5 DEF Gathered
        <3> QED BY <2>1, <2>2, <3>2, <3>3, <3>4, <3>6
    <2>3. CASE d \notin InSlice(s)
        <3>1. rows[s][d] = 0
            BY <1>1, <2>3 DEF Gathered
        <3>2. out'[d] = out[d]
            BY <1>1, <3>1 DEF HandedOn
        <3>3. d \in snapshot => task'[Home(d)] = task[Home(d)]
            BY <1>1, <1>4, <2>1, <2>3
        <3> QED BY <1>1, <1>2, <3>2, <3>3 DEF HandedOn
    <2> QED BY <2>2, <2>3
<1>7. HandedOn'
    <2>1. \A d : Home(d)' = Home(d)
        BY <1>1 DEF Home
    <2> QED BY <1>1, <1>3, <1>6, <2>1 DEF HandedOn
<1>8. ~world.partial => missing' = {}
    BY <1>2 DEF ReadInv, Failures
<1> QED BY <1>1, <1>4, <1>5, <1>7, <1>8 DEF ReadInv, Returned

LEMMA StartTaskRead ==
    ASSUME TypeInv, ReadInv, NEW s \in Slices, StartTask(s)
    PROVE  ReadInv'
<1>1. /\ phase = "running" /\ task[s] = "waiting" /\ HandedOn
      /\ UNCHANGED <<cfg, world, phase, n, out, snapshot, missing>>
      /\ task' = [task EXCEPT ![s] = "reading"]
      /\ pos' = [pos EXCEPT ![s] = 0] /\ rows' = [rows EXCEPT ![s] = NoRows]
    BY DEF StartTask, ReadInv, driver, pit
<1>2. /\ task \in [Slices -> States] /\ Slices' = Slices
      /\ pos \in [Slices -> Docs \cup {0}] /\ rows \in [Slices -> [Docs -> Nat]]
    BY <1>1 DEF TypeInv, Slices
<1>3. HandedOn'
    BY <1>1, <1>2, HandedOnKept
<1>4. Gathered(s)'
    <2>1. pos'[s] = 0 /\ rows'[s] = NoRows
        BY <1>1, <1>2
    <2>2. \A d \in Docs : d \in Nat /\ d > 0
        BY PitReadAssumption
    <2> QED BY <2>1, <2>2 DEF Gathered, NoRows
<1>5. ASSUME NEW t \in Slices, t # s, task'[t] = "reading" PROVE Gathered(t)'
    <2>1. task[t] = "reading" /\ rows'[t] = rows[t] /\ pos'[t] = pos[t]
        BY <1>1, <1>2, <1>5
    <2>2. Gathered(t)
        BY <1>1, <2>1 DEF ReadInv
    <2> QED BY <1>1, <2>1, <2>2, GatheredKept
<1> QED BY <1>1, <1>2, <1>3, <1>4, <1>5 DEF ReadInv, Returned

(* What a failed attempt gathered is forgotten: the task waits again.       *)
LEMMA AttemptFailsRead ==
    ASSUME TypeInv, ReadInv, NEW s \in Slices, AttemptFails(s)
    PROVE  ReadInv'
<1>1. /\ phase = "running" /\ task[s] = "reading" /\ HandedOn
      /\ UNCHANGED <<pos, rows, out, missing>>
      /\ task' = [task EXCEPT ![s] = "waiting"]
    BY DEF AttemptFails, Reading, Working, ReadInv
<1>2. UNCHANGED <<world, n>> /\ phase' \in {"running", "raised"}
    BY <1>1 DEF AttemptFails, Raise, driver
<1>3. snapshot' = snapshot
    BY DEF AttemptFails, pit, Touch
<1>4. task \in [Slices -> States] /\ Slices' = Slices
    BY <1>1, <1>2 DEF TypeInv, Slices
<1>5. HandedOn'
    BY <1>1, <1>2, <1>3, <1>4, HandedOnKept
<1>6. ASSUME NEW t \in Slices, task'[t] = "reading" PROVE Gathered(t)'
    <2>1. task[t] = "reading"
        BY <1>1, <1>4, <1>6
    <2>2. Gathered(t)
        BY <1>1, <2>1 DEF ReadInv
    <2> QED BY <1>1, <1>2, <1>3, <2>2, GatheredKept
<1> QED BY <1>1, <1>2, <1>4, <1>5, <1>6 DEF ReadInv, Returned

LEMMA OutsideRead == TypeInv /\ ReadInv /\ (Outside \/ UNCHANGED vars) => ReadInv'
<1> SUFFICES ASSUME TypeInv, ReadInv, Outside \/ UNCHANGED vars PROVE ReadInv'
    OBVIOUS
<1>1. /\ UNCHANGED <<cfg, world, phase, n, snapshot, task, pos, rows, out, missing>>
      /\ env'.evaluations = env.evaluations
    BY DEF Outside, Tick, Write, driver, pit, tasks, vars, TypeInv, Env
<1> QED BY <1>1 DEF ReadInv, Returned, HandedOn, Gathered, Complete, Home, InSlice, Slices

LEMMA ReadStep == TypeInv /\ ReadInv /\ [Next]_vars => ReadInv'
BY DriverRead, StartTaskRead, NextPageRead, EndSliceRead, AttemptFailsRead, OutsideRead DEF Next, Task

LEMMA ReadInvariant == Spec => [](TypeInv /\ ReadInv)
BY InitTyped, InitRead, TypeStep, ReadStep, PTL DEF Spec

(* The rows of an evaluation that returned are the documents of the         *)
(* snapshot, each once, but for those of shards that failed: for every      *)
(* index, number of slices, batch size, number of retries and evaluations.  *)
THEOREM CompleteHolds == Spec => []OnlyFailedShardsLoseRows
<1>1. ReadInv => OnlyFailedShardsLoseRows
    BY DEF ReadInv, Complete, OnlyFailedShardsLoseRows
<1> QED BY <1>1, ReadInvariant, PTL

(* A document that cannot be coerced fails the read, whichever slice, page  *)
(* or attempt meets it.                                                     *)
THEOREM UncoercibleHolds == Spec => []UncoercibleFailsTheRead
<1>1. TypeInv /\ ReadInv => UncoercibleFailsTheRead
    BY DEF TypeInv, ReadInv, Complete, UncoercibleFailsTheRead
<1> QED BY <1>1, ReadInvariant, PTL

-----------------------------------------------------------------------------
(* The contract                                                             *)

LEMMA ContractInit == Init => Contract!Init
<1> SUFFICES ASSUME Init PROVE Contract!Init
    OBVIOUS
<1>1. world.partial \in BOOLEAN
    BY Constants DEF Init
<1> QED BY <1>1 DEF Init, Contract!Init, Contract!NoRows, NoRows

LEMMA DriverKeepsContract == TypeInv /\ ReadInv /\ Driver => Contract!Next \/ UNCHANGED Contract!vars
<1> SUFFICES ASSUME TypeInv, ReadInv, Driver PROVE Contract!Next \/ UNCHANGED Contract!vars
    OBVIOUS
<1>1. CASE ValidationFails \/ PlanFails
    BY <1>1 DEF ValidationFails, PlanFails, Raise, pit, Contract!Next, Contract!Raise
<1>2. CASE ResolveSlices
    BY <1>2 DEF ResolveSlices, Resolved, pit, Contract!vars
<1>4. CASE OpenPit
    BY <1>4 DEF OpenPit, TypeInv, Contract!Next, Contract!Open
<1>5. CASE Evaluate
    BY <1>5 DEF Evaluate, pit, NoRows, Contract!NoRows, Contract!Next, Contract!Evaluate
<1>6. CASE Return
    <2>1. ASSUME ~world.partial PROVE out = Contract!OneRowOf(snapshot)
        <3>1. \A d \in Docs : Home(d) \in Slices
            BY <1>6, SlicesPartition DEF Return
        <3>2. \A d \in Docs : out[d] = IF d \in snapshot THEN 1 ELSE 0
            BY <1>6, <2>1, <3>1 DEF Return, ReadInv, HandedOn
        <3> QED BY <3>2 DEF TypeInv, Contract!OneRowOf
    <2> QED BY <1>6, <2>1 DEF Return, pit, TypeInv, Contract!Next, Contract!Return
<1> QED BY <1>1, <1>2, <1>4, <1>5, <1>6 DEF Driver

LEMMA TaskKeepsContract ==
    ASSUME TypeInv, ReadInv, NEW s \in Slices, Task(s)
    PROVE  Contract!Next \/ UNCHANGED Contract!vars
<1>1. CASE StartTask(s)
    BY <1>1 DEF StartTask, driver, pit, Contract!vars
<1>2. CASE NextPage(s)
    BY <1>2 DEF NextPage, driver, Touch, Contract!vars
<1>3. CASE EndSlice(s)
    <2> DEFINE S == {d \in Docs : rows[s][d] = 1}
    <2>1. /\ phase = "running" /\ task[s] = "reading" /\ Gathered(s) /\ HandedOn
          /\ UNCHANGED <<world, phase>> /\ out' = [d \in Docs |-> out[d] + rows[s][d]]
        BY <1>3 DEF EndSlice, Reading, Working, ReadInv, driver
    <2>2. snapshot' = snapshot
        BY <1>3 DEF EndSlice, Touch
    <2>3. S \subseteq snapshot /\ \A d \in S : out[d] = 0
        <3>1. ASSUME NEW d \in S PROVE d \in snapshot /\ out[d] = 0
            <4>1. d \in InSlice(s)
                BY <2>1 DEF Gathered
            <4>2. d \in snapshot /\ Home(d) = s
                BY <2>1, <4>1, SlicesPartition
            <4> QED BY <2>1, <4>2 DEF HandedOn
        <3> QED BY <3>1
    <2>4. out' = [d \in Docs |-> IF d \in S THEN 1 ELSE out[d]]
        <3>1. ASSUME NEW d \in Docs PROVE out[d] + rows[s][d] = IF d \in S THEN 1 ELSE out[d]
            BY <2>1, <2>3 DEF Gathered, HandedOn
        <3> QED BY <2>1, <3>1
    <2> HIDE DEF S
    <2> QED BY <2>1, <2>2, <2>3, <2>4 DEF Contract!Next, Contract!Gather
<1>4. CASE AttemptFails(s)
    <2>1. phase = "running" /\ UNCHANGED <<out, world>> /\ phase' \in {"running", "raised"}
        BY <1>4 DEF AttemptFails, Reading, Raise, driver
    <2>2. snapshot' = snapshot
        BY <1>4 DEF AttemptFails, pit, Touch
    <2> QED BY <2>1, <2>2 DEF Contract!vars, Contract!Next, Contract!Raise
<1> QED BY <1>1, <1>2, <1>3, <1>4 DEF Task

(* read_index implements ReadContract: every evaluation gathers rows of one *)
(* snapshot, none twice, and returns all of them (unless shards may fail    *)
(* silently) or raises.                                                     *)
THEOREM ContractKept == Spec => ImplementsContract
<1>1. TypeInv /\ ReadInv /\ [Next]_vars => [Contract!Next]_(Contract!vars)
    <2>1. Outside \/ UNCHANGED vars => UNCHANGED Contract!vars
        BY DEF Outside, Tick, Write, driver, pit, vars, Contract!vars
    <2> QED BY <2>1, DriverKeepsContract, TaskKeepsContract DEF Next
<1> QED BY <1>1, ContractInit, ReadInvariant, PTL DEF Spec, ImplementsContract, Contract!Spec

-----------------------------------------------------------------------------
(* The sliding window                                                       *)

(* Nothing goes wrong but the passing of time, in gaps shorter than         *)
(* keep_alive; where old ids die, one slice is read once.                   *)
Calm ==
    /\ cfg.valid /\ world.max_gap < KeepAlive /\ env.faults = 0
    /\ snapshot \cap world.uncoercible = {}
    /\ world.old_ids_work \/ (n <= 1 /\ env.evaluations <= 1)

(* What is left of keep_alive and the time since the last search            *)
Window == ttl + env.gap = KeepAlive

(* The ids that tasks hold or will start with                               *)
IdsWork ==
    /\ world.old_ids_work \/ env.evaluations = 0 => CapturedId \in ids
    /\ phase = "running" =>
          \A s \in Slices : /\ task[s] = "waiting" => CapturedId \in ids
                            /\ task[s] = "reading" => pit_id[s] \in ids

WindowInv == Calm => phase # "raised" /\ (phase \in {"lazy", "running"} => Window /\ IdsWork)

LEMMA InitWindow == Init => WindowInv
BY DEF Init, WindowInv

(* A search in time prolongs the PIT; the slice goes on with an id that     *)
(* works.                                                                   *)
LEMMA TouchWindow ==
    ASSUME TypeInv, NEW s, NEW id \in 0..world.refreshes, Touch(s, id)
    PROVE  /\ ttl' = KeepAlive /\ env'.gap = 0 /\ snapshot' = snapshot
           /\ env'.faults = env.faults /\ env'.evaluations = env.evaluations
           /\ id \in ids' /\ (world.old_ids_work => ids \subseteq ids')
BY TouchTyped DEF Touch

LEMMA DriverWindow == TypeInv /\ WindowInv /\ Driver => WindowInv'
<1> SUFFICES ASSUME TypeInv, WindowInv, Driver, Calm'
             PROVE  (phase # "raised" /\ (phase \in {"lazy", "running"} => Window /\ IdsWork))'
    BY DEF WindowInv
<1>1. ~ValidationFails
    BY DEF ValidationFails, Raise, Calm
<1>2. ~PlanFails
    BY FaultTyped DEF PlanFails, Raise, Calm
<1>3. CASE ResolveSlices
    BY <1>3 DEF ResolveSlices, Resolved
<1>4. CASE OpenPit
    <2>1. env'.gap = 0
        BY <1>4 DEF OpenPit, TypeInv, Env
    <2> QED BY <1>4, <2>1, Ranks DEF OpenPit, Window, IdsWork
<1>5. CASE Evaluate
    <2>1. /\ phase = "lazy" /\ phase' = "running" /\ UNCHANGED <<cfg, world, n, snapshot, ttl, ids>>
          /\ task' = [s \in Slices |-> "waiting"] /\ Slices' = Slices
        BY <1>5 DEF Evaluate, pit, Slices
    <2>2. /\ env'.evaluations = env.evaluations + 1 /\ env'.gap = env.gap
          /\ env'.faults = env.faults /\ env.evaluations \in Nat
        BY <1>5 DEF Evaluate, TypeInv, Env
    <2>3. Calm /\ (world.old_ids_work \/ env.evaluations = 0)
        BY <2>1, <2>2 DEF Calm
    <2>4. Window /\ CapturedId \in ids
        BY <2>1, <2>3 DEF WindowInv, IdsWork
    <2>5. Window'
        BY <2>1, <2>2, <2>4 DEF Window
    <2>6. IdsWork'
        BY <2>1, <2>4 DEF IdsWork, CapturedId
    <2> QED BY <2>1, <2>5, <2>6
<1>6. CASE Return
    BY <1>6 DEF Return, pit, tasks, Calm, WindowInv, Window, IdsWork
<1> QED BY <1>1, <1>2, <1>3, <1>4, <1>5, <1>6 DEF Driver

LEMMA TaskWindow ==
    ASSUME TypeInv, WindowInv, NEW s \in Slices, Task(s)
    PROVE  WindowInv'
<1> SUFFICES ASSUME Calm'
             PROVE  (phase # "raised" /\ (phase \in {"lazy", "running"} => Window /\ IdsWork))'
    BY DEF WindowInv
<1>1. /\ phase = "running" /\ task \in [Slices -> States] /\ pit_id \in [Slices -> Nat]
      /\ UNCHANGED <<cfg, world, n>>
    BY DEF Task, StartTask, NextPage, EndSlice, AttemptFails, Reading, Raise, driver, TypeInv
<1>2. Slices' = Slices
    BY <1>1 DEF Slices
<1>3. \A t \in Slices : world.old_ids_work \/ t = s
    BY <1>1 DEF Calm, Slices, TypeInv
<1>4. env.evaluations # 0
    BY <1>1 DEF TypeInv
<1>5. CASE StartTask(s)
    <2>1. Calm /\ Window /\ IdsWork
        BY <1>1, <1>5 DEF StartTask, pit, driver, Calm, WindowInv
    <2>2. UNCHANGED <<phase, ttl, ids, env>> /\ task[s] = "waiting"
          /\ task' = [task EXCEPT ![s] = "reading"] /\ pit_id' = [pit_id EXCEPT ![s] = CapturedId]
        BY <1>5 DEF StartTask, driver, pit
    <2>3. ASSUME NEW t \in Slices
          PROVE  /\ task'[t] = "waiting" => CapturedId \in ids'
                 /\ task'[t] = "reading" => pit_id'[t] \in ids'
        BY <1>1, <2>1, <2>2 DEF IdsWork
    <2>4. IdsWork'
        BY <1>1, <1>2, <2>1, <2>2, <2>3 DEF IdsWork, CapturedId
    <2> QED BY <1>1, <2>1, <2>2, <2>4 DEF Window
<1>6. CASE NextPage(s)
    <2>1. PICK id \in 0..world.refreshes : Touch(s, id) /\ pit_id' = [pit_id EXCEPT ![s] = id]
        BY <1>6 DEF NextPage
    <2>2. UNCHANGED <<phase, task>> /\ task[s] = "reading"
        BY <1>6 DEF NextPage, Reading, Working, driver
    <2>3. Calm /\ IdsWork
        BY <1>1, <2>1, TouchWindow DEF Calm, WindowInv
    <2>4. ASSUME NEW t \in Slices
          PROVE  /\ task'[t] = "waiting" => CapturedId \in ids'
                 /\ task'[t] = "reading" => pit_id'[t] \in ids'
        BY <1>1, <1>3, <2>1, <2>2, <2>3, TouchWindow DEF IdsWork
    <2>5. IdsWork'
        BY <1>1, <1>2, <1>4, <2>1, <2>2, <2>3, <2>4, TouchWindow DEF IdsWork, CapturedId
    <2> QED BY <1>1, <2>1, <2>2, <2>5, TouchWindow, Ranks DEF Window
<1>7. CASE EndSlice(s)
    <2>1. PICK id \in 0..world.refreshes : Touch(s, id)
        BY <1>7 DEF EndSlice
    <2>2. UNCHANGED <<phase, pit_id>> /\ task' = [task EXCEPT ![s] = "done"]
        BY <1>7 DEF EndSlice, driver
    <2>3. Calm /\ IdsWork
        BY <1>1, <2>1, TouchWindow DEF Calm, WindowInv
    <2>4. ASSUME NEW t \in Slices
          PROVE  /\ task'[t] = "waiting" => CapturedId \in ids'
                 /\ task'[t] = "reading" => pit_id'[t] \in ids'
        BY <1>1, <1>3, <2>1, <2>2, <2>3, TouchWindow DEF IdsWork
    <2>5. IdsWork'
        BY <1>1, <1>2, <1>4, <2>1, <2>2, <2>3, <2>4, TouchWindow DEF IdsWork, CapturedId
    <2> QED BY <1>1, <2>1, <2>2, <2>5, TouchWindow, Ranks DEF Window
<1>8. ~AttemptFails(s)
    <2> SUFFICES ASSUME AttemptFails(s) PROVE FALSE
        OBVIOUS
    <2>1. env' # Faulted
        BY FaultTyped DEF Calm
    <2>2. snapshot' = snapshot /\ env'.faults = env.faults /\ env'.evaluations = env.evaluations
        BY <2>1, TouchWindow DEF AttemptFails, pit
    <2>3. Calm /\ Window /\ IdsWork
        BY <1>1, <2>2 DEF Calm, WindowInv
    <2>4. ttl > 0 /\ pit_id[s] \in ids
        BY <1>1, <2>3, Constants DEF AttemptFails, Reading, Working, IdsWork, Window, Calm, TypeInv, Env
    <2>5. \A hits \in SUBSET Remaining(s) : Coerced(hits)
        BY <2>3 DEF Calm, Coerced, Remaining, InSlice
    <2> QED BY <2>1, <2>4, <2>5 DEF AttemptFails
<1> QED BY <1>5, <1>6, <1>7, <1>8 DEF Task

LEMMA OutsideWindow == TypeInv /\ WindowInv /\ (Outside \/ UNCHANGED vars) => WindowInv'
<1> SUFFICES ASSUME TypeInv, WindowInv, Outside \/ UNCHANGED vars PROVE WindowInv'
    OBVIOUS
<1>1. CASE Tick
    <2>1. /\ env'.gap = env.gap + 1 /\ env'.faults = env.faults
          /\ env'.evaluations = env.evaluations /\ env.gap \in Nat /\ env.gap + 1 <= world.max_gap
        BY <1>1, Constants DEF Tick, TypeInv, Env
    <2>2. UNCHANGED <<cfg, world, phase, n, snapshot, ids, task, pit_id>>
        BY <1>1 DEF Tick, driver, tasks
    <2>3. Calm' => Calm /\ world.max_gap < KeepAlive
        BY <2>1, <2>2 DEF Calm
    <2>4. Calm' /\ Window => Window'
        BY <1>1, <2>1, <2>3, Constants DEF Tick, Window, TypeInv
    <2>5. IdsWork => IdsWork'
        BY <2>1, <2>2 DEF IdsWork, Slices
    <2> QED BY <2>2, <2>3, <2>4, <2>5 DEF WindowInv
<1>2. ASSUME NEW d \in Docs, Write(d) PROVE WindowInv'
    <2>1. /\ env'.gap = env.gap /\ env'.faults = env.faults
          /\ env'.evaluations = env.evaluations
        BY <1>2 DEF Write, TypeInv, Env
    <2>2. UNCHANGED <<cfg, world, phase, n, snapshot, ttl, ids, task, pit_id>>
        BY <1>2 DEF Write, driver, pit, tasks
    <2> QED BY <2>1, <2>2 DEF WindowInv, Calm, Window, IdsWork, Slices
<1>3. CASE UNCHANGED vars
    BY <1>3 DEF vars, driver, pit, tasks, WindowInv, Calm, Window, IdsWork, Slices
<1> QED BY <1>1, <1>2, <1>3 DEF Outside

(* With gaps shorter than keep_alive and nothing else going wrong, a read   *)
(* never raises, however many slices, pages and evaluations it takes; where *)
(* old ids die, that holds for one slice and one evaluation.                *)
THEOREM SlidingWindowHolds == Spec => []SlidingWindowSuffices
<1>1. TypeInv /\ WindowInv /\ [Next]_vars => WindowInv'
    BY DriverWindow, TaskWindow, OutsideWindow DEF Next
<1>2. WindowInv => SlidingWindowSuffices
    BY DEF WindowInv, Calm, SlidingWindowSuffices
<1> QED BY <1>1, <1>2, InitTyped, InitWindow, TypeStep, PTL DEF Spec

-----------------------------------------------------------------------------
(* Type correctness. The tables of the tasks are there from the first       *)
(* evaluation on, and a task that runs has not used up its attempts.        *)

Bounded ==
    /\ n \in SliceCounts \cup {0} /\ missing \subseteq Shards
    /\ ttl \in 0..KeepAlive /\ ids \subseteq 0..world.refreshes
    /\ env \in [gap : 0..world.max_gap, evaluations : 0..MaxEvaluations, writes : 0..world.writes,
                faults : 0..MaxFaults, id : 0..world.refreshes]

Tables ==
    /\ task = <<>> => attempt = <<>> /\ pos = <<>> /\ pit_id = <<>> /\ rows = <<>>
    /\ task # <<>> => /\ task \in [Slices -> States] /\ attempt \in [Slices -> 0..MaxAttempts]
                      /\ pos \in [Slices -> Docs \cup {0}]
                      /\ pit_id \in [Slices -> 0..world.refreshes]
                      /\ rows \in [Slices -> [Docs -> Nat]]

Budget ==
    /\ phase \in {"start", "resolved"} => task = <<>>
    /\ phase = "running" => task # <<>> /\ \A s \in Slices : attempt[s] < MaxAttempts

LEMMA Limits ==
    ASSUME TypeInv
    PROVE  /\ world.max_gap \in Nat /\ world.refreshes \in Nat /\ world.writes \in Nat
           /\ MaxEvaluations \in Nat /\ MaxFaults \in Nat /\ MaxAttempts \in Nat \ {0}
           /\ KeepAlive \in Nat \ {0}
BY PitReadAssumption DEF TypeInv, World

LEMMA InitTypes == Init => Bounded /\ Tables /\ Budget
<1> SUFFICES ASSUME Init PROVE Bounded /\ Tables /\ Budget
    OBVIOUS
<1>1. TypeInv
    BY InitTyped
<1>2. Bounded
    BY <1>1, Limits DEF Init, Bounded, CapturedId
<1>3. Tables /\ Budget
    BY DEF Init, Tables, Budget
<1> QED BY <1>2, <1>3

LEMMA TouchBounded ==
    ASSUME TypeInv, Bounded, NEW s, NEW id \in 0..world.refreshes, Touch(s, id),
           n' = n, world' = world, missing' \subseteq Shards
    PROVE  Bounded'
<1>1. world.max_gap \in Nat /\ world.refreshes \in Nat /\ KeepAlive \in Nat
    BY Limits
<1>2. ttl' \in 0..KeepAlive /\ ids' \subseteq 0..world.refreshes
    BY <1>1 DEF Touch, Prolonged, Bounded
<1>3. env' \in [gap : 0..world.max_gap, evaluations : 0..MaxEvaluations, writes : 0..world.writes,
                faults : 0..MaxFaults, id : 0..world.refreshes]
    <2>1. env' = [env EXCEPT !.gap = 0] \/ env' = [env EXCEPT !.gap = 0, !.id = id]
        BY DEF Touch
    <2>2. CASE env' = [env EXCEPT !.gap = 0]
        BY <1>1, <2>2 DEF Bounded
    <2>3. CASE env' = [env EXCEPT !.gap = 0, !.id = id]
        <3>1. env' = [gap |-> 0, evaluations |-> env.evaluations, writes |-> env.writes,
                      faults |-> env.faults, id |-> id]
            BY <2>3 DEF Bounded
        <3> QED BY <1>1, <3>1 DEF Bounded
    <2> QED BY <2>1, <2>2, <2>3
<1> QED BY <1>2, <1>3 DEF Bounded

LEMMA FaultBounded ==
    ASSUME TypeInv, Bounded, Fault(env), env' = Faulted, UNCHANGED <<n, world, missing, pit>>
    PROVE  Bounded'
<1>1. MaxFaults \in Nat
    BY Limits
<1>2. env' \in [gap : 0..world.max_gap, evaluations : 0..MaxEvaluations, writes : 0..world.writes,
                faults : 0..MaxFaults, id : 0..world.refreshes]
    BY <1>1 DEF Fault, Faulted, Bounded
<1> QED BY <1>2 DEF Bounded, pit

(* A table that is there is none of no slices. *)
LEMMA TablesStay ==
    ASSUME n \in Nat \ {0}, NEW S, NEW f \in [Slices -> S] PROVE f # <<>>
<1>1. 0 \in DOMAIN f
    BY DEF Slices
<1>2. 0 \notin DOMAIN <<>>
    OBVIOUS
<1> QED BY <1>1, <1>2

LEMMA DriverTypes ==
    ASSUME TypeInv, TypeInv', Bounded, Tables, Budget, Driver
    PROVE  Bounded' /\ Tables' /\ Budget'
<1>0. /\ MaxEvaluations \in Nat /\ world.max_gap \in Nat /\ world.refreshes \in Nat
      /\ KeepAlive \in Nat \ {0} /\ MaxAttempts \in Nat \ {0}
    BY Limits
<1>1. CASE ValidationFails
    BY <1>1 DEF ValidationFails, Raise, Bounded, Tables, Budget, pit, tasks, Slices
<1>2. CASE ResolveSlices
    <2>1. /\ n' \in SliceCounts /\ phase = "start" /\ phase' = "resolved"
          /\ UNCHANGED <<world, pit, tasks, missing>>
        BY <1>2, Constants DEF ResolveSlices, Resolved, ShardCount, TypeInv
    <2>2. task' = <<>> /\ Tables'
        BY <2>1 DEF Budget, Tables, tasks
    <2>3. env' \in [gap : 0..world.max_gap, evaluations : 0..MaxEvaluations,
                    writes : 0..world.writes, faults : 0..MaxFaults, id : 0..world.refreshes]
        <3>1. CASE UNCHANGED env
            BY <3>1 DEF Bounded
        <3>2. CASE Fault(env) /\ env' = Faulted
            <4>1. MaxFaults \in Nat
                BY Limits
            <4> QED BY <3>2, <4>1 DEF Fault, Faulted, Bounded
        <3> QED BY <1>2, <3>1, <3>2 DEF ResolveSlices
    <2>4. Bounded'
        BY <2>1, <2>3 DEF Bounded, pit
    <2>5. Budget'
        BY <2>1, <2>2 DEF Budget
    <2> QED BY <2>2, <2>4, <2>5
<1>3. CASE PlanFails
    <2>1. Bounded'
        BY <1>3, FaultBounded DEF PlanFails, Raise
    <2> QED BY <1>3, <2>1 DEF PlanFails, Raise, Tables, Budget, tasks, Slices
<1>4. CASE OpenPit
    <2>1. env' \in [gap : 0..world.max_gap, evaluations : 0..MaxEvaluations,
                    writes : 0..world.writes, faults : 0..MaxFaults, id : 0..world.refreshes]
        BY <1>0, <1>4 DEF OpenPit, Bounded
    <2>2. Bounded'
        BY <1>0, <1>4, <2>1 DEF OpenPit, Bounded, CapturedId
    <2> QED BY <1>4, <2>2 DEF OpenPit, Tables, Budget, tasks, Slices
<1>5. CASE Evaluate
    <2>1. env' \in [gap : 0..world.max_gap, evaluations : 0..MaxEvaluations,
                    writes : 0..world.writes, faults : 0..MaxFaults, id : 0..world.refreshes]
        BY <1>0, <1>5 DEF Evaluate, Bounded
    <2>2. Bounded'
        BY <1>5, <2>1 DEF Evaluate, Bounded, pit
    <2>3. n \in Nat \ {0} /\ Slices' = Slices
        BY <1>5, Constants DEF Evaluate, TypeInv, Planned, Slices
    <2>4. /\ task' \in [Slices -> States] /\ attempt' \in [Slices -> 0..MaxAttempts]
          /\ pos' \in [Slices -> Docs \cup {0}] /\ pit_id' \in [Slices -> 0..world.refreshes]
          /\ rows' \in [Slices -> [Docs -> Nat]] /\ \A s \in Slices : attempt'[s] < MaxAttempts
        BY <1>0, <1>5 DEF Evaluate, States, CapturedId, NoRows
    <2>5. task' # <<>>
        BY <2>3, <2>4, TablesStay
    <2>6. world' = world /\ phase' = "running"
        BY <1>5 DEF Evaluate
    <2> QED BY <2>2, <2>3, <2>4, <2>5, <2>6 DEF Tables, Budget
<1>6. CASE Return
    BY <1>6 DEF Return, Bounded, Tables, Budget, pit, tasks, Slices
<1> QED BY <1>1, <1>2, <1>3, <1>4, <1>5, <1>6 DEF Driver

LEMMA TaskTypes ==
    ASSUME TypeInv, Bounded, Tables, Budget, NEW s \in Slices, Task(s)
    PROVE  Bounded' /\ Tables' /\ Budget'
<1>0. /\ phase = "running" /\ task # <<>> /\ task \in [Slices -> States]
      /\ attempt \in [Slices -> 0..MaxAttempts] /\ pos \in [Slices -> Docs \cup {0}]
      /\ pit_id \in [Slices -> 0..world.refreshes] /\ rows \in [Slices -> [Docs -> Nat]]
      /\ \A t \in Slices : attempt[t] < MaxAttempts
      /\ n \in Nat \ {0} /\ MaxAttempts \in Nat \ {0} /\ world.refreshes \in Nat
    <2>1. phase = "running"
        BY DEF Task, StartTask, NextPage, EndSlice, AttemptFails, Reading
    <2> QED BY <2>1, Limits, Constants DEF Tables, Budget, TypeInv, Planned
<1>1. UNCHANGED <<cfg, world, n>>
    BY DEF Task, StartTask, NextPage, EndSlice, AttemptFails, driver, Raise
<1>2. Slices' = Slices
    BY <1>1 DEF Slices
(* What the tables must be after the step *)
<1>3. ASSUME task' \in [Slices -> States], attempt' \in [Slices -> 0..MaxAttempts],
             pos' \in [Slices -> Docs \cup {0}], pit_id' \in [Slices -> 0..world.refreshes],
             rows' \in [Slices -> [Docs -> Nat]],
             phase' = "raised" \/ (phase' = "running" /\ \A t \in Slices : attempt'[t] < MaxAttempts)
      PROVE  Tables' /\ Budget'
    <2>1. task' # <<>>
        BY <1>0, <1>3, TablesStay
    <2> QED BY <1>1, <1>2, <1>3, <2>1 DEF Tables, Budget
<1>4. CASE StartTask(s)
    <2>1. Bounded'
        BY <1>1, <1>4 DEF StartTask, Bounded, pit
    <2>2. task' \in [Slices -> States] /\ pos' \in [Slices -> Docs \cup {0}]
          /\ pit_id' \in [Slices -> 0..world.refreshes] /\ rows' \in [Slices -> [Docs -> Nat]]
        BY <1>0, <1>4 DEF StartTask, States, CapturedId, NoRows
    <2>3. attempt' = attempt /\ phase' = "running"
        BY <1>0, <1>4 DEF StartTask, driver
    <2> QED BY <1>0, <1>3, <2>1, <2>2, <2>3
<1>5. CASE NextPage(s)
    <2>1. PICK F \in Failures, id \in 0..world.refreshes :
              \E hits \in SUBSET {d \in Remaining(s) : ShardOf[d] \notin F} :
                 /\ Touch(s, id)
                 /\ rows' = [rows EXCEPT ![s] =
                                [d \in Docs |-> IF d \in hits THEN @[d] + 1 ELSE @[d]]]
                 /\ \E last \in hits : pos' = [pos EXCEPT ![s] = last]
                 /\ pit_id' = [pit_id EXCEPT ![s] = id]
                 /\ missing' = missing \cup F
        BY <1>5 DEF NextPage
    <2>2. PICK hits \in SUBSET {d \in Remaining(s) : ShardOf[d] \notin F} :
                 /\ rows' = [rows EXCEPT ![s] =
                                [d \in Docs |-> IF d \in hits THEN @[d] + 1 ELSE @[d]]]
                 /\ \E last \in hits : pos' = [pos EXCEPT ![s] = last]
        BY <2>1
    <2>3. hits \subseteq Docs
        BY DEF Remaining, InSlice, TypeInv
    <2>4. /\ pos' \in [Slices -> Docs \cup {0}] /\ pit_id' \in [Slices -> 0..world.refreshes]
          /\ rows' \in [Slices -> [Docs -> Nat]]
        BY <1>0, <2>1, <2>2, <2>3
    <2>5. missing' \subseteq Shards
        BY <2>1 DEF Failures, Bounded
    <2>6. Bounded'
        BY <1>1, <2>1, <2>5, TouchBounded
    <2>7. task' = task /\ attempt' = attempt /\ phase' = "running"
        BY <1>0, <1>5 DEF NextPage, driver
    <2> QED BY <1>0, <1>3, <2>4, <2>6, <2>7
<1>6. CASE EndSlice(s)
    <2>1. PICK F \in Failures, id \in 0..world.refreshes : Touch(s, id) /\ missing' = missing \cup F
        BY <1>6 DEF EndSlice
    <2>2. missing' \subseteq Shards
        BY <2>1 DEF Failures, Bounded
    <2>3. Bounded'
        BY <1>1, <2>1, <2>2, TouchBounded
    <2>4. /\ task' \in [Slices -> States] /\ UNCHANGED <<attempt, pos, pit_id, rows>>
          /\ phase' = "running"
        BY <1>0, <1>6 DEF EndSlice, driver, States
    <2> QED BY <1>0, <1>3, <2>3, <2>4
<1>7. CASE AttemptFails(s)
    <2>1. missing' = missing /\ missing \subseteq Shards
        BY <1>7 DEF AttemptFails, Bounded
    <2>2. ASSUME UNCHANGED <<pit, env>> PROVE Bounded'
        BY <1>1, <2>1, <2>2 DEF Bounded, pit
    <2>3. ASSUME Fault(env), env' = Faulted, UNCHANGED pit PROVE Bounded'
        BY <1>1, <2>1, <2>3, FaultBounded
    <2>4. ASSUME NEW id \in 0..world.refreshes, Touch(s, id) PROVE Bounded'
        BY <1>1, <2>1, <2>4, TouchBounded
    <2>5. Bounded'
        BY <1>7, <2>2, <2>3, <2>4 DEF AttemptFails
    <2>6. /\ attempt' = [attempt EXCEPT ![s] = @ + 1]
          /\ task' = [task EXCEPT ![s] = "waiting"] /\ UNCHANGED <<pos, pit_id, rows>>
          /\ phase' = "raised" \/ (phase' = phase /\ attempt[s] + 1 < MaxAttempts)
        BY <1>7 DEF AttemptFails, Raise, driver
    <2>7. attempt[s] \in Nat /\ attempt[s] + 1 <= MaxAttempts
        BY <1>0
    <2>8. /\ task' \in [Slices -> States] /\ attempt' \in [Slices -> 0..MaxAttempts]
          /\ attempt[s] + 1 < MaxAttempts => \A t \in Slices : attempt'[t] < MaxAttempts
        BY <1>0, <2>6, <2>7 DEF States
    <2> QED BY <1>0, <1>3, <2>5, <2>6, <2>8
<1> QED BY <1>4, <1>5, <1>6, <1>7 DEF Task

LEMMA OutsideTypes ==
    ASSUME TypeInv, Bounded, Tables, Budget, Outside \/ UNCHANGED vars
    PROVE  Bounded' /\ Tables' /\ Budget'
<1>1. CASE Tick
    <2>1. world.max_gap \in Nat /\ KeepAlive \in Nat
        BY Limits
    <2>2. env' \in [gap : 0..world.max_gap, evaluations : 0..MaxEvaluations,
                    writes : 0..world.writes, faults : 0..MaxFaults, id : 0..world.refreshes]
        BY <1>1, <2>1 DEF Tick, Bounded
    <2>3. ttl' \in 0..KeepAlive
        BY <1>1, <2>1 DEF Tick, Bounded
    <2>4. UNCHANGED <<cfg, world, phase, n, ids, tasks, missing>>
        BY <1>1 DEF Tick, driver
    <2> QED BY <2>2, <2>3, <2>4 DEF Bounded, Tables, Budget, tasks, Slices
<1>2. ASSUME NEW d \in Docs, Write(d) PROVE Bounded' /\ Tables' /\ Budget'
    <2>1. world.writes \in Nat
        BY Limits
    <2>2. env' \in [gap : 0..world.max_gap, evaluations : 0..MaxEvaluations,
                    writes : 0..world.writes, faults : 0..MaxFaults, id : 0..world.refreshes]
        BY <1>2, <2>1 DEF Write, Bounded
    <2> QED BY <1>2, <2>2 DEF Write, Bounded, Tables, Budget, driver, pit, tasks, Slices
<1>3. CASE UNCHANGED vars
    BY <1>3 DEF vars, Bounded, Tables, Budget, driver, pit, tasks, Slices
<1> QED BY <1>1, <1>2, <1>3 DEF Outside

LEMMA TypesStep ==
    TypeInv /\ TypeInv' /\ Bounded /\ Tables /\ Budget /\ [Next]_vars
        => Bounded' /\ Tables' /\ Budget'
BY DriverTypes, TaskTypes, OutsideTypes DEF Next

(* Type correctness, and with it that no task is attempted once too often   *)
(* and that no bound of the model is exceeded.                              *)
THEOREM TypeCorrect == Spec => []TypeOK
<1>1. TypeInv /\ Bounded /\ Tables => TypeOK
    BY DEF TypeInv, Bounded, Tables, TypeOK, PerSlice, States
<1> QED BY <1>1, InitTyped, InitTypes, TypeStep, TypesStep, PTL DEF Spec

-----------------------------------------------------------------------------
(* Paging ends. What a task may still have to do is bounded, and each of   *)
(* its steps takes something off it, whatever fails and is tried again.    *)

(* An attempt starts, reads a page per document at most, and ends           *)
AttemptSteps == Cardinality(Docs) + 2

(* Steps left to a task after a failed attempts, in state t and with r      *)
(* documents before it                                                      *)
StepsLeft(a, t, r) ==
    (MaxAttempts - 1 - a) * AttemptSteps
        + CASE t = "waiting" -> AttemptSteps [] t = "reading" -> r + 1 [] t = "done" -> 0

TaskWork(s) == StepsLeft(attempt[s], task[s], Cardinality(Remaining(s)))

(* A task has MaxAttempts attempts of AttemptSteps each.                    *)
WorkBound == phase = "running" => \A s \in Slices : TaskWork(s) \in 0..(MaxAttempts * AttemptSteps)

(* While an evaluation runs, each step of a task leaves less of its work   *)
(* and all of the others'; what goes on outside changes none.              *)
WorkShrinks ==
    [][phase = "running" =>
          \/ Return
          \/ Outside /\ \A s \in Slices : TaskWork(s)' = TaskWork(s)
          \/ \E s \in Slices : /\ TaskWork(s)' < TaskWork(s)
                               /\ \A r \in Slices \ {s} : TaskWork(r)' = TaskWork(r)]_vars

LEMMA Steps ==
    /\ AttemptSteps \in Nat \ {0}
    /\ \A T \in SUBSET Docs : /\ IsFiniteSet(T) /\ Cardinality(T) \in Nat
                              /\ Cardinality(T) + 2 <= AttemptSteps
<1>1. Cardinality(Docs) \in Nat
    BY PitReadAssumption, FS_CardinalityType
<1>2. ASSUME NEW T \in SUBSET Docs
      PROVE  IsFiniteSet(T) /\ Cardinality(T) \in Nat /\ Cardinality(T) <= Cardinality(Docs)
    BY PitReadAssumption, FS_Subset, FS_CardinalityType
<1> QED BY <1>1, <1>2 DEF AttemptSteps

LEMMA Product ==
    ASSUME NEW a \in Int, NEW k \in Nat
    PROVE  /\ a * k \in Int /\ (a - 1) * k = a * k - k
           /\ a \in Nat => a * k \in Nat
OBVIOUS

LEMMA Spent ==
    ASSUME NEW a \in Nat, NEW r \in Nat
    PROVE  /\ r + 1 < AttemptSteps => StepsLeft(a, "reading", r) < StepsLeft(a, "waiting", r)
           /\ \A q \in Nat : /\ q < r => StepsLeft(a, "reading", q) < StepsLeft(a, "reading", r)
                             /\ StepsLeft(a, "done", q) < StepsLeft(a, "reading", r)
                             /\ StepsLeft(a + 1, "waiting", q) < StepsLeft(a, "reading", r)
           /\ \A q, p \in Nat : StepsLeft(a, "waiting", q) = StepsLeft(a, "waiting", p)
<1>1. AttemptSteps \in Nat /\ MaxAttempts - 1 - a \in Int
    BY Steps, PitReadAssumption
<1> DEFINE K == AttemptSteps
           P == (MaxAttempts - 1 - a) * K
<1>2. P \in Int /\ (MaxAttempts - 1 - (a + 1)) * K = P - K
    <2>1. MaxAttempts - 1 - (a + 1) = (MaxAttempts - 1 - a) - 1
        BY PitReadAssumption
    <2> QED BY <1>1, <2>1, Product
<1>3. \A q \in Nat : /\ StepsLeft(a, "waiting", q) = P + K
                     /\ StepsLeft(a, "reading", q) = P + (q + 1)
                     /\ StepsLeft(a, "done", q) = P + 0
                     /\ StepsLeft(a + 1, "waiting", q) = (P - K) + K
    BY <1>2 DEF StepsLeft
<1> HIDE DEF P
<1> QED BY <1>1, <1>2, <1>3

(* A task in the middle of an evaluation *)
LEMMA TaskState ==
    ASSUME TypeInv, Tables, Budget, phase = "running"
    PROVE  /\ n \in Nat /\ task \in [Slices -> States] /\ attempt \in [Slices -> Nat]
           /\ pos \in [Slices -> Docs \cup {0}]
           /\ \A s \in Slices : /\ attempt[s] < MaxAttempts
                                /\ Remaining(s) \subseteq Docs /\ InSlice(s) \subseteq Docs
                                /\ Cardinality(Remaining(s)) \in Nat
                                /\ Cardinality(Remaining(s)) + 2 <= AttemptSteps
<1>1. /\ task \in [Slices -> States] /\ attempt \in [Slices -> 0..MaxAttempts]
      /\ pos \in [Slices -> Docs \cup {0}] /\ \A s \in Slices : attempt[s] < MaxAttempts
    BY DEF Tables, Budget
<1>2. \A s \in Slices : Remaining(s) \subseteq Docs /\ InSlice(s) \subseteq Docs
    BY DEF Remaining, InSlice, TypeInv
<1>3. \A s \in Slices : Cardinality(Remaining(s)) \in Nat /\ Cardinality(Remaining(s)) + 2 <= AttemptSteps
    BY <1>2, Steps
<1>4. attempt \in [Slices -> Nat] /\ n \in Nat
    BY <1>1, PitReadAssumption DEF TypeInv
<1> QED BY <1>1, <1>2, <1>3, <1>4

LEMMA WorkTyped == TypeInv /\ Tables /\ Budget => WorkBound
<1> SUFFICES ASSUME TypeInv, Tables, Budget, phase = "running", NEW s \in Slices
             PROVE  TaskWork(s) \in 0..(MaxAttempts * AttemptSteps)
    BY DEF WorkBound
<1> DEFINE a == attempt[s]
           r == Cardinality(Remaining(s))
           K == AttemptSteps
           T == MaxAttempts * K
           Rest == (MaxAttempts - 1 - a) * K
           Now == CASE task[s] = "waiting" -> K [] task[s] = "reading" -> r + 1 [] task[s] = "done" -> 0
<1>1. /\ a \in Nat /\ a < MaxAttempts /\ MaxAttempts \in Nat
      /\ r \in Nat /\ r + 2 <= K /\ K \in Nat /\ task[s] \in States
    BY TaskState, Steps, PitReadAssumption
<1>2. Now \in 0..K
    BY <1>1 DEF States
<1>3. MaxAttempts - 1 - a \in Nat /\ a \in Nat /\ MaxAttempts - 1 \in Nat
    BY <1>1
<1>4. Rest \in Nat /\ a * K \in Nat /\ (MaxAttempts - 1) * K = T - K /\ T \in Int
    BY <1>1, <1>3, Product
<1>5. Rest + a * K = (MaxAttempts - 1) * K
    <2>1. \A x, y, k \in Nat : x * k + y * k = (x + y) * k
        OBVIOUS
    <2>2. (MaxAttempts - 1 - a) + a = MaxAttempts - 1
        BY <1>1
    <2> QED BY <1>1, <1>3, <2>1, <2>2
<1>6. TaskWork(s) = Rest + Now
    BY DEF TaskWork, StepsLeft
<1> HIDE DEF Rest, Now, T, K
<1>7. Rest + Now \in 0..T
    <2> DEFINE A == a * K
    <2>1. A \in Nat /\ Rest \in Nat /\ T \in Int /\ Rest + A = T - K
        BY <1>4, <1>5
    <2> HIDE DEF A
    <2> QED BY <1>1, <1>2, <2>1
<1> QED BY <1>6, <1>7 DEF T, K

LEMMA StepShrinks ==
    ASSUME TypeInv, Tables, Budget, phase = "running", NEW s \in Slices, Task(s)
    PROVE  /\ TaskWork(s)' < TaskWork(s)
           /\ \A t \in Slices \ {s} : TaskWork(t)' = TaskWork(t)
<1>0. /\ n \in Nat /\ task \in [Slices -> States] /\ attempt \in [Slices -> Nat]
      /\ pos \in [Slices -> Docs \cup {0}]
      /\ Remaining(s) \subseteq Docs /\ InSlice(s) \subseteq Docs
      /\ Cardinality(Remaining(s)) \in Nat /\ Cardinality(Remaining(s)) + 2 <= AttemptSteps
    BY TaskState
<1>1. UNCHANGED <<n, snapshot>>
    BY DEF Task, StartTask, NextPage, EndSlice, AttemptFails, driver, Raise, Touch, pit
<1>2. \A t \in Slices : Remaining(t)' = {d \in InSlice(t) : d > pos'[t]}
    BY <1>1 DEF Remaining, InSlice
<1>3. ASSUME \A t \in Slices \ {s} : task'[t] = task[t] /\ attempt'[t] = attempt[t] /\ pos'[t] = pos[t]
      PROVE  \A t \in Slices \ {s} : TaskWork(t)' = TaskWork(t)
    <2>1. \A t \in Slices \ {s} : Remaining(t)' = Remaining(t)
        BY <1>2, <1>3 DEF Remaining
    <2> QED BY <1>3, <2>1 DEF TaskWork, StepsLeft
<1>4. ASSUME NEW a \in Nat, NEW t, NEW Q, attempt'[s] = a, task'[s] = t, Remaining(s)' = Q
      PROVE  TaskWork(s)' = StepsLeft(a, t, Cardinality(Q))
    BY <1>4 DEF TaskWork, StepsLeft
<1>5. Remaining(s)' \subseteq Docs /\ Cardinality(Remaining(s)') \in Nat
      /\ Cardinality(Remaining(s)') + 2 <= AttemptSteps
    <2> DEFINE Q == Remaining(s)'
    <2>1. Q \subseteq Docs
        BY <1>0, <1>2
    <2> HIDE DEF Q
    <2>2. Cardinality(Q) \in Nat /\ Cardinality(Q) + 2 <= AttemptSteps
        BY <2>1, Steps
    <2> QED BY <2>1, <2>2 DEF Q
<1> DEFINE R == Remaining(s)
           Q == Remaining(s)'
           a == attempt[s]
<1>6. /\ a \in Nat /\ a + 1 \in Nat /\ Cardinality(R) \in Nat /\ Cardinality(R) + 2 <= AttemptSteps
      /\ Cardinality(Q) \in Nat /\ Cardinality(Q) + 2 <= AttemptSteps /\ AttemptSteps \in Nat
    BY <1>0, <1>5, Steps
<1>7. CASE StartTask(s)
    <2>1. /\ task[s] = "waiting" /\ task'[s] = "reading" /\ attempt'[s] = a
          /\ \A t \in Slices \ {s} : task'[t] = task[t] /\ attempt'[t] = attempt[t] /\ pos'[t] = pos[t]
        BY <1>0, <1>7 DEF StartTask
    <2>2. TaskWork(s)' = StepsLeft(a, "reading", Cardinality(Q))
        BY <1>4, <1>6, <2>1
    <2>3. TaskWork(s) = StepsLeft(a, "waiting", Cardinality(R))
        BY <2>1 DEF TaskWork
    <2> HIDE DEF R, Q, a
    <2>4. StepsLeft(a, "reading", Cardinality(Q)) < StepsLeft(a, "waiting", Cardinality(R))
        <3>1. StepsLeft(a, "reading", Cardinality(Q)) < StepsLeft(a, "waiting", Cardinality(Q))
            BY <1>6, Spent
        <3>2. StepsLeft(a, "waiting", Cardinality(Q)) = StepsLeft(a, "waiting", Cardinality(R))
            BY <1>6, Spent
        <3> QED BY <3>1, <3>2
    <2> QED BY <1>3, <2>1, <2>2, <2>3, <2>4
<1>8. CASE NextPage(s)
    <2>1. PICK F \in Failures : \E hits \in SUBSET {d \in Remaining(s) : ShardOf[d] \notin F} :
                 \E last \in hits : pos' = [pos EXCEPT ![s] = last]
        BY <1>8 DEF NextPage
    <2>2. PICK last \in Remaining(s) : pos' = [pos EXCEPT ![s] = last]
        BY <2>1
    <2>3. /\ task[s] = "reading" /\ task' = task /\ attempt' = attempt
          /\ pos'[s] = last /\ \A t \in Slices \ {s} : pos'[t] = pos[t]
        BY <1>0, <1>8, <2>2 DEF NextPage, Reading, Working
    <2>4. Q \subseteq R /\ last \in R \ Q
        <3>1. last \in Nat /\ pos[s] \in Nat /\ last > pos[s] /\ InSlice(s) \subseteq Nat
            BY <1>0, <2>2, Ranks DEF Remaining
        <3> QED BY <1>2, <2>2, <2>3, <3>1 DEF Remaining
    <2>5. IsFiniteSet(R) /\ IsFiniteSet(Q)
        BY <1>0, <1>5, Steps
    <2>6. TaskWork(s)' = StepsLeft(a, "reading", Cardinality(Q))
        BY <1>4, <1>6, <2>3
    <2>7. TaskWork(s) = StepsLeft(a, "reading", Cardinality(R))
        BY <2>3 DEF TaskWork
    <2> HIDE DEF R, Q, a
    <2>8. Cardinality(Q) < Cardinality(R)
        <3>1. Q \in SUBSET R /\ Q # R
            BY <2>4
        <3>2. Cardinality(Q) <= Cardinality(R) /\ Cardinality(Q) # Cardinality(R)
            BY <2>5, <3>1, FS_Subset
        <3> QED BY <1>6, <3>2
    <2>9. StepsLeft(a, "reading", Cardinality(Q)) < StepsLeft(a, "reading", Cardinality(R))
        BY <1>6, <2>8, Spent
    <2> QED BY <1>3, <2>3, <2>6, <2>7, <2>9
<1>9. CASE EndSlice(s)
    <2>1. /\ task[s] = "reading" /\ task'[s] = "done" /\ attempt' = attempt /\ pos' = pos
          /\ \A t \in Slices \ {s} : task'[t] = task[t]
        BY <1>0, <1>9 DEF EndSlice, Reading, Working
    <2>2. TaskWork(s)' = StepsLeft(a, "done", Cardinality(Q))
        BY <1>4, <1>6, <2>1
    <2>3. TaskWork(s) = StepsLeft(a, "reading", Cardinality(R))
        BY <2>1 DEF TaskWork
    <2> HIDE DEF R, Q, a
    <2>4. StepsLeft(a, "done", Cardinality(Q)) < StepsLeft(a, "reading", Cardinality(R))
        BY <1>6, Spent
    <2> QED BY <1>3, <2>1, <2>2, <2>3, <2>4
<1>10. CASE AttemptFails(s)
    <2>1. /\ task[s] = "reading" /\ task'[s] = "waiting" /\ attempt'[s] = a + 1 /\ pos' = pos
          /\ \A t \in Slices \ {s} : task'[t] = task[t] /\ attempt'[t] = attempt[t]
        BY <1>0, <1>10 DEF AttemptFails, Reading, Working
    <2>2. TaskWork(s)' = StepsLeft(a + 1, "waiting", Cardinality(Q))
        BY <1>4, <1>6, <2>1
    <2>3. TaskWork(s) = StepsLeft(a, "reading", Cardinality(R))
        BY <2>1 DEF TaskWork
    <2> HIDE DEF R, Q, a
    <2>4. StepsLeft(a + 1, "waiting", Cardinality(Q)) < StepsLeft(a, "reading", Cardinality(R))
        BY <1>6, Spent
    <2> QED BY <1>3, <2>1, <2>2, <2>3, <2>4
<1> QED BY <1>7, <1>8, <1>9, <1>10 DEF Task

(* Steps of a task are steps of the evaluation that runs, and the driver's *)
(* only step then is its end.                                              *)
LEMMA RunningSteps ==
    ASSUME TypeInv, Tables, Budget, phase = "running", Next
    PROVE  \/ Return
           \/ Outside /\ \A s \in Slices : TaskWork(s)' = TaskWork(s)
           \/ \E s \in Slices : /\ TaskWork(s)' < TaskWork(s)
                                /\ \A r \in Slices \ {s} : TaskWork(r)' = TaskWork(r)
<1>1. Driver => Return
    BY DEF Driver, ValidationFails, ResolveSlices, PlanFails, OpenPit, Evaluate
<1>2. ASSUME Outside PROVE \A s \in Slices : TaskWork(s)' = TaskWork(s)
    <2>1. UNCHANGED <<n, snapshot, task, attempt, pos>>
        BY <1>2 DEF Outside, Tick, Write, driver, pit, tasks
    <2>2. \A s \in Slices : Remaining(s)' = Remaining(s)
        BY <2>1 DEF Remaining, InSlice
    <2> QED BY <2>1, <2>2 DEF TaskWork, StepsLeft
<1> QED BY <1>1, <1>2, StepShrinks DEF Next

(* An evaluation ends unless it stops: a task has at most MaxAttempts times *)
(* Cardinality(Docs) + 2 steps to do, and every step of it is one of them;  *)
(* no page is asked for twice by an attempt and none is empty but the last. *)
THEOREM PagingBounded == Spec => []WorkBound /\ WorkShrinks
<1>1. TypeInv /\ Tables /\ Budget /\ [Next]_vars =>
        [phase = "running" =>
          \/ Return
          \/ Outside /\ \A s \in Slices : TaskWork(s)' = TaskWork(s)
          \/ \E s \in Slices : /\ TaskWork(s)' < TaskWork(s)
                               /\ \A r \in Slices \ {s} : TaskWork(r)' = TaskWork(r)]_vars
    BY RunningSteps
<1> QED BY <1>1, WorkTyped, InitTyped, InitTypes, TypeStep, TypesStep, PTL DEF Spec, WorkShrinks

-----------------------------------------------------------------------------
(* No task waits for anything but a free slot.                              *)

(* Some guard of s holds: it may start; its search raises, for the PIT or   *)
(* the id is gone; it finds nothing; or it finds a page, which is coerced   *)
(* or not                                                                   *)
TaskMoves(s) ==
    \/ task[s] = "waiting" /\ Cardinality(Working) < Slots
    \/ s \in Working /\ (ttl = 0 \/ pit_id[s] \notin ids)
    \/ s \in Working /\ Remaining(s) = {}
    \/ /\ s \in Working
       /\ \E hits \in SUBSET Remaining(s) :
              /\ IsPage(hits, Remaining(s)) /\ hits # {}
              /\ \E last \in hits : SearchAfter(last, hits)

(* An evaluation that runs is over, or one of its tasks can go on.          *)
ReaderMoves ==
    phase = "running" => (\A s \in Slices : task[s] = "done") \/ \E s \in Slices : TaskMoves(s)

LEMMA LeastOf == ASSUME NEW T \in SUBSET Nat, T # {} PROVE \E m \in T : \A e \in T : m <= e
<1>1. PICK m \in T : \A e \in T : <<e, m>> \notin OpToRel(<, Nat)
    BY NatLessThanWellFounded, WFMin
<1>2. \A e \in T : ~ (e < m)
    BY <1>1 DEF OpToRel
<1> QED BY <1>2

LEMMA LastOf ==
    ASSUME NEW T \in SUBSET Nat, IsFiniteSet(T), T # {} PROVE \E m \in T : \A e \in T : e <= m
<1> DEFINE G == {U \in SUBSET T : U # {} => \E m \in U : \A e \in U : e <= m}
<1>1. {} \in G
    OBVIOUS
<1>2. ASSUME NEW U \in SUBSET T, NEW x \in T \ U, U \in G PROVE U \cup {x} \in G
    <2>1. CASE U = {}
        BY <2>1
    <2>2. CASE U # {}
        <3>1. PICK m \in U : \A e \in U : e <= m
            BY <1>2, <2>2
        <3>2. x \in Nat /\ m \in Nat /\ \A e \in U : e \in Nat
            OBVIOUS
        <3>3. CASE x <= m
            BY <3>1, <3>3
        <3>4. CASE ~ (x <= m)
            <4>1. \A e \in U : e <= x
                BY <3>1, <3>2, <3>4
            <4> QED BY <3>2, <4>1
        <3> QED BY <3>3, <3>4
    <2> QED BY <2>1, <2>2
<1> HIDE DEF G
<1>3. T \in G
    BY <1>1, <1>2, SetInduction
<1> QED BY <1>3 DEF G

(* A search that asks for anything finds a page.                            *)
LEMMA PageExists ==
    ASSUME NEW T \in SUBSET Docs, T # {}
    PROVE  \E hits \in SUBSET T :
              IsPage(hits, T) /\ hits # {} /\ \E last \in hits : SearchAfter(last, hits)
<1>1. /\ IsFiniteSet(T) /\ Cardinality(T) \in Nat /\ Cardinality(T) # 0 /\ T \subseteq Nat
      /\ BatchSize \in Nat \ {0}
    BY Steps, Ranks, FS_EmptySet, PitReadAssumption
<1> DEFINE First(hits) == \A d \in hits, e \in T : e < d => e \in hits
           G == {k \in Nat : k <= Cardinality(T) =>
                                \E hits \in SUBSET T : First(hits) /\ Cardinality(hits) = k}
<1>2. 0 \in G
    <2>1. {} \in SUBSET T /\ First({}) /\ Cardinality({}) = 0
        BY FS_EmptySet
    <2> QED BY <2>1
<1>3. ASSUME NEW k \in Nat, k \in G PROVE k + 1 \in G
    <2>1. CASE k + 1 <= Cardinality(T)
        <3>1. PICK hits \in SUBSET T : First(hits) /\ Cardinality(hits) = k
            BY <1>1, <1>3, <2>1
        <3>2. T \ hits # {}
            <4>1. hits # T
                BY <1>1, <1>3, <2>1, <3>1
            <4> QED BY <3>1, <4>1
        <3>3. PICK m \in T \ hits : \A e \in T \ hits : m <= e
            BY <1>1, <3>2, LeastOf
        <3>4. First(hits \cup {m})
            BY <1>1, <3>1, <3>3
        <3>5. Cardinality(hits \cup {m}) = k + 1
            BY <1>1, <3>1, <3>3, FS_AddElement, FS_Subset
        <3> QED BY <3>4, <3>5
    <2>2. CASE ~ (k + 1 <= Cardinality(T))
        BY <2>2
    <2> QED BY <2>1, <2>2
<1> DEFINE size == IF Cardinality(T) < BatchSize THEN Cardinality(T) ELSE BatchSize
<1>4. size \in Nat /\ size <= Cardinality(T) /\ size # 0
    BY <1>1
<1>5. size \in G
    <2> HIDE DEF G, size
    <2> QED BY <1>2, <1>3, <1>4, NatSetInduction
<1>6. PICK hits \in SUBSET T : First(hits) /\ Cardinality(hits) = size
    <2> HIDE DEF First, size
    <2> QED BY <1>4, <1>5
<1>7. IsPage(hits, T) /\ hits # {}
    BY <1>4, <1>6, FS_EmptySet DEF IsPage
<1>8. \E last \in hits : SearchAfter(last, hits)
    <2>1. IsFiniteSet(hits) /\ hits \in SUBSET Nat
        BY <1>1, FS_Subset
    <2> QED BY <1>7, <2>1, LastOf DEF SearchAfter
<1> QED BY <1>7, <1>8

LEMMA SomeTaskMoves == TypeInv /\ Tables /\ Budget => ReaderMoves
<1> SUFFICES ASSUME TypeInv, Tables, Budget, phase = "running",
                    NEW s \in Slices, task[s] # "done"
             PROVE  \E t \in Slices : TaskMoves(t)
    BY DEF ReaderMoves
<1>1. CASE Working = {}
    <2>1. task[s] = "waiting"
        BY <1>1, TaskState DEF Working, States
    <2>2. Cardinality(Working) < Slots
        BY <1>1, FS_EmptySet, PitReadAssumption
    <2> QED BY <2>1, <2>2 DEF TaskMoves
<1>2. ASSUME NEW t \in Working PROVE TaskMoves(t)
    <2>1. Remaining(t) \in SUBSET Docs
        BY TaskState DEF Working
    <2> QED BY <2>1, PageExists DEF TaskMoves
<1> QED BY <1>1, <1>2 DEF Working

(* As long as an evaluation is not over, some task has a guard that holds:  *)
(* for every index, page size and number of slots no task waits for another *)
(* that waits for it, and a search that asks for anything has an answer.    *)
THEOREM ReaderMovesHolds == Spec => []ReaderMoves
BY SomeTaskMoves, InitTyped, InitTypes, TypeStep, TypesStep, PTL DEF Spec

=============================================================================
