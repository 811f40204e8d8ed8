--------------------------- MODULE WriteOrderProofs ---------------------------
(***************************************************************************)
(* Proof that rows of one id are applied in row order, for any number of   *)
(* rows, ids, chunk sizes and budgets: RowOrderKept. The two cases of the  *)
(* property have an invariant each. With unique ids, an id only ever holds *)
(* its own row. Shipped one chunk at a time, the rows that are still to be *)
(* executed come after the acknowledged rows of their id, unless they are  *)
(* stragglers: sent again by themselves after a later row of their id, or  *)
(* part of a request that may be executed late.                            *)
(***************************************************************************)
EXTENDS WriteOrder, FiniteSetTheorems, TLAPS

Work == [lines : SUBSET Rows, phase : {"probe", "full"}, attempt : Nat]

TypeInv ==
    /\ cfg \in Configs
    /\ id \in [Rows -> Ids]
    /\ doc \in [Ids -> 0..NumRows]
    /\ fed \in Nat
    /\ IsFiniteSet(work)
    /\ work \subseteq Work
    /\ acked \subseteq Rows
    /\ \A L \in late : L \subseteq Rows
    /\ env \in [losses : Nat, late : Nat, runs : Nat]

(* What an id holds is a row of that id.                                    *)
OwnRow == \A i \in Ids : doc[i] # 0 => id[doc[i]] = i

(* An id with an acknowledged row holds some row.                           *)
Held == \A r \in acked : doc[id[r]] # 0

Serial == cfg.write_concurrency = 1

AtMostOne == \A v, w \in work : v = w

ChunkOf(r) == (r - 1) \div cfg.chunk_size

(* Only rows of chunks that were handed over have gone anywhere.            *)
FedOnly == \A r \in acked \cup UNION {w.lines : w \in work} : ChunkOf(r) < fed

(* Row p would undo none of the rows in A.                                  *)
After(p, A) == \A r \in A : id[r] = id[p] => r < p \/ p \in stragglers

(* Rows that may be executed yet come after the acknowledged rows of their  *)
(* id, stragglers apart.                                                    *)
Ahead == \A w \in work : \A p \in w.lines : After(p, acked)

LateKnown == UNION late \subseteq stragglers

SerialOrder == \A r \in acked : doc[id[r]] >= r \/ doc[id[r]] \in stragglers

SerialInv == Serial => AtMostOne /\ FedOnly /\ Ahead /\ SerialOrder

IInv == TypeInv /\ OwnRow /\ Held /\ LateKnown /\ SerialInv

-----------------------------------------------------------------------------
(* The chunk of a row grows with the row.                                   *)
LEMMA ChunksGrow ==
    ASSUME NEW c \in Nat, c > 0, NEW r \in Nat, NEW q \in Nat, r > 0, q > 0,
           (r - 1) \div c < (q - 1) \div c
    PROVE  r < q
<1> DEFINE a == (r - 1) \div c
           b == (q - 1) \div c
<1>1. a \in Int /\ b \in Int /\ r - 1 < c * (a + 1) /\ c * b <= q - 1
    BY SMT
<1>2. c * (a + 1) <= c * b
    BY <1>1, a + 1 <= b, SMT
<1> QED BY <1>1, <1>2, SMT

(* Executing lines leaves an id as it was, or with the last of its rows     *)
(* among them.                                                              *)
LEMMA Executed ==
    ASSUME TypeInv, NEW E \in SUBSET Rows, Execute(E)
    PROVE  /\ doc' \in [Ids -> 0..NumRows]
           /\ \A i \in Ids :
                 \/ doc'[i] = doc[i] /\ \A r \in E : id[r] # i
                 \/ /\ doc'[i] \in E /\ id[doc'[i]] = i
                    /\ \A r \in E : id[r] = i => r <= doc'[i]
BY DEF Execute, IsLast

(* The index moves only to rows of the right id, and never back to none.    *)
LEMMA OwnRowKept ==
    ASSUME TypeInv, OwnRow, Held, NEW E \in SUBSET Rows, Execute(E), UNCHANGED input,
           acked' \subseteq acked \cup E
    PROVE  OwnRow' /\ Held'
<1>1. doc' \in [Ids -> 0..NumRows] /\ id' = id /\ id \in [Rows -> Ids] /\ acked \subseteq Rows
    BY Executed DEF input, TypeInv
<1>2. OwnRow'
    BY <1>1, Executed DEF OwnRow
<1>3. \A i \in Ids : doc[i] # 0 => doc'[i] # 0
    <2>1. 0 \notin E
        BY WriteOrderAssumption DEF Rows
    <2> QED BY <2>1, Executed
<1>4. \A r \in E : doc'[id[r]] # 0
    <2>1. 0 \notin E
        BY WriteOrderAssumption DEF Rows
    <2> QED BY <1>1, <2>1, Executed
<1>5. Held'
    BY <1>1, <1>3, <1>4 DEF Held
<1> QED BY <1>2, <1>5

(* Executing lines that come after the acknowledged rows of their id, or    *)
(* that are stragglers, keeps the order.                                    *)
LEMMA OrderKept ==
    ASSUME TypeInv, SerialOrder, NEW E \in SUBSET Rows, Execute(E), UNCHANGED input,
           \A p \in E : After(p, acked),
           stragglers \subseteq stragglers',
           acked' \subseteq acked \cup E
    PROVE  SerialOrder'
<1>1. doc' \in [Ids -> 0..NumRows] /\ id' = id /\ id \in [Rows -> Ids] /\ acked \subseteq Rows
    BY Executed DEF input, TypeInv
<1>2. Rows \subseteq Nat /\ \A i \in Ids : doc'[i] \in Nat
    BY <1>1, WriteOrderAssumption DEF Rows
<1>3. ASSUME NEW r \in acked PROVE doc'[id[r]] >= r \/ doc'[id[r]] \in stragglers'
    <2>1. id[r] \in Ids /\ r \in Nat /\ (doc[id[r]] >= r \/ doc[id[r]] \in stragglers)
        BY <1>1, <1>2 DEF SerialOrder
    <2>2. CASE doc'[id[r]] = doc[id[r]]
        BY <2>1, <2>2
    <2>3. CASE doc'[id[r]] \in E /\ id[doc'[id[r]]] = id[r]
        <3>1. r < doc'[id[r]] \/ doc'[id[r]] \in stragglers
            BY <2>3 DEF After
        <3> QED BY <3>1, <2>1, <1>2
    <2> QED BY <2>1, <2>2, <2>3, Executed
<1>4. ASSUME NEW r \in E PROVE doc'[id[r]] >= r
    <2>1. id[r] \in Ids /\ r \in Nat
        BY <1>1, <1>2
    <2>2. r <= doc'[id[r]]
        BY <2>1, Executed
    <2> QED BY <2>1, <2>2, <1>2
<1> QED BY <1>1, <1>3, <1>4 DEF SerialOrder

-----------------------------------------------------------------------------
Env == [losses : Nat, late : Nat, runs : Nat]

(* A step of one chunk w: lines E of it are executed, some of those are     *)
(* acknowledged, and w ends or goes on with lines that come after these.    *)
LEMMA ShipStep ==
    ASSUME IInv, NEW w \in work, NEW E \in SUBSET w.lines, NEW X, Execute(E),
           acked \subseteq acked', acked' \subseteq acked \cup E,
           Becomes(w, X), X = {} \/ \E x : X = {x},
           \A x \in X : x \in Work /\ x.lines \subseteq w.lines,
           \A x \in X : \A r \in acked' \ acked, p \in x.lines :
               id[r] = id[p] => r < p \/ p \in stragglers',
           stragglers \subseteq stragglers',
           UNCHANGED <<input, fed, late>>,
           env' \in Env
    PROVE  IInv'
<1> USE DEF IInv
<1>0. IsFiniteSet(X)
    <2>1. CASE X = {}
        BY <2>1, FS_EmptySet
    <2>2. CASE \E x : X = {x}
        BY <2>2, FS_Singleton
    <2> QED BY <2>1, <2>2
<1>1. E \in SUBSET Rows /\ id' = id /\ cfg' = cfg /\ late' = late /\ fed' = fed
    BY DEF TypeInv, Work, input
<1>2. TypeInv'
    <2>1. IsFiniteSet(work')
        BY <1>0, FS_Union, FS_RemoveElement DEF TypeInv, Becomes
    <2>2. doc' \in [Ids -> 0..NumRows]
        BY <1>1, Executed
    <2>3. work' \subseteq Work
        BY DEF TypeInv, Becomes
    <2> QED BY <1>1, <2>1, <2>2, <2>3 DEF TypeInv, Env
<1>3. OwnRow' /\ Held'
    BY <1>1, OwnRowKept
<1>4. LateKnown'
    BY <1>1 DEF LateKnown
<1>5. SerialInv'
    <2> SUFFICES ASSUME Serial' PROVE (AtMostOne /\ FedOnly /\ Ahead /\ SerialOrder)'
        BY DEF SerialInv
    <2>1. AtMostOne /\ FedOnly /\ Ahead /\ SerialOrder
        BY <1>1 DEF Serial, SerialInv
    <2>2. work' = X
        BY <2>1 DEF AtMostOne, Becomes
    <2>3. AtMostOne'
        BY <2>2 DEF AtMostOne
    <2>4. FedOnly'
        <3>1. \A r : ChunkOf(r)' = ChunkOf(r)
            BY <1>1 DEF ChunkOf
        <3>2. acked' \cup UNION {v.lines : v \in work'} \subseteq acked \cup UNION {v.lines : v \in work}
            BY <2>2
        <3>3. ASSUME NEW r \in acked' \cup UNION {v.lines : v \in work'} PROVE ChunkOf(r)' < fed'
            BY <1>1, <3>1, <3>2, <2>1 DEF FedOnly
        <3> QED BY <3>3 DEF FedOnly
    <2>5. Ahead'
        <3>1. ASSUME NEW x \in X, NEW p \in x.lines, NEW r \in acked', id[r] = id[p]
              PROVE  r < p \/ p \in stragglers'
            <4>1. CASE r \in acked
                BY <4>1, <3>1, <2>1 DEF Ahead, After
            <4> QED BY <4>1, <3>1
        <3> QED BY <1>1, <2>2, <3>1 DEF Ahead, After
    <2>6. SerialOrder'
        BY <1>1, <2>1, OrderKept DEF Ahead
    <2> QED BY <2>3, <2>4, <2>5, <2>6
<1> QED BY <1>2, <1>3, <1>4, <1>5

LEMMA InitSafe == Init => IInv
<1> SUFFICES ASSUME Init PROVE IInv
    OBVIOUS
<1>1. TypeInv
    BY WriteOrderAssumption, FS_EmptySet DEF Init, TypeInv
<1>2. OwnRow /\ Held /\ LateKnown
    BY <1>1 DEF Init, TypeInv, OwnRow, Held, LateKnown
<1>3. SerialInv
    BY DEF Init, SerialInv, AtMostOne, FedOnly, Ahead, SerialOrder
<1> QED BY <1>1, <1>2, <1>3 DEF IInv

(* A chunk is handed over when none is at work, and comes after every row   *)
(* acknowledged so far.                                                     *)
LEMMA FeedSafe == IInv /\ Feed => IInv'
<1> SUFFICES ASSUME IInv, Feed PROVE IInv'
    OBVIOUS
<1> USE DEF IInv
<1> DEFINE new == [lines |-> Chunk(fed), phase |-> FirstPhase, attempt |-> 0]
<1>1. /\ work' = work \cup {new} /\ fed' = fed + 1
      /\ id' = id /\ cfg' = cfg /\ doc' = doc /\ acked' = acked /\ late' = late
      /\ stragglers' = stragglers /\ env' = env
    BY DEF Feed, input
<1>2. new.lines = Chunk(fed) /\ Chunk(fed) \subseteq Rows
    BY DEF Chunk
<1>3. TypeInv'
    <2>1. IsFiniteSet(work')
        BY <1>1, FS_Union, FS_Singleton DEF TypeInv
    <2>2. work' \subseteq Work
        BY <1>1, <1>2 DEF TypeInv, Work, FirstPhase
    <2> QED BY <1>1, <2>1, <2>2 DEF TypeInv
<1>4. OwnRow' /\ Held' /\ LateKnown'
    BY <1>1 DEF OwnRow, Held, LateKnown
<1>5. SerialInv'
    <2> SUFFICES ASSUME Serial' PROVE (AtMostOne /\ FedOnly /\ Ahead /\ SerialOrder)'
        BY DEF SerialInv
    <2>1. Serial /\ AtMostOne /\ FedOnly /\ Ahead /\ SerialOrder
        BY <1>1 DEF Serial, SerialInv
    <2>2. work = {}
        BY <2>1, FS_CardinalityType, FS_EmptySet DEF Serial, Feed, Window, TypeInv
    <2>3. work' = {new}
        BY <1>1, <2>2
    <2>4. AtMostOne'
        BY <2>3 DEF AtMostOne
    <2>5. \A r : ChunkOf(r)' = ChunkOf(r)
        BY <1>1 DEF ChunkOf
    <2>6. \A r \in new.lines : ChunkOf(r) = fed
        BY <1>2 DEF Chunk, ChunkOf
    <2>7. \A r \in acked : ChunkOf(r) < fed
        BY <2>1 DEF FedOnly
    <2>8. FedOnly'
        <3>1. ASSUME NEW r \in acked' PROVE ChunkOf(r)' < fed'
            BY <1>1, <2>5, <2>7, WriteOrderAssumption DEF TypeInv, ChunkOf, WriteConfig, Rows
        <3>2. ASSUME NEW r \in new.lines PROVE ChunkOf(r)' < fed'
            BY <1>1, <2>5, <2>6 DEF TypeInv
        <3>3. UNION {v.lines : v \in work'} = new.lines
            BY <2>3
        <3> QED BY <3>1, <3>2, <3>3 DEF FedOnly
    <2>9. Ahead'
        <3>1. ASSUME NEW r \in acked, NEW q \in new.lines PROVE r < q
            <4>1. r \in Nat /\ q \in Nat /\ r > 0 /\ q > 0
                BY <1>2, WriteOrderAssumption DEF TypeInv, Rows
            <4>2. cfg.chunk_size \in Nat /\ cfg.chunk_size > 0
                BY WriteOrderAssumption DEF TypeInv, WriteConfig
            <4>3. (r - 1) \div cfg.chunk_size < (q - 1) \div cfg.chunk_size
                BY <2>6, <2>7 DEF ChunkOf
            <4> QED BY <4>1, <4>2, <4>3, ChunksGrow
        <3> QED BY <1>1, <2>3, <3>1 DEF Ahead, After
    <2> QED BY <1>1, <2>1, <2>4, <2>8, <2>9 DEF SerialOrder
<1> QED BY <1>3, <1>4, <1>5

(* A probe acknowledges the whole chunk, or leaves all of it to be sent.    *)
LEMMA ProbeSafe ==
    ASSUME IInv, NEW w \in work, Probe(w)
    PROVE  IInv'
<1> USE DEF IInv
<1>1. env' \in Env /\ stragglers' = stragglers
    BY DEF Probe, TypeInv, Env
<1> DEFINE next == [w EXCEPT !.phase = "full"]
           X == {next}
<1>2. PICK E \in SUBSET w.lines :
         /\ Execute(E)
         /\ \/ E = w.lines /\ acked' = acked \cup E /\ Becomes(w, {})
            \/ UNCHANGED acked /\ Becomes(w, X)
    BY DEF Probe
<1>3. CASE acked' = acked \cup E /\ Becomes(w, {})
    BY <1>1, <1>2, <1>3, ShipStep DEF Probe
<1>4. CASE UNCHANGED acked /\ Becomes(w, X)
    <2>1. \A x \in X : x \in Work /\ x.lines \subseteq w.lines
        BY DEF TypeInv, Work
    <2>2. X = {} \/ \E x : X = {x}
        OBVIOUS
    <2>3. \A x \in X : \A r \in acked' \ acked, p \in x.lines :
             id[r] = id[p] => r < p \/ p \in stragglers'
        BY <1>4
    <2> HIDE DEF X
    <2> QED BY <1>1, <1>2, <1>4, <2>1, <2>2, <2>3, ShipStep DEF Probe
<1> QED BY <1>2, <1>3, <1>4

(* A line to send again comes after the lines of its id that were executed, *)
(* or is a straggler from now on.                                           *)
LEMMA FullSafe ==
    ASSUME IInv, NEW w \in work, Full(w)
    PROVE  IInv'
<1> USE DEF IInv
<1>1. env' \in Env
    BY DEF Full, TypeInv, Env
<1>2. PICK E \in SUBSET w.lines, R \in SUBSET w.lines :
         /\ R \cap E = {}
         /\ Execute(E)
         /\ acked' = acked \cup E
         /\ stragglers' = stragglers \cup Overtaken(Retried(w, R), E)
         /\ Becomes(w, IF Retried(w, R) = {} THEN {}
                       ELSE {[lines |-> Retried(w, R), phase |-> "full",
                              attempt |-> w.attempt + 1]})
    BY DEF Full
<1> DEFINE again == Retried(w, R)
           next == [lines |-> again, phase |-> "full", attempt |-> w.attempt + 1]
           X == {next}
<1>3. again \subseteq w.lines \ E
    BY <1>2 DEF Retried
<1>4. next \in Work /\ next.lines = again
    BY <1>3 DEF TypeInv, Work
<1>5. CASE again = {}
    BY <1>1, <1>2, <1>5, ShipStep DEF Full
<1>6. CASE again # {}
    <2>1. \A x \in X : x \in Work /\ x.lines = again
        <3> HIDE DEF next, again
        <3> QED BY <1>4
    <2>2. \A r \in E, p \in again : id[r] = id[p] => r < p \/ p \in stragglers'
        <3>1. E \subseteq Nat /\ again \subseteq Nat
            BY <1>3, WriteOrderAssumption DEF TypeInv, Work, Rows
        <3>2. ASSUME NEW r \in E, NEW p \in again, id[r] = id[p] PROVE r < p \/ p \in stragglers'
            <4>1. r # p /\ r \in Nat /\ p \in Nat
                BY <3>1, <1>3
            <4>2. CASE p < r
                BY <1>2, <3>2, <4>2 DEF Overtaken
            <4> QED BY <4>1, <4>2
        <3> QED BY <3>2
    <2>3. Becomes(w, X) /\ Execute(E) /\ UNCHANGED <<input, fed, late>>
        BY <1>2, <1>6 DEF Full
    <2>4. X = {} \/ \E x : X = {x}
        OBVIOUS
    <2>5. acked \subseteq acked' /\ acked' \subseteq acked \cup E /\ stragglers \subseteq stragglers'
        BY <1>2
    <2> HIDE DEF X, again
    <2>6. \A x \in X : \A r \in acked' \ acked, p \in x.lines :
             id[r] = id[p] => r < p \/ p \in stragglers'
        BY <2>1, <2>2, <2>5
    <2> QED BY <1>1, <1>3, <2>1, <2>3, <2>4, <2>5, <2>6, ShipStep
<1> QED BY <1>5, <1>6

(* A chunk that lost a request is sent again as it is, or fails.            *)
LEMMA LostSafe ==
    ASSUME IInv, NEW w \in work, Lost(w)
    PROVE  IInv'
<1> USE DEF IInv
<1>1. UNCHANGED <<input, fed, acked>>
    BY DEF Lost
<1>2. ASSUME NEW E \in SUBSET w.lines, Execute(E), UNCHANGED <<late, stragglers>>,
             env' = [env EXCEPT !.losses = @ + 1]
      PROVE  IInv'
    <2>1. env' \in Env
        BY <1>2 DEF TypeInv, Env
    <2>2. CASE Becomes(w, {})
        BY <1>1, <1>2, <2>1, <2>2, ShipStep
    <2>3. CASE UNCHANGED work
        <3> DEFINE X == {w}
        <3>1. Becomes(w, X)
            BY <2>3 DEF Becomes
        <3>2. \A x \in X : x \in Work /\ x.lines \subseteq w.lines
            BY DEF TypeInv
        <3>3. X = {} \/ \E x : X = {x}
            OBVIOUS
        <3>4. acked' \ acked = {}
            BY <1>1
        <3> HIDE DEF X
        <3> QED BY <1>1, <1>2, <2>1, <3>1, <3>2, <3>3, <3>4, ShipStep
    <2> QED BY <2>2, <2>3 DEF Lost
<1>3. ASSUME late' = late \cup {w.lines}, stragglers' = stragglers \cup w.lines,
             UNCHANGED doc, env' = [env EXCEPT !.losses = @ + 1, !.late = @ + 1]
      PROVE  IInv'
    <2>1. env' \in Env
        <3>1. env \in Env
            BY DEF TypeInv, Env
        <3>2. env' = [losses |-> env.losses + 1, late |-> env.late + 1, runs |-> env.runs]
            BY <1>3, <3>1 DEF Env
        <3>3. env.losses \in Nat /\ env.late \in Nat /\ env.runs \in Nat
            BY <3>1 DEF Env
        <3> QED BY <3>2, <3>3 DEF Env
    <2>2. work' \subseteq work
        BY DEF Lost, Becomes
    <2>3. TypeInv'
        BY <1>1, <1>3, <2>1, <2>2, FS_Subset DEF TypeInv, Work, input, Env
    <2>4. OwnRow' /\ Held'
        BY <1>1, <1>3 DEF OwnRow, Held, input
    <2>5. LateKnown'
        BY <1>3 DEF LateKnown
    <2>6. SerialInv'
        <3>1. cfg' = cfg /\ id' = id /\ fed' = fed /\ acked' = acked /\ doc' = doc
              /\ stragglers \subseteq stragglers'
            BY <1>1, <1>3 DEF input
        <3>2. \A r : ChunkOf(r)' = ChunkOf(r)
            BY <3>1 DEF ChunkOf
        <3> SUFFICES ASSUME Serial' PROVE (AtMostOne /\ FedOnly /\ Ahead /\ SerialOrder)'
            BY DEF SerialInv
        <3>3. AtMostOne /\ FedOnly /\ Ahead /\ SerialOrder
            BY <3>1 DEF Serial, SerialInv
        <3>4. AtMostOne' /\ Ahead' /\ SerialOrder'
            BY <2>2, <3>1, <3>3 DEF AtMostOne, Ahead, After, SerialOrder
        <3>5. FedOnly'
            <4>1. UNION {v.lines : v \in work'} \subseteq UNION {v.lines : v \in work}
                BY <2>2
            <4> QED BY <3>1, <3>2, <3>3, <4>1 DEF FedOnly
        <3> QED BY <3>4, <3>5
    <2> QED BY <2>3, <2>4, <2>5, <2>6
<1> QED BY <1>2, <1>3 DEF Lost, Unanswered

(* Lines that are executed late are stragglers.                             *)
LEMMA LateSafe ==
    ASSUME IInv, NEW L \in late, ExecuteLate(L)
    PROVE  IInv'
<1> USE DEF IInv
<1>1. PICK E \in SUBSET L : Execute(E)
    BY DEF ExecuteLate
<1>2. /\ E \in SUBSET Rows /\ E \subseteq stragglers /\ late' \subseteq late
      /\ UNCHANGED <<input, fed, work, acked, stragglers, env>>
    BY DEF ExecuteLate, TypeInv, LateKnown
<1>3. TypeInv'
    BY <1>1, <1>2, Executed DEF TypeInv, input
<1>4. OwnRow' /\ Held'
    BY <1>1, <1>2, OwnRowKept
<1>5. LateKnown'
    BY <1>2 DEF LateKnown
<1>6. SerialInv'
    <2> SUFFICES ASSUME Serial' PROVE (AtMostOne /\ FedOnly /\ Ahead /\ SerialOrder)'
        BY DEF SerialInv
    <2>1. AtMostOne /\ FedOnly /\ Ahead /\ SerialOrder
        BY <1>2 DEF Serial, SerialInv, input
    <2>2. AtMostOne' /\ FedOnly' /\ Ahead'
        BY <1>2, <2>1 DEF AtMostOne, FedOnly, ChunkOf, Ahead, After, input
    <2>3. \A p \in E : After(p, acked)
        BY <1>2 DEF After
    <2>4. SerialOrder'
        BY <1>1, <1>2, <2>1, <2>3, OrderKept
    <2> QED BY <2>2, <2>4
<1> QED BY <1>3, <1>4, <1>5, <1>6

(* A new run of the task has acknowledged nothing yet.                      *)
LEMMA RestartSafe == IInv /\ Restart => IInv'
<1> SUFFICES ASSUME IInv, Restart PROVE IInv'
    OBVIOUS
<1> USE DEF IInv
<1>1. PICK E \in SUBSET UNION {w.lines : w \in work} : Execute(E)
    BY DEF Restart
<1>2. E \in SUBSET Rows
    BY DEF TypeInv, Work
<1>3. /\ fed' = 0 /\ work' = {} /\ acked' = {} /\ late' = late /\ UNCHANGED input
      /\ stragglers' = UNION late /\ env' \in Env
    BY DEF Restart, TypeInv, Env
<1>4. TypeInv'
    BY <1>1, <1>2, <1>3, Executed, FS_EmptySet DEF TypeInv, input, Env
<1>5. OwnRow' /\ Held'
    BY <1>1, <1>2, <1>3, OwnRowKept
<1>6. LateKnown' /\ SerialInv'
    BY <1>3 DEF LateKnown, SerialInv, AtMostOne, FedOnly, Ahead, SerialOrder
<1> QED BY <1>4, <1>5, <1>6

LEMMA StepSafe == IInv /\ [Next]_vars => IInv'
<1> SUFFICES ASSUME IInv, [Next]_vars PROVE IInv'
    OBVIOUS
<1>1. CASE Feed
    BY <1>1, FeedSafe
<1>2. ASSUME NEW w \in work, Probe(w) \/ Full(w) \/ Lost(w) PROVE IInv'
    BY <1>2, ProbeSafe, FullSafe, LostSafe
<1>3. ASSUME NEW L \in late, ExecuteLate(L) PROVE IInv'
    BY <1>3, LateSafe
<1>4. CASE Restart
    BY <1>4, RestartSafe
<1>5. CASE UNCHANGED vars
    BY <1>5 DEF vars, input, IInv, TypeInv, OwnRow, Held, LateKnown, SerialInv, Serial, AtMostOne,
                FedOnly, ChunkOf, Ahead, After, SerialOrder
<1> QED BY <1>1, <1>2, <1>3, <1>4, <1>5 DEF Next

-----------------------------------------------------------------------------
(* With unique ids, the row an id holds is the only one it can hold.        *)
LEMMA IInvKeepsOrder == IInv => RowOrderKept
<1> SUFFICES ASSUME IInv PROVE RowOrderKept
    OBVIOUS
<1>1. ASSUME UniqueIds PROVE InOrder
    <2>1. ASSUME NEW r \in acked PROVE doc[id[r]] >= r
        <3>1. r \in Rows /\ r \in Nat /\ id[r] \in Ids /\ doc[id[r]] \in Rows
            BY WriteOrderAssumption DEF IInv, TypeInv, Held, Rows
        <3>2. id[doc[id[r]]] = id[r]
            BY <3>1 DEF IInv, OwnRow, Held
        <3>3. doc[id[r]] = r
            BY <1>1, <3>1, <3>2 DEF UniqueIds
        <3> QED BY <3>1, <3>3
    <2> QED BY <2>1 DEF InOrder
<1>2. ASSUME Serial PROVE SerialOrder
    BY <1>2 DEF IInv, SerialInv
<1> QED BY <1>1, <1>2 DEF RowOrderKept, Serial, SerialOrder

(* Rows of one id are applied in row order, for every number of rows, ids,  *)
(* chunk sizes, retry budgets, lost requests and task re-runs: with unique  *)
(* ids always; otherwise with one chunk at a time, except for a row that    *)
(* was refused in a request that executed a later row of its id and then    *)
(* sent again by itself, or that was in a request executed late.            *)
THEOREM RowOrderHolds == Spec => []RowOrderKept
<1>1. Spec => []IInv
    BY InitSafe, StepSafe, PTL DEF Spec
<1> QED BY <1>1, IInvKeepsOrder, PTL

=============================================================================
