--------------------------- MODULE DeliveryProofs ---------------------------
(***************************************************************************)
(* Proofs about Delivery, for any number of records, streams and faults    *)
(* and any caps: the bookmark it emits covers only records that are in     *)
(* their tables, it implements AtLeastOnce, upserts keep their order,      *)
(* batches stay within the caps, and their byte tallies are true.          *)
(*                                                                         *)
(* BookmarkCovered is not inductive: that drain_all may write the bookmark *)
(* when its threads have ended holds because, by then, every record read   *)
(* has a place.  It is in its table, or in the batch of its sink, and a    *)
(* sink that is drained has an empty batch.  The order of upserts needs a  *)
(* finer place: under its key, the row is kept, or will be inserted.       *)
(***************************************************************************)
EXTENDS Delivery, SumProofs, FiniteSetTheorems, TLAPS

Phases == {"reading", "flushing", "loading", "draining", "finishing",
           "down", "done"}

Types ==
  /\ phase \in Phases
  /\ pos \in 0 .. N /\ latest \in 0 .. pos
  /\ held \in 0 .. latest /\ emitted \in 0 .. held
  /\ pending \in [Streams -> SUBSET Records]
  /\ stage \in [Streams -> {"filling", "inserting", "drained", "failed"}]
  /\ copies \in [Records -> Nat]

\* Every record read is in its table, in the batch of its sink, or is the one
\* in the BATCH message that is being loaded.
Placed ==
  \A i \in 1 .. pos :
     \/ copies[i] > 0
     \/ i \in pending[StreamOf[i]]
     \/ phase \in {"loading", "down"} /\ i = pos

\* A drained sink has nothing left.
DrainedEmpty == \A s \in Streams : stage[s] = "drained" => pending[s] = {}

\* While messages are read no sink is drained, but one that was full.
Quiet ==
  /\ phase \in {"reading", "loading"} => \A s \in Streams : stage[s] = "filling"
  /\ phase = "flushing" =>
        \E s \in Streams :
           /\ stage[s] = "inserting"
           /\ \A t \in Streams \ {s} : stage[t] = "filling"

\* The message being loaded has been read.
Loading == phase = "loading" => pos > 0

IInv ==
  /\ Types
  /\ Placed
  /\ DrainedEmpty
  /\ Quiet
  /\ Loading
  /\ BookmarkCovered

\* Inserting rows adds copies and takes none away.
LEMMA InsertAdds ==
  ASSUME NEW S \in SUBSET Records, copies \in [Records -> Nat], Insert(S)
  PROVE  /\ copies' \in [Records -> Nat]
         /\ \A i \in Records : copies[i] > 0 => copies'[i] > 0
         /\ \A i \in S : copies'[i] > 0
  BY DEF Insert

\* The invariant holds initially.
LEMMA InitIInv == Init => IInv
  BY RecordsAssumption
     DEF Init, IInv, Types, Placed, DrainedEmpty, Quiet, Loading,
         BookmarkCovered, Phases, Records, Everywhere

\* Every step keeps the invariant.
LEMMA NextIInv == IInv /\ [Next]_vars => IInv'
<1>. SUFFICES ASSUME IInv, [Next]_vars PROVE IInv'
  OBVIOUS
<1>. USE RecordsAssumption DEF Records, IInv
<1>1. CASE ReadRecord
  <2>. DEFINE s == StreamOf[pos + 1]
  <2>1. /\ phase = "reading" /\ pos < N /\ pos' = pos + 1
        /\ pending' = [pending EXCEPT ![s] = @ \cup {pos + 1}]
        /\ \/ /\ phase' = "flushing"
              /\ stage' = [stage EXCEPT ![s] = "inserting"]
           \/ phase' \in {"reading", "draining"} /\ UNCHANGED stage
        /\ held' \in {held, latest}
        /\ UNCHANGED <<latest, emitted, copies>>
    BY <1>1
       DEF ReadRecord, process_record, HandleMaxRecordAge, StartDrainAll, tables
  <2>2. s \in Streams /\ pos + 1 \in Records
    BY <2>1 DEF Types
  <2>3. Types'
    <3>1. pending' \in [Streams -> SUBSET Records]
      BY <2>1, <2>2 DEF Types
    <3>2. stage' \in [Streams -> {"filling", "inserting", "drained", "failed"}]
      BY <2>1, <2>2 DEF Types
    <3>3. /\ pos' \in 0 .. N /\ latest' \in 0 .. pos'
          /\ held' \in 0 .. latest' /\ emitted' \in 0 .. held'
      BY <2>1 DEF Types
    <3>. QED
      BY <3>1, <3>2, <3>3, <2>1 DEF Types, Phases
  <2>4. Placed'
    <3>. SUFFICES ASSUME NEW i \in 1 .. pos + 1
                  PROVE  copies[i] > 0 \/ i \in pending'[StreamOf[i]]
      BY <2>1 DEF Placed
    <3>1. StreamOf[i] \in Streams
      BY <2>1 DEF Types
    <3>2. CASE i = pos + 1
      BY <3>2, <2>1, <2>2 DEF Types
    <3>3. CASE i \in 1 .. pos
      BY <3>3, <3>1, <2>1, <2>2 DEF Placed, Types
    <3>. QED
      BY <3>2, <3>3 DEF Types
  <2>5. \A t \in Streams : stage[t] = "filling"
    BY <2>1 DEF Quiet
  <2>6. DrainedEmpty'
    BY <2>1, <2>2, <2>5 DEF DrainedEmpty, Types
  <2>7. Quiet'
    BY <2>1, <2>2, <2>5 DEF Quiet, Types
  <2>8. Loading' /\ BookmarkCovered'
    BY <2>1 DEF Loading, BookmarkCovered
  <2>. QED
    BY <2>3, <2>4, <2>6, <2>7, <2>8
<1>2. CASE ReadBatch
  <2>1. /\ phase = "reading" /\ pos + 1 \in Records
        /\ pos' = pos + 1 /\ phase' = "loading"
        /\ UNCHANGED <<latest, held, pending, stage, emitted, copies>>
    BY <1>2 DEF ReadBatch, sinks, tables
  <2>2. Types'
    BY <2>1 DEF Types, Phases
  <2>3. Placed'
    BY <2>1 DEF Placed, Types
  <2>. QED
    BY <2>1, <2>2, <2>3 DEF DrainedEmpty, Quiet, Loading, BookmarkCovered, Types
<1>3. CASE ReadState
  <2>1. /\ phase = "reading" /\ latest' = pos
        /\ UNCHANGED <<phase, pos, held, pending, stage, emitted, copies>>
    BY <1>3 DEF ReadState, sinks, tables
  <2>2. Types'
    BY <2>1 DEF Types
  <2>. QED
    BY <2>1, <2>2 DEF Placed, DrainedEmpty, Quiet, Loading, BookmarkCovered
<1>4. CASE EndOfInput
  <2>1. /\ phase = "reading" /\ phase' = "finishing" /\ held' = latest
        /\ UNCHANGED <<pos, latest, pending, stage, emitted, copies>>
    BY <1>4 DEF EndOfInput, StartDrainAll, sinks, tables
  <2>2. Types'
    BY <2>1 DEF Types, Phases
  <2>. QED
    BY <2>1, <2>2 DEF Placed, DrainedEmpty, Quiet, Loading, BookmarkCovered
<1>5. ASSUME NEW s \in Streams, StartDrain(s) PROVE IInv'
  <2>1. /\ phase \in {"draining", "finishing"}
        /\ stage' = [stage EXCEPT
             ![s] = IF pending[s] = {} THEN "drained" ELSE "inserting"]
        /\ UNCHANGED <<phase, pos, latest, held, pending, emitted, copies>>
    BY <1>5 DEF StartDrain, tables
  <2>2. Types'
    BY <2>1 DEF Types
  <2>3. DrainedEmpty'
    BY <2>1 DEF DrainedEmpty, Types
  <2>. QED
    BY <2>1, <2>2, <2>3 DEF Placed, Quiet, Loading, BookmarkCovered
<1>6. ASSUME NEW s \in Streams, InsertSucceeds(s) PROVE IInv'
  <2>1. /\ Insert(pending[s])
        /\ pending' = [pending EXCEPT ![s] = {}]
        /\ UNCHANGED <<pos, latest, emitted>>
    BY <1>6 DEF InsertSucceeds, mark_drained
  <2>2. \/ /\ phase = "flushing" /\ phase' \in {"reading", "draining"}
           /\ stage' = [stage EXCEPT ![s] = "filling"]
           /\ held' \in {held, latest}
        \/ /\ phase # "flushing"
           /\ stage' = [stage EXCEPT ![s] = "drained"]
           /\ UNCHANGED <<phase, held>>
    BY <1>6 DEF InsertSucceeds, HandleMaxRecordAge, StartDrainAll
  <2>3. pending[s] \in SUBSET Records
    BY DEF Types
  <2>4. /\ copies' \in [Records -> Nat]
        /\ \A i \in Records : copies[i] > 0 => copies'[i] > 0
        /\ \A i \in pending[s] : copies'[i] > 0
    BY <2>1, <2>3, InsertAdds DEF Types
  <2>5. Types'
    <3>1. pending' \in [Streams -> SUBSET Records]
      BY <2>1 DEF Types
    <3>2. stage' \in [Streams -> {"filling", "inserting", "drained", "failed"}]
      BY <2>2 DEF Types
    <3>3. /\ pos' \in 0 .. N /\ latest' \in 0 .. pos'
          /\ held' \in 0 .. latest' /\ emitted' \in 0 .. held'
      BY <2>1, <2>2 DEF Types
    <3>. QED
      BY <3>1, <3>2, <3>3, <2>2, <2>4 DEF Types, Phases
  <2>6. Placed'
    <3>. SUFFICES ASSUME NEW i \in 1 .. pos
                  PROVE  \/ copies'[i] > 0
                         \/ i \in pending'[StreamOf[i]]
                         \/ phase' \in {"loading", "down"} /\ i = pos
      BY <2>1 DEF Placed
    <3>1. i \in Records /\ StreamOf[i] \in Streams
      BY DEF Types
    <3>. QED
      BY <3>1, <2>1, <2>2, <2>4 DEF Placed, Types
  <2>7. DrainedEmpty'
    BY <2>1, <2>2 DEF DrainedEmpty, Types
  <2>8. /\ phase \notin {"reading", "loading"}
        /\ phase = "flushing" => \A t \in Streams \ {s} : stage[t] = "filling"
    BY <1>6 DEF InsertSucceeds, Quiet
  <2>9. Quiet'
    <3>1. CASE phase = "flushing"
      <4>1. \A t \in Streams : stage'[t] = "filling"
        BY <3>1, <2>2, <2>8 DEF Types
      <4>. QED
        BY <4>1, <3>1, <2>2 DEF Quiet
    <3>2. CASE phase # "flushing"
      BY <3>2, <2>2, <2>8 DEF Quiet
    <3>. QED
      BY <3>1, <3>2
  <2>10. Loading' /\ BookmarkCovered'
    BY <2>1, <2>2, <2>4, <2>8 DEF Loading, BookmarkCovered, Types
  <2>. QED
    BY <2>5, <2>6, <2>7, <2>9, <2>10
<1>7. ASSUME NEW s \in Streams, InsertFails(s) PROVE IInv'
  <2>1. PICK S \in SUBSET pending[s] : Insert(S)
    BY <1>7 DEF InsertFails
  <2>2. /\ \/ UNCHANGED <<stage, phase>>
           \/ stage' = [stage EXCEPT ![s] = "failed"] /\ phase' = "down"
        /\ UNCHANGED <<pos, latest, held, pending, emitted>>
    BY <1>7 DEF InsertFails
  <2>3. /\ copies' \in [Records -> Nat]
        /\ \A i \in Records : copies[i] > 0 => copies'[i] > 0
    <3>1. S \in SUBSET Records
      BY DEF Types
    <3>. QED
      BY <3>1, <2>1, InsertAdds DEF Types
  <2>4. Types'
    BY <2>2, <2>3 DEF Types, Phases
  <2>5. Placed'
    BY <2>2, <2>3 DEF Placed, Types
  <2>6. DrainedEmpty' /\ Quiet' /\ Loading'
    BY <2>2 DEF DrainedEmpty, Quiet, Loading, Types
  <2>7. BookmarkCovered'
    BY <2>2, <2>3 DEF BookmarkCovered, Types
  <2>. QED
    BY <2>4, <2>5, <2>6, <2>7
<1>8. CASE process_batch_files
  <2>1. /\ phase = "loading" /\ Insert({pos})
        /\ phase' \in {"reading", "draining"} /\ held' \in {held, latest}
        /\ UNCHANGED <<pos, latest, pending, stage, emitted>>
    BY <1>8 DEF process_batch_files, HandleMaxRecordAge, StartDrainAll, sinks
  <2>2. pos \in Records
    BY <2>1 DEF Loading, Types
  <2>3. /\ copies' \in [Records -> Nat]
        /\ \A i \in Records : copies[i] > 0 => copies'[i] > 0
        /\ copies'[pos] > 0
    BY <2>1, <2>2, InsertAdds DEF Types
  <2>4. Types'
    BY <2>1, <2>3 DEF Types, Phases
  <2>5. Placed'
    BY <2>1, <2>3 DEF Placed, Types
  <2>6. DrainedEmpty' /\ Quiet' /\ Loading'
    BY <2>1 DEF DrainedEmpty, Quiet, Loading
  <2>7. BookmarkCovered'
    BY <2>1, <2>3 DEF BookmarkCovered, Types
  <2>. QED
    BY <2>4, <2>5, <2>6, <2>7
<1>9. CASE BatchFails
  <2>1. PICK S \in SUBSET {pos} : Insert(S)
    BY <1>9 DEF BatchFails
  <2>2. /\ phase = "loading" /\ phase' \in {"loading", "down"}
        /\ UNCHANGED <<pos, latest, held, pending, stage, emitted>>
    BY <1>9 DEF BatchFails, sinks
  <2>3. pos \in Records
    BY <2>2 DEF Loading, Types
  <2>4. /\ copies' \in [Records -> Nat]
        /\ \A i \in Records : copies[i] > 0 => copies'[i] > 0
    BY <2>1, <2>3, InsertAdds DEF Types
  <2>5. Types'
    BY <2>2, <2>4 DEF Types, Phases
  <2>6. Placed'
    BY <2>2, <2>4 DEF Placed, Types
  <2>7. DrainedEmpty' /\ Quiet' /\ Loading'
    BY <2>2 DEF DrainedEmpty, Quiet, Loading
  <2>8. BookmarkCovered'
    BY <2>2, <2>4 DEF BookmarkCovered, Types
  <2>. QED
    BY <2>5, <2>6, <2>7, <2>8
<1>10. CASE WriteState
  <2>1. /\ phase \in {"draining", "finishing"}
        /\ \A s \in Streams : stage[s] = "drained"
        /\ emitted' = held /\ phase' \in {"reading", "done"}
        /\ stage' = [s \in Streams |-> "filling"]
        /\ UNCHANGED <<pos, latest, held, pending, copies>>
    BY <1>10 DEF WriteState, Everywhere, tables
  <2>2. Types'
    BY <2>1 DEF Types, Phases
  <2>3. \A i \in 1 .. pos : copies[i] > 0
    <3>. SUFFICES ASSUME NEW i \in 1 .. pos PROVE copies[i] > 0
      OBVIOUS
    <3>1. StreamOf[i] \in Streams
      BY DEF Types
    <3>. QED
      BY <3>1, <2>1 DEF Placed, DrainedEmpty
  <2>4. BookmarkCovered'
    BY <2>1, <2>3 DEF BookmarkCovered, Types
  <2>5. Placed'
    BY <2>1, <2>3 DEF Placed
  <2>6. DrainedEmpty' /\ Quiet' /\ Loading'
    BY <2>1 DEF DrainedEmpty, Quiet, Loading
  <2>. QED
    BY <2>2, <2>4, <2>5, <2>6
<1>11. CASE Crash
  <2>1. /\ phase' = "down" /\ stage' = [s \in Streams |-> "filling"]
        /\ UNCHANGED <<pos, latest, held, pending, emitted, copies>>
    BY <1>11 DEF Crash, Everywhere, tables
  <2>2. Types'
    BY <2>1 DEF Types, Phases
  <2>3. Placed'
    BY <2>1 DEF Placed
  <2>4. DrainedEmpty' /\ Quiet' /\ Loading' /\ BookmarkCovered'
    BY <2>1 DEF DrainedEmpty, Quiet, Loading, BookmarkCovered, Types
  <2>. QED
    BY <2>2, <2>3, <2>4
<1>12. CASE Restart
  <2>1. /\ phase' = "reading"
        /\ pos' = emitted /\ latest' = emitted /\ held' = emitted
        /\ pending' = [s \in Streams |-> {}]
        /\ stage' = [s \in Streams |-> "filling"]
        /\ UNCHANGED <<emitted, copies>>
    BY <1>12 DEF Restart, Everywhere, tables
  <2>2. Types'
    BY <2>1 DEF Types, Phases
  <2>3. Placed'
    BY <2>1 DEF Placed, BookmarkCovered
  <2>4. DrainedEmpty' /\ Quiet' /\ Loading' /\ BookmarkCovered'
    BY <2>1 DEF DrainedEmpty, Quiet, Loading, BookmarkCovered, Types
  <2>. QED
    BY <2>2, <2>3, <2>4
<1>13. CASE UNCHANGED vars
  BY <1>13
     DEF vars, sinks, tables, Types, Placed, DrainedEmpty, Quiet,
         Loading, BookmarkCovered
<1>. QED
  BY <1>1, <1>2, <1>3, <1>4, <1>5, <1>6, <1>7, <1>8, <1>9, <1>10, <1>11, <1>12,
     <1>13
     DEF Next, Progress

\* The invariant holds of every behaviour.
THEOREM Invariance == Spec => []IInv
  BY InitIInv, NextIInv, PTL DEF Spec

\* No record is lost: the bookmark that is written never covers a record that
\* is not in its table, with any number of streams drained in parallel, and
\* whatever fails, and however often the pipeline is run again.
THEOREM Covered == Spec => []BookmarkCovered
<1>1. IInv => BookmarkCovered
  BY DEF IInv
<1>. QED
  BY <1>1, Invariance, PTL

-----------------------------------------------------------------------------
(* The refinement.                                                         *)

\* A step delivers some records and leaves the bookmark, or writes it.
LEMMA StepDelivers ==
  ASSUME IInv, Next
  PROVE  \/ /\ UNCHANGED emitted
            /\ \A i \in Records : copies[i] > 0 => copies'[i] > 0
         \/ WriteState
<1>. USE DEF IInv
<1>1. CASE \/ ReadRecord \/ ReadBatch \/ ReadState \/ EndOfInput \/ Restart
           \/ Crash \/ \E s \in Streams : StartDrain(s)
  BY <1>1
     DEF ReadRecord, ReadBatch, ReadState, EndOfInput, Restart, Crash,
         StartDrain, tables
<1>2. ASSUME NEW S \in SUBSET Records, Insert(S), UNCHANGED emitted
      PROVE  /\ UNCHANGED emitted
             /\ \A i \in Records : copies[i] > 0 => copies'[i] > 0
  BY <1>2, InsertAdds DEF Types
<1>3. ASSUME NEW s \in Streams, InsertSucceeds(s) \/ InsertFails(s)
      PROVE  /\ UNCHANGED emitted
             /\ \A i \in Records : copies[i] > 0 => copies'[i] > 0
  <2>1. \E S \in SUBSET pending[s] : Insert(S) /\ UNCHANGED emitted
    BY <1>3 DEF InsertSucceeds, InsertFails
  <2>2. pending[s] \subseteq Records
    BY DEF Types
  <2>. QED
    BY <2>1, <2>2, <1>2
<1>4. CASE process_batch_files \/ BatchFails
  <2>1. \E S \in SUBSET {pos} : Insert(S) /\ UNCHANGED emitted
    BY <1>4 DEF process_batch_files, BatchFails
  <2>2. pos \in Records
    BY <1>4, RecordsAssumption
       DEF process_batch_files, BatchFails, Loading, Types, Records
  <2>. QED
    BY <2>1, <2>2, <1>2
<1>. QED
  BY <1>1, <1>3, <1>4 DEF Next, Progress

\* Every step is a Deliver, an Acknowledge, or a stutter of AtLeastOnce.
LEMMA NextRefines ==
  IInv /\ IInv' /\ [Next]_vars => [Contract!Next]_(Contract!vars)
<1>. DEFINE delivered == {i \in Records : copies[i] > 0}
<1>1. ASSUME IInv, IInv', Next PROVE Contract!Next
  <2>1. CASE WriteState
    <3>1. emitted' \in emitted .. N
      BY <1>1, <2>1, RecordsAssumption DEF WriteState, IInv, Types
    <3>2. 1 .. emitted' \subseteq delivered /\ UNCHANGED copies
      BY <1>1, <2>1, <3>1, RecordsAssumption
         DEF WriteState, IInv, Types, BookmarkCovered, Records, tables
    <3>. QED
      BY <3>1, <3>2 DEF Contract!Next, Contract!Acknowledge
  <2>2. CASE /\ UNCHANGED emitted
             /\ \A i \in Records : copies[i] > 0 => copies'[i] > 0
    <3>1. /\ delivered' \in SUBSET (1 .. N)
          /\ delivered' = delivered \cup delivered'
      BY <2>2 DEF Records
    <3>. QED
      BY <2>2, <3>1 DEF Contract!Next, Contract!Deliver
  <2>. QED
    BY <1>1, <2>1, <2>2, StepDelivers
<1>2. CASE UNCHANGED vars
  BY <1>2 DEF vars, tables, Contract!vars
<1>. QED
  BY <1>1, <1>2

\* The target is at-least-once: it acknowledges only what it has delivered.
THEOREM Refinement == Spec => ContractSpec
<1>1. Init => Contract!Init
  BY DEF Init, Contract!Init, Records
<1>2. IInv /\ IInv' /\ [Next]_vars => [Contract!Next]_(Contract!vars)
  BY NextRefines
<1>. QED
  BY <1>1, <1>2, Invariance, PTL DEF Spec, ContractSpec, Contract!Spec
-----------------------------------------------------------------------------
(* The order of upserts.                                                   *)

\* The other variables, which the invariant above does not need.
OtherTypes ==
  /\ cfg \in [rows : RowCaps, bytes : ByteCaps]
  /\ bytes \in [Streams -> Nat]
  /\ newest \in [Keys -> {0} \cup Records]
  /\ faults \in 0 .. MaxFaults

\* A batch holds records of its stream that no bookmark covers.
Batches ==
  \A s \in Streams : \A j \in pending[s] :
     j \in emitted + 1 .. pos /\ StreamOf[j] = s /\ j \notin Batched

\* With a record, it holds every later one of its stream: a batch is drained as
\* a whole.
UpClosed ==
  \A s \in Streams : \A j \in pending[s] : \A i \in j .. pos :
     StreamOf[i] = s /\ i \notin Batched => i \in pending[s]

\* The table keeps record i or a newer one of its key, or an older record has
\* passed it, which came in a BATCH message.
Kept(i) ==
  \/ newest[KeyOf[i]] >= i
  \/ i \in Batched /\ newest[KeyOf[i]] \in Records \ Batched

\* Of every record read, its row is kept or yet to be inserted.
KeptOrPlaced ==
  \A i \in 1 .. pos :
     \/ Kept(i)
     \/ i \in pending[StreamOf[i]]
     \/ phase \in {"loading", "down"} /\ i = pos

OInv ==
  /\ OtherTypes
  /\ Batches
  /\ UpClosed
  /\ KeptOrPlaced
  /\ LastWriteWins

\* A set of records has a maximum.  Of the sets of records above each of them,
\* one is minimal for inclusion: that of the maximum.
LEMMA MaxOfRecords ==
  ASSUME NEW S \in SUBSET Records, S # {}
  PROVE  Max(S) \in S /\ \A y \in S : Max(S) >= y
<1>. DEFINE Above(x) == {y \in S : y > x}
            T == {Above(x) : x \in S}
<1>1. IsFiniteSet(S) /\ S \in SUBSET Nat
  <2>1. IsFiniteSet(Records) /\ Records \subseteq Nat
    BY FS_Interval, RecordsAssumption DEF Records
  <2>. QED
    BY <2>1, FS_Subset
<1>2. IsWellFoundedOn(StrictSubsetOrdering(S), SUBSET S)
  BY <1>1, FS_StrictSubsetOrderingWellFounded, FS_FiniteSubsetsOfFinite
<1>3. T \subseteq SUBSET S /\ T # {}
  OBVIOUS
<1>4. PICK A \in T : \A B \in T : <<B, A>> \notin StrictSubsetOrdering(S)
  <2>. HIDE DEF T
  <2>. QED
    BY <1>2, <1>3, WFMin
<1>5. PICK x \in S : A = Above(x)
  OBVIOUS
<1>6. ASSUME NEW y \in S PROVE x >= y
  <2>. x \in Nat /\ y \in Nat /\ \A z \in S : z \in Nat
    BY <1>1
  <2>. SUFFICES ASSUME y > x PROVE FALSE
    OBVIOUS
  <2>1. Above(y) \subseteq Above(x) /\ y \in Above(x) /\ y \notin Above(y)
    <3>1. ASSUME NEW z \in S, z > y PROVE z > x
      BY <3>1
    <3>2. ~(y > y)
      OBVIOUS
    <3>. QED
      BY <3>1, <3>2
  <2>2. <<Above(y), A>> \in StrictSubsetOrdering(S)
    BY <1>5, <2>1 DEF StrictSubsetOrdering
  <2>. QED
    BY <1>4, <2>2
<1>. QED
  BY <1>6 DEF Max

\* What an insert leaves under a key: the last of its records that have it.
LEMMA InsertKeeps ==
  ASSUME NEW S \in SUBSET Records, Insert(S), OtherTypes
  PROVE  /\ newest' \in [Keys -> {0} \cup Records]
         /\ \A k \in Keys :
               \/ /\ newest'[k] = newest[k]
                  /\ \A j \in S : KeyOf[j] # k
               \/ /\ newest'[k] \in S /\ KeyOf[newest'[k]] = k
                  /\ \A j \in S : KeyOf[j] = k => newest'[k] >= j
<1>. DEFINE same(k) == {j \in S : KeyOf[j] = k}
<1>1. newest' = [k \in Keys |->
                   IF same(k) = {} THEN newest[k] ELSE Max(same(k))]
  BY DEF Insert, LastOf
<1>2. ASSUME NEW k \in Keys, same(k) # {}
      PROVE  Max(same(k)) \in same(k) /\ \A j \in same(k) : Max(same(k)) >= j
  <2>1. same(k) \in SUBSET Records
    OBVIOUS
  <2>. QED
    BY <1>2, <2>1, MaxOfRecords
<1>3. ASSUME NEW k \in Keys
      PROVE  /\ newest'[k] \in {0} \cup Records
             /\ \/ /\ newest'[k] = newest[k]
                   /\ \A j \in S : KeyOf[j] # k
                \/ /\ newest'[k] \in S /\ KeyOf[newest'[k]] = k
                   /\ \A j \in S : KeyOf[j] = k => newest'[k] >= j
  <2>1. CASE same(k) = {}
    BY <2>1, <1>1 DEF OtherTypes
  <2>2. CASE same(k) # {}
    <3>1. newest'[k] = Max(same(k))
      BY <2>2, <1>1
    <3>. QED
      BY <3>1, <2>2, <1>2
  <2>. QED
    BY <2>1, <2>2
<1>. QED
  BY <1>1, <1>3

\* Rows of a batch are inserted: a row that is not kept then is still in it.
LEMMA InsertBatch ==
  ASSUME IInv, OInv, NEW s \in Streams, NEW S \in SUBSET pending[s], Insert(S)
  PROVE  /\ newest' \in [Keys -> {0} \cup Records]
         /\ \A i \in 1 .. pos :
               \/ Kept(i)'
               \/ i \in pending[StreamOf[i]] /\ i \notin S
               \/ phase \in {"loading", "down"} /\ i = pos
         /\ \A i \in 1 .. emitted : Kept(i)'
<1>. USE DEF IInv, OInv
<1>1. S \in SUBSET Records /\ S \in SUBSET Nat
  BY RecordsAssumption DEF Types, Records
<1>2. /\ newest' \in [Keys -> {0} \cup Records]
      /\ \A k \in Keys :
            \/ /\ newest'[k] = newest[k]
               /\ \A j \in S : KeyOf[j] # k
            \/ /\ newest'[k] \in S /\ KeyOf[newest'[k]] = k
               /\ \A j \in S : KeyOf[j] = k => newest'[k] >= j
  BY <1>1, InsertKeeps
<1>3. ASSUME NEW i \in 1 .. pos
      PROVE  /\ \/ Kept(i)'
                \/ i \in pending[StreamOf[i]] /\ i \notin S
                \/ phase \in {"loading", "down"} /\ i = pos
             /\ i <= emitted => Kept(i)'
  <2>1. i \in Records /\ i \in Nat /\ KeyOf[i] \in Keys
    BY RecordsAssumption DEF Types, Records
  <2>. DEFINE m == newest'[KeyOf[i]]
  <2>2. CASE m = newest[KeyOf[i]] /\ \A j \in S : KeyOf[j] # KeyOf[i]
    <3>1. Kept(i) => Kept(i)'
      BY <2>2 DEF Kept
    <3>2. i \notin S
      BY <2>2
    <3>3. i <= emitted => Kept(i)
      BY <2>1 DEF LastWriteWins, Kept, Types
    <3>. QED
      BY <3>1, <3>2, <3>3 DEF KeptOrPlaced
  <2>3. CASE /\ m \in S /\ KeyOf[m] = KeyOf[i]
             /\ \A j \in S : KeyOf[j] = KeyOf[i] => m >= j
    <3>0. m \in pending[s]
      BY <2>3
    <3>1. m \in Records /\ m \in Nat /\ m > emitted /\ m \notin Batched
          /\ StreamOf[m] = s /\ m \in pending[s]
      <4>1. m \in Records /\ m \in Nat
        BY <2>3, <1>1
      <4>2. m \in emitted + 1 .. pos /\ StreamOf[m] = s /\ m \notin Batched
        BY <3>0 DEF Batches
      <4>. QED
        BY <3>0, <4>1, <4>2 DEF Types
    <3>2. StreamOf[i] = s
      BY <2>1, <2>3, <3>1, RecordsAssumption
    <3>3. CASE i <= m
      <4>1. newest'[KeyOf[i]] >= i
        BY <3>1, <3>3, <2>1
      <4>. QED
        BY <4>1 DEF Kept
    <3>4. CASE i > m
      <4>1. i \in m .. pos /\ ~(i <= emitted)
        BY <3>1, <3>4, <2>1 DEF Types
      <4>2. CASE i \in Batched
        BY <4>1, <4>2, <3>1 DEF Kept
      <4>3. CASE i \notin Batched
        <5>1. i \in pending[s]
          BY <4>1, <4>3, <3>1, <3>2 DEF UpClosed
        <5>2. i \notin S
          BY <2>1, <2>3, <3>1, <3>4
        <5>. QED
          BY <5>1, <5>2, <3>2, <4>1
      <4>. QED
        BY <4>2, <4>3
    <3>. QED
      BY <3>1, <2>1, <3>3, <3>4
  <2>. QED
    BY <1>2, <2>1, <2>2, <2>3
<1>4. 1 .. emitted \subseteq 1 .. pos
  BY DEF Types
<1>. QED
  BY <1>2, <1>3, <1>4 DEF Types

\* The row of a BATCH message is inserted: no row that is kept is lost.
LEMMA InsertMessage ==
  ASSUME IInv, OInv, phase = "loading", NEW S \in SUBSET {pos}, Insert(S)
  PROVE  /\ newest' \in [Keys -> {0} \cup Records]
         /\ \A i \in 1 .. pos : Kept(i) \/ i \in S => Kept(i)'
<1>. USE DEF IInv, OInv
<1>1. pos \in Records /\ S \in SUBSET Records /\ pos \in Nat
  BY RecordsAssumption DEF Types, Records, Loading
<1>2. /\ newest' \in [Keys -> {0} \cup Records]
      /\ \A k \in Keys :
            \/ /\ newest'[k] = newest[k]
               /\ \A j \in S : KeyOf[j] # k
            \/ /\ newest'[k] \in S /\ KeyOf[newest'[k]] = k
               /\ \A j \in S : KeyOf[j] = k => newest'[k] >= j
  BY <1>1, InsertKeeps
<1>3. ASSUME NEW i \in 1 .. pos
      PROVE  Kept(i) \/ i \in S => Kept(i)'
  <2>1. KeyOf[i] \in Keys /\ i \in Nat /\ pos >= i
    BY <1>1, RecordsAssumption DEF Records
  <2>2. CASE /\ newest'[KeyOf[i]] = newest[KeyOf[i]]
             /\ \A j \in S : KeyOf[j] # KeyOf[i]
    BY <2>2 DEF Kept
  <2>3. CASE newest'[KeyOf[i]] \in S
    <3>1. newest'[KeyOf[i]] >= i
      BY <2>1, <2>3
    <3>. QED
      BY <3>1 DEF Kept
  <2>. QED
    BY <1>2, <2>1, <2>2, <2>3
<1>. QED
  BY <1>2, <1>3

\* The order of upserts holds initially.
LEMMA InitOInv == Init => OInv
<1>. SUFFICES ASSUME Init PROVE OInv
  OBVIOUS
<1>1. OtherTypes
  BY CapsAssumption DEF Init, OtherTypes, Everywhere
<1>. QED
  BY <1>1, RecordsAssumption
     DEF Init, OInv, Batches, UpClosed, KeptOrPlaced, LastWriteWins, Everywhere

\* Every step keeps it.
LEMMA NextOInv == IInv /\ IInv' /\ OInv /\ [Next]_vars => OInv'
<1>. SUFFICES ASSUME IInv, IInv', OInv, [Next]_vars PROVE OInv'
  OBVIOUS
<1>. USE DEF IInv, OInv
<1>0. CASE /\ UNCHANGED <<cfg, pos, pending, bytes, emitted, newest>>
           /\ phase \in {"loading", "down"} => phase' \in {"loading", "down"}
           /\ faults' \in 0 .. MaxFaults
  <2>1. OtherTypes' /\ Batches' /\ UpClosed' /\ LastWriteWins'
    BY <1>0 DEF OtherTypes, Batches, UpClosed, LastWriteWins
  <2>2. KeptOrPlaced'
    BY <1>0 DEF KeptOrPlaced, Kept
  <2>. QED
    BY <2>1, <2>2
<1>1. CASE ReadRecord
  <2>. DEFINE s == StreamOf[pos + 1]
  <2>1. /\ phase = "reading" /\ pos < N /\ pos + 1 \notin Batched
        /\ pos' = pos + 1
        /\ pending' = [pending EXCEPT ![s] = @ \cup {pos + 1}]
        /\ bytes' = [bytes EXCEPT ![s] = @ + SizeOf[pos + 1]]
        /\ UNCHANGED <<cfg, emitted, newest, faults>>
    BY <1>1 DEF ReadRecord, process_record, tables
  <2>2. pos + 1 \in Records /\ s \in Streams /\ SizeOf[pos + 1] \in Nat
        /\ pos \in Nat /\ emitted \in Nat /\ emitted <= pos
    BY <2>1, RecordsAssumption DEF Types, Records
  <2>3. OtherTypes'
    BY <2>1, <2>2 DEF OtherTypes
  <2>4. ASSUME NEW t \in Streams, NEW j \in pending'[t]
        PROVE  j \in pending[t] \/ (t = s /\ j = pos + 1)
    BY <2>1, <2>2, <2>4 DEF Types
  <2>5. ASSUME NEW t \in Streams, NEW j \in pending[t] PROVE j \in pending'[t]
    BY <2>1, <2>2, <2>5 DEF Types
  <2>6. pos + 1 \in pending'[s]
    BY <2>1, <2>2 DEF Types
  <2>7. Batches'
    <3>. SUFFICES ASSUME NEW t \in Streams, NEW j \in pending'[t]
                  PROVE  /\ j \in emitted + 1 .. pos + 1
                         /\ StreamOf[j] = t /\ j \notin Batched
      BY <2>1 DEF Batches
    <3>1. CASE j \in pending[t]
      BY <3>1, <2>2 DEF Batches
    <3>2. CASE t = s /\ j = pos + 1
      BY <3>2, <2>1, <2>2
    <3>. QED
      BY <3>1, <3>2, <2>4
  <2>8. UpClosed'
    <3>. SUFFICES ASSUME NEW t \in Streams, NEW j \in pending'[t],
                         NEW i \in j .. pos + 1,
                         StreamOf[i] = t, i \notin Batched
                  PROVE  i \in pending'[t]
      BY <2>1 DEF UpClosed
    <3>1. CASE i = pos + 1
      BY <3>1, <2>6
    <3>2. CASE i # pos + 1
      <4>1. j \in pending[t] /\ i \in j .. pos
        BY <3>2, <2>2, <2>4 DEF Batches
      <4>. QED
        BY <4>1, <2>5 DEF UpClosed
    <3>. QED
      BY <3>1, <3>2
  <2>9. KeptOrPlaced'
    <3>. SUFFICES ASSUME NEW i \in 1 .. pos + 1
                  PROVE  Kept(i)' \/ i \in pending'[StreamOf[i]]
      BY <2>1 DEF KeptOrPlaced
    <3>1. CASE i = pos + 1
      BY <3>1, <2>6
    <3>2. CASE i \in 1 .. pos
      <4>1. Kept(i) \/ i \in pending[StreamOf[i]]
        BY <3>2, <2>1 DEF KeptOrPlaced
      <4>2. StreamOf[i] \in Streams
        BY <3>2, <2>2, RecordsAssumption DEF Types, Records
      <4>. QED
        BY <4>1, <4>2, <2>1, <2>5 DEF Kept
    <3>. QED
      BY <3>1, <3>2, <2>2
  <2>10. LastWriteWins'
    BY <2>1 DEF LastWriteWins
  <2>. QED
    BY <2>3, <2>7, <2>8, <2>9, <2>10
<1>2. CASE ReadBatch
  <2>1. /\ phase = "reading" /\ pos + 1 \in Batched
        /\ pos' = pos + 1 /\ phase' = "loading"
        /\ UNCHANGED <<cfg, pending, bytes, emitted, newest, faults>>
    BY <1>2 DEF ReadBatch, sinks, tables
  <2>2. pos \in Nat /\ emitted \in Nat
    BY DEF Types
  <2>3. OtherTypes' /\ LastWriteWins'
    BY <2>1 DEF OtherTypes, LastWriteWins
  <2>4. Batches'
    BY <2>1, <2>2 DEF Batches
  <2>5. UpClosed'
    <3>. SUFFICES ASSUME NEW t \in Streams, NEW j \in pending[t],
                         NEW i \in j .. pos + 1,
                         StreamOf[i] = t, i \notin Batched
                  PROVE  i \in pending[t]
      BY <2>1 DEF UpClosed
    <3>1. i \in j .. pos
      BY <2>1, <2>2 DEF Batches
    <3>. QED
      BY <3>1 DEF UpClosed
  <2>6. KeptOrPlaced'
    <3>. SUFFICES ASSUME NEW i \in 1 .. pos + 1, i # pos + 1
                  PROVE  Kept(i)' \/ i \in pending[StreamOf[i]]
      BY <2>1 DEF KeptOrPlaced
    <3>1. i \in 1 .. pos
      BY <2>2
    <3>. QED
      BY <3>1, <2>1 DEF KeptOrPlaced, Kept
  <2>. QED
    BY <2>3, <2>4, <2>5, <2>6
<1>3. CASE ReadState
  BY <1>0, <1>3 DEF ReadState, sinks, tables, OtherTypes
<1>4. CASE EndOfInput
  BY <1>0, <1>4 DEF EndOfInput, sinks, tables, OtherTypes
<1>5. ASSUME NEW s \in Streams, StartDrain(s) PROVE OInv'
  BY <1>0, <1>5 DEF StartDrain, tables, OtherTypes
<1>6. ASSUME NEW s \in Streams, InsertSucceeds(s) PROVE OInv'
  <2>1. /\ Insert(pending[s])
        /\ pending' = [pending EXCEPT ![s] = {}]
        /\ bytes' = [bytes EXCEPT ![s] = 0]
        /\ phase \in {"loading", "down"} => phase' = phase
        /\ UNCHANGED <<cfg, pos, emitted, faults>>
    BY <1>6 DEF InsertSucceeds, mark_drained
  <2>2. /\ newest' \in [Keys -> {0} \cup Records]
        /\ \A i \in 1 .. pos :
              \/ Kept(i)'
              \/ i \in pending[StreamOf[i]] /\ i \notin pending[s]
              \/ phase \in {"loading", "down"} /\ i = pos
        /\ \A i \in 1 .. emitted : Kept(i)'
    BY <2>1, InsertBatch
  <2>3. \A t \in Streams :
           pending'[t] = IF t = s THEN {} ELSE pending[t]
    BY <2>1 DEF Types
  <2>4. OtherTypes'
    BY <2>1, <2>2 DEF OtherTypes
  <2>5. Batches'
    BY <2>1, <2>3 DEF Batches
  <2>6. UpClosed'
    BY <2>1, <2>3 DEF UpClosed
  <2>7. KeptOrPlaced'
    <3>. SUFFICES ASSUME NEW i \in 1 .. pos
                  PROVE  \/ Kept(i)'
                         \/ i \in pending'[StreamOf[i]]
                         \/ phase' \in {"loading", "down"} /\ i = pos
      BY <2>1 DEF KeptOrPlaced
    <3>1. StreamOf[i] \in Streams
      BY RecordsAssumption DEF Types, Records
    <3>. QED
      BY <3>1, <2>1, <2>2, <2>3
  <2>8. LastWriteWins'
    BY <2>1, <2>2 DEF LastWriteWins, Kept
  <2>. QED
    BY <2>4, <2>5, <2>6, <2>7, <2>8
<1>7. ASSUME NEW s \in Streams, InsertFails(s) PROVE OInv'
  <2>1. /\ phase' \in {phase, "down"}
        /\ UNCHANGED <<cfg, pos, pending, bytes, emitted>>
        /\ faults' \in 0 .. MaxFaults
    BY <1>7, CapsAssumption DEF InsertFails, OtherTypes
  <2>2. PICK S \in SUBSET pending[s] : Insert(S)
    BY <1>7 DEF InsertFails
  <2>3. /\ newest' \in [Keys -> {0} \cup Records]
        /\ \A i \in 1 .. pos :
              \/ Kept(i)'
              \/ i \in pending[StreamOf[i]] /\ i \notin S
              \/ phase \in {"loading", "down"} /\ i = pos
        /\ \A i \in 1 .. emitted : Kept(i)'
    BY <2>2, InsertBatch
  <2>4. OtherTypes'
    BY <2>1, <2>3 DEF OtherTypes
  <2>5. Batches' /\ UpClosed'
    BY <2>1 DEF Batches, UpClosed
  <2>6. KeptOrPlaced'
    BY <2>1, <2>3 DEF KeptOrPlaced
  <2>7. LastWriteWins'
    BY <2>1, <2>3 DEF LastWriteWins, Kept
  <2>. QED
    BY <2>4, <2>5, <2>6, <2>7
<1>8. CASE process_batch_files \/ BatchFails
  <2>1. /\ phase = "loading"
        /\ UNCHANGED <<cfg, pos, pending, bytes, emitted>>
        /\ faults' \in 0 .. MaxFaults
    BY <1>8, CapsAssumption
       DEF process_batch_files, BatchFails, OtherTypes, sinks
  <2>2. PICK S \in SUBSET {pos} :
           /\ Insert(S)
           /\ S = {pos} \/ phase' \in {"loading", "down"}
    BY <1>8 DEF process_batch_files, BatchFails
  <2>3. /\ newest' \in [Keys -> {0} \cup Records]
        /\ \A i \in 1 .. pos : Kept(i) \/ i \in S => Kept(i)'
    BY <2>1, <2>2, InsertMessage
  <2>4. OtherTypes'
    BY <2>1, <2>3 DEF OtherTypes
  <2>5. Batches' /\ UpClosed'
    BY <2>1 DEF Batches, UpClosed
  <2>6. KeptOrPlaced'
    <3>. SUFFICES ASSUME NEW i \in 1 .. pos
                  PROVE  \/ Kept(i)'
                         \/ i \in pending[StreamOf[i]]
                         \/ phase' \in {"loading", "down"} /\ i = pos
      BY <2>1 DEF KeptOrPlaced
    <3>1. CASE i # pos
      BY <3>1, <2>3 DEF KeptOrPlaced
    <3>2. CASE i = pos
      BY <3>2, <2>2, <2>3
    <3>. QED
      BY <3>1, <3>2
  <2>7. LastWriteWins'
    <3>1. \A i \in 1 .. emitted : i \in 1 .. pos /\ Kept(i)
      BY DEF Types, LastWriteWins, Kept
    <3>. QED
      BY <3>1, <2>1, <2>3 DEF LastWriteWins, Kept
  <2>. QED
    BY <2>4, <2>5, <2>6, <2>7
<1>9. CASE WriteState
  <2>1. /\ phase \in {"draining", "finishing"}
        /\ \A s \in Streams : stage[s] = "drained"
        /\ emitted' = held
        /\ UNCHANGED <<cfg, pos, pending, bytes, newest, faults>>
    BY <1>9 DEF WriteState, tables
  <2>2. \A s \in Streams : pending[s] = {}
    BY <2>1 DEF DrainedEmpty
  <2>3. ASSUME NEW i \in 1 .. pos PROVE Kept(i)
    <3>1. StreamOf[i] \in Streams
      BY RecordsAssumption DEF Types, Records
    <3>. QED
      BY <3>1, <2>1, <2>2 DEF KeptOrPlaced
  <2>4. \A i \in 1 .. held : i \in 1 .. pos
    BY DEF Types
  <2>5. OtherTypes'
    BY <2>1 DEF OtherTypes
  <2>6. Batches' /\ UpClosed'
    BY <2>1, <2>2 DEF Batches, UpClosed
  <2>7. KeptOrPlaced'
    BY <2>1, <2>3 DEF KeptOrPlaced, Kept
  <2>8. LastWriteWins'
    BY <2>1, <2>3, <2>4 DEF LastWriteWins, Kept
  <2>. QED
    BY <2>5, <2>6, <2>7, <2>8
<1>10. CASE Restart
  <2>1. /\ pos' = emitted /\ \A s \in Streams : pending'[s] = {}
        /\ bytes' = Everywhere(0)
        /\ UNCHANGED <<cfg, emitted, newest, faults>>
    BY <1>10 DEF Restart, tables, Everywhere
  <2>2. OtherTypes'
    BY <2>1 DEF OtherTypes, Everywhere
  <2>3. Batches' /\ UpClosed'
    BY <2>1 DEF Batches, UpClosed
  <2>4. KeptOrPlaced' /\ LastWriteWins'
    BY <2>1 DEF KeptOrPlaced, LastWriteWins, Kept
  <2>. QED
    BY <2>2, <2>3, <2>4
<1>11. CASE Crash
  <2>1. faults' \in 0 .. MaxFaults
    BY <1>11, CapsAssumption DEF Crash, OtherTypes
  <2>. QED
    BY <1>0, <1>11, <2>1 DEF Crash, tables
<1>12. CASE UNCHANGED vars
  BY <1>0, <1>12 DEF vars, OtherTypes
<1>. QED
  <2>. HIDE DEF OInv, IInv
  <2>. QED
    BY <1>1, <1>2, <1>3, <1>4, <1>5, <1>6, <1>7, <1>8, <1>9, <1>10, <1>11,
       <1>12 DEF Next, Progress

\* Whatever happens, upserts keep their order and the invariant holds.
LEMMA OrderInvariance == Spec => []OInv
<1>1. Init => OInv
  BY InitOInv
<1>2. IInv /\ IInv' /\ OInv /\ [Next]_vars => OInv'
  BY NextOInv
<1>. QED
  BY <1>1, <1>2, Invariance, PTL DEF Spec

\* Every variable keeps its type, and the bookmarks their order.
THEOREM TypeCorrect == Spec => []TypeOK
<1>1. IInv /\ OInv => TypeOK
  BY DEF IInv, OInv, Types, OtherTypes, TypeOK, Phases
<1>. QED
  BY <1>1, Invariance, OrderInvariance, PTL

\* The row a table keeps for a key is the newest one up to the bookmark, or
\* came after a newer one that was in a BATCH message.
THEOREM UpsertsInOrder == Spec => []LastWriteWins
<1>1. OInv => LastWriteWins
  BY DEF OInv
<1>. QED
  BY <1>1, OrderInvariance, PTL
-----------------------------------------------------------------------------
(* The size of a batch.                                                    *)

Below(s) == Cardinality(pending[s]) < cfg.rows /\ bytes[s] < cfg.bytes

\* Only a sink that is being flushed, or was when the run ended, may be full.
Caps ==
  /\ BatchWithinCaps
  /\ \A s \in Streams :
        \/ phase = "down"
        \/ phase = "flushing" /\ stage[s] = "inserting"
        \/ Below(s)

\* The caps hold initially.
LEMMA InitCaps == Init => Caps
<1>. SUFFICES ASSUME Init PROVE Caps
  OBVIOUS
<1>1. /\ cfg.rows \in Nat \ {0} /\ cfg.bytes \in Nat \ {0}
      /\ \A s \in Streams : pending[s] = {} /\ bytes[s] = 0
  BY CapsAssumption DEF Init, Everywhere
<1>2. \A s \in Streams : pending[s] \ {pos} = {} /\ pos \notin pending[s]
  BY <1>1
<1>3. Cardinality({}) = 0
  BY FS_EmptySet
<1>4. \A s \in Streams : Below(s)
  BY <1>1, <1>3 DEF Below
<1>5. BatchWithinCaps
  <2>. SUFFICES ASSUME NEW s \in Streams
                PROVE  /\ Cardinality(pending[s] \ {pos}) < cfg.rows
                       /\ bytes[s] - (IF pos \in pending[s]
                                     THEN SizeOf[pos] ELSE 0) < cfg.bytes
    BY DEF BatchWithinCaps
  <2>1. (IF pos \in pending[s] THEN SizeOf[pos] ELSE 0) = 0
    BY <1>2
  <2>2. Cardinality(pending[s] \ {pos}) = 0 /\ bytes[s] = 0
    BY <1>1, <1>2, <1>3
  <2>. QED
    BY <1>1, <2>1, <2>2
<1>. QED
  BY <1>4, <1>5 DEF Caps

\* Every step keeps them.
LEMMA NextCaps == IInv /\ OInv /\ Caps /\ [Next]_vars => Caps'
<1>. SUFFICES ASSUME IInv, OInv, Caps, [Next]_vars PROVE Caps'
  OBVIOUS
<1>. USE DEF IInv, OInv
<1>0. /\ cfg.rows \in Nat \ {0} /\ cfg.bytes \in Nat \ {0} /\ pos \in Nat
      /\ \A s \in Streams : bytes[s] \in Nat
  <2>1. cfg.rows \in RowCaps /\ cfg.bytes \in ByteCaps
    BY DEF OtherTypes
  <2>. QED
    <3>1. pos \in Nat
      BY RecordsAssumption DEF Types
    <3>2. \A s \in Streams : bytes[s] \in Nat
      BY DEF OtherTypes
    <3>3. cfg.rows \in Nat \ {0} /\ cfg.bytes \in Nat \ {0}
      BY <2>1, CapsAssumption
    <3>. QED
      BY <3>1, <3>2, <3>3
<1>e. Cardinality({}) = 0
  BY FS_EmptySet
<1>1. CASE ReadRecord
  <2>0. PICK s : s = StreamOf[pos + 1]
    OBVIOUS
  <2>1. /\ phase = "reading" /\ pos < N /\ pos' = pos + 1
        /\ pending' = [pending EXCEPT ![s] = @ \cup {pos + 1}]
        /\ bytes' = [bytes EXCEPT ![s] = @ + SizeOf[pos + 1]]
        /\ cfg' = cfg
        /\ \/ /\ phase' = "flushing"
              /\ stage' = [stage EXCEPT ![s] = "inserting"]
           \/ ~is_full(pending'[s], bytes'[s])
    BY <1>1, <2>0 DEF ReadRecord, process_record
  <2>2. pos + 1 \in Records /\ s \in Streams /\ SizeOf[pos + 1] \in Nat
    BY <1>0, <2>0, <2>1, RecordsAssumption DEF Types, Records
  <2>3. ASSUME NEW t \in Streams PROVE Below(t) /\ pos + 1 \notin pending[t]
    BY <1>0, <2>1 DEF Caps, Batches
  <2>4. ASSUME NEW t \in Streams, t # s
        PROVE  pending'[t] = pending[t] /\ bytes'[t] = bytes[t]
    BY <2>1, <2>4 DEF Types, OtherTypes
  <2>5. /\ pending'[s] = pending[s] \cup {pos + 1}
        /\ bytes'[s] = bytes[s] + SizeOf[pos + 1]
    BY <2>1, <2>2 DEF Types, OtherTypes
  <2>6. BatchWithinCaps'
    <3>. SUFFICES ASSUME NEW t \in Streams
                  PROVE  /\ Cardinality(pending'[t] \ {pos + 1}) < cfg.rows
                         /\ bytes'[t] - (IF pos + 1 \in pending'[t]
                                         THEN SizeOf[pos + 1] ELSE 0)
                              < cfg.bytes
      BY <2>1 DEF BatchWithinCaps
    <3>1. pending'[t] \ {pos + 1} = pending[t]
      BY <2>3, <2>4, <2>5
    <3>2. CASE t = s
      <4>1. bytes'[t] - SizeOf[pos + 1] = bytes[t] /\ pos + 1 \in pending'[t]
        BY <3>2, <2>2, <2>5, <1>0
      <4>. QED
        BY <4>1, <3>1, <2>3 DEF Below
    <3>3. CASE t # s
      <4>1. pos + 1 \notin pending'[t] /\ bytes'[t] - 0 = bytes[t]
        BY <3>3, <2>3, <2>4, <1>0
      <4>. QED
        BY <4>1, <3>1, <2>3 DEF Below
    <3>. QED
      BY <3>2, <3>3
  <2>7. CASE /\ phase' = "flushing"
             /\ stage' = [stage EXCEPT ![s] = "inserting"]
    <3>1. \A t \in Streams : t # s => Below(t)'
      BY <2>1, <2>3, <2>4 DEF Below
    <3>2. stage'[s] = "inserting"
      BY <2>7, <2>2 DEF Types
    <3>. QED
      BY <2>6, <2>7, <3>1, <3>2 DEF Caps
  <2>8. CASE ~is_full(pending'[s], bytes'[s])
    <3>1. \A t \in Streams : t # s => Below(t)'
      BY <2>1, <2>3, <2>4 DEF Below
    <3>2. pending'[s] \subseteq Records /\ IsFiniteSet(Records)
      <4>1. IsFiniteSet(Records)
        BY FS_Interval, RecordsAssumption DEF Records
      <4>2. pending[s] \subseteq Records
        BY <2>2 DEF Types
      <4>. QED
        BY <4>1, <4>2, <2>2, <2>5
    <3>3. Cardinality(pending'[s]) \in Nat
      BY <3>2, FS_Subset, FS_CardinalityType
    <3>4. bytes'[s] \in Nat
      BY <1>0, <2>2, <2>5
    <3>5. Below(s)'
      BY <2>1, <2>8, <1>0, <3>3, <3>4 DEF is_full, Below
    <3>. QED
      BY <2>6, <3>1, <3>5 DEF Caps
  <2>. QED
    BY <2>1, <2>7, <2>8
<1>2. CASE ReadBatch
  <2>1. /\ phase = "reading" /\ pos' = pos + 1
        /\ UNCHANGED <<cfg, pending, bytes>>
    BY <1>2 DEF ReadBatch, sinks
  <2>2. ASSUME NEW t \in Streams
        PROVE  /\ Below(t) /\ Below(t)' /\ pos + 1 \notin pending[t]
               /\ pending[t] \ {pos + 1} = pending[t]
    BY <1>0, <2>1 DEF Caps, Batches, Below
  <2>3. \A t \in Streams : bytes[t] - 0 = bytes[t]
    BY <1>0
  <2>4. BatchWithinCaps'
    BY <2>1, <2>2, <2>3 DEF BatchWithinCaps, Below
  <2>. QED
    BY <2>2, <2>4 DEF Caps
<1>3. ASSUME NEW s \in Streams, InsertSucceeds(s) PROVE Caps'
  <2>1. /\ stage[s] = "inserting"
        /\ pending' = [pending EXCEPT ![s] = {}]
        /\ bytes' = [bytes EXCEPT ![s] = 0]
        /\ UNCHANGED <<cfg, pos>>
        /\ phase # "flushing" => phase' = phase
    BY <1>3 DEF InsertSucceeds, mark_drained
  <2>2. pending'[s] = {} /\ bytes'[s] = 0
    BY <2>1 DEF Types, OtherTypes
  <2>3. ASSUME NEW t \in Streams, t # s
        PROVE  pending'[t] = pending[t] /\ bytes'[t] = bytes[t]
    BY <2>1, <2>3 DEF Types, OtherTypes
  <2>4. Below(s)'
    BY <1>0, <1>e, <2>1, <2>2 DEF Below
  <2>5. ASSUME NEW t \in Streams, phase # "down" PROVE Below(t)'
    <3>1. CASE t = s
      BY <3>1, <2>4
    <3>2. CASE t # s
      <4>1. phase = "flushing" => stage[t] = "filling"
        BY <2>1, <3>2 DEF Quiet
      <4>2. Below(t)
        BY <4>1, <2>5 DEF Caps
      <4>. QED
        BY <4>2, <2>1, <2>3, <3>2 DEF Below
    <3>. QED
      BY <3>1, <3>2
  <2>6. BatchWithinCaps'
    <3>. SUFFICES ASSUME NEW t \in Streams
                  PROVE  /\ Cardinality(pending'[t] \ {pos}) < cfg.rows
                         /\ bytes'[t] - (IF pos \in pending'[t]
                                         THEN SizeOf[pos] ELSE 0)
                              < cfg.bytes
      BY <2>1 DEF BatchWithinCaps
    <3>1. CASE t = s
      <4>1. pending'[t] \ {pos} = {} /\ bytes'[t] = 0 /\ pos \notin pending'[t]
        BY <3>1, <2>2
      <4>. QED
        BY <4>1, <1>0, <1>e
    <3>2. CASE t # s
      BY <3>2, <2>3 DEF Caps, BatchWithinCaps
    <3>. QED
      BY <3>1, <3>2
  <2>. QED
    BY <2>1, <2>5, <2>6 DEF Caps
<1>4. CASE Restart
  <2>1. /\ cfg' = cfg
        /\ \A s \in Streams : pending'[s] = {} /\ bytes'[s] = 0
    BY <1>4 DEF Restart, Everywhere
  <2>2. \A s \in Streams : Below(s)'
    BY <1>0, <1>e, <2>1 DEF Below
  <2>3. \A s \in Streams :
           pending'[s] \ {pos'} = {} /\ pos' \notin pending'[s]
    BY <2>1
  <2>4. BatchWithinCaps'
    <3>. SUFFICES ASSUME NEW s \in Streams
                  PROVE  /\ Cardinality(pending'[s] \ {pos'}) < cfg.rows
                         /\ bytes'[s] - (IF pos' \in pending'[s]
                                         THEN SizeOf[pos'] ELSE 0)
                              < cfg.bytes
      BY <2>1 DEF BatchWithinCaps
    <3>1. (IF pos' \in pending'[s] THEN SizeOf[pos'] ELSE 0) = 0
      BY <2>3
    <3>2. Cardinality(pending'[s] \ {pos'}) = 0 /\ bytes'[s] = 0
      BY <1>e, <2>1, <2>3
    <3>. QED
      BY <1>0, <3>1, <3>2
  <2>. QED
    BY <2>2, <2>4 DEF Caps
<1>5. CASE /\ UNCHANGED <<cfg, pos, pending, bytes>>
           /\ \/ phase' = phase /\ UNCHANGED stage
              \/ phase # "flushing"
           /\ phase = "down" => phase' = "down"
  <2>1. BatchWithinCaps'
    BY <1>5 DEF Caps, BatchWithinCaps
  <2>2. \A s \in Streams : Below(s) => Below(s)'
    BY <1>5 DEF Below
  <2>. QED
    BY <1>5, <2>1, <2>2 DEF Caps
<1>6. CASE UNCHANGED <<cfg, pos, pending, bytes>> /\ phase' = "down"
  BY <1>6 DEF Caps, BatchWithinCaps
<1>7. ASSUME NEW s \in Streams, InsertFails(s) PROVE Caps'
  BY <1>5, <1>6, <1>7 DEF InsertFails
<1>8. CASE process_batch_files \/ BatchFails
  BY <1>5, <1>6, <1>8 DEF process_batch_files, BatchFails, sinks
<1>9. ASSUME NEW s \in Streams, StartDrain(s) PROVE Caps'
  BY <1>5, <1>9 DEF StartDrain
<1>10. CASE ReadState
  BY <1>5, <1>10 DEF ReadState, sinks
<1>11. CASE EndOfInput
  BY <1>5, <1>11 DEF EndOfInput, sinks
<1>12. CASE WriteState
  BY <1>5, <1>12 DEF WriteState
<1>13. CASE Crash
  BY <1>6, <1>13 DEF Crash
<1>14. CASE UNCHANGED vars
  BY <1>5, <1>14 DEF vars
<1>. QED
  <2>. HIDE DEF OInv, IInv
  <2>. QED
    BY <1>1, <1>2, <1>3, <1>4, <1>7, <1>8, <1>9, <1>10, <1>11, <1>12, <1>13,
       <1>14 DEF Next, Progress

\* No batch is above the caps but for its last record.
THEOREM BatchesCapped == Spec => []BatchWithinCaps
<1>1. IInv /\ OInv /\ Caps /\ [Next]_vars => Caps'
  BY NextCaps
<1>2. Caps => BatchWithinCaps
  BY DEF Caps
<1>. QED
  BY <1>1, <1>2, InitCaps, Invariance, OrderInvariance, PTL DEF Spec

-----------------------------------------------------------------------------
(* The byte tally.                                                         *)

\* The tally of every batch, as a sum.
Tallied == \A s \in Streams : bytes[s] = SumOver(SizeOf, pending[s])

\* It is the one the property names.
LEMMA TalliedIsTally == Tallied <=> BytesTally
  BY DEF Tallied, BytesTally, SumOver

\* The tally holds initially.
LEMMA InitTallied == Init => Tallied
  BY SumEmpty DEF Init, Tallied, Everywhere

\* Every step keeps it: a record is added to a batch that does not hold it.
LEMMA NextTallied == IInv /\ OInv /\ Tallied /\ [Next]_vars => Tallied'
<1>. SUFFICES ASSUME IInv, OInv, Tallied, [Next]_vars PROVE Tallied'
  OBVIOUS
<1>. USE DEF IInv, OInv
<1>1. CASE ReadRecord
  <2>0. PICK s : s = StreamOf[pos + 1]
    OBVIOUS
  <2>1. /\ pos < N
        /\ pending' = [pending EXCEPT ![s] = @ \cup {pos + 1}]
        /\ bytes' = [bytes EXCEPT ![s] = @ + SizeOf[pos + 1]]
    BY <1>1, <2>0 DEF ReadRecord, process_record
  <2>2. /\ pos + 1 \in Records /\ s \in Streams
        /\ SizeOf \in [Records -> Nat]
    BY <2>0, <2>1, RecordsAssumption DEF Types, Records
  <2>3. pos + 1 \notin pending[s] /\ pending[s] \subseteq Records
    BY <2>2, RecordsAssumption DEF Types, Batches
  <2>4. IsFiniteSet(pending[s])
    <3>1. IsFiniteSet(Records)
      BY FS_Interval, RecordsAssumption DEF Records
    <3>. QED
      BY <3>1, <2>3, FS_Subset
  <2>5. SumOver(SizeOf, pending[s] \cup {pos + 1})
          = SumOver(SizeOf, pending[s]) + SizeOf[pos + 1]
    <3>1. \A i \in pending[s] \cup {pos + 1} : SizeOf[i] \in Nat
      BY <2>2, <2>3
    <3>. QED
      BY <3>1, <2>3, <2>4, SumAdd
  <2>6. ASSUME NEW t \in Streams
        PROVE  bytes'[t] = SumOver(SizeOf, pending'[t])
    <3>1. CASE t = s
      <4>1. /\ bytes'[s] = bytes[s] + SizeOf[pos + 1]
            /\ pending'[s] = pending[s] \cup {pos + 1}
        BY <2>1, <2>2 DEF Types, OtherTypes
      <4>. QED
        BY <3>1, <4>1, <2>2, <2>5 DEF Tallied
    <3>2. CASE t # s
      <4>1. bytes'[t] = bytes[t] /\ pending'[t] = pending[t]
        BY <3>2, <2>1 DEF Types, OtherTypes
      <4>. QED
        BY <4>1 DEF Tallied
    <3>. QED
      BY <3>1, <3>2
  <2>. QED
    BY <2>6 DEF Tallied
<1>2. ASSUME NEW s \in Streams, InsertSucceeds(s) PROVE Tallied'
  <2>1. ASSUME NEW t \in Streams
        PROVE  \/ bytes'[t] = bytes[t] /\ pending'[t] = pending[t]
               \/ bytes'[t] = 0 /\ pending'[t] = {}
    BY <1>2 DEF InsertSucceeds, mark_drained, Types, OtherTypes
  <2>. QED
    BY <2>1, SumEmpty DEF Tallied
<1>3. CASE Restart
  <2>1. \A t \in Streams : bytes'[t] = 0 /\ pending'[t] = {}
    BY <1>3 DEF Restart, Everywhere
  <2>. QED
    BY <2>1, SumEmpty DEF Tallied
<1>4. CASE UNCHANGED <<pending, bytes>>
  BY <1>4 DEF Tallied
<1>. QED
  <2>. HIDE DEF IInv, OInv
  <2>. QED
    BY <1>1, <1>2, <1>3, <1>4
       DEF Next, Progress, vars, sinks, ReadBatch, ReadState, EndOfInput,
           StartDrain, InsertFails, process_batch_files, BatchFails,
           WriteState, Crash

\* The byte tally of a sink is that of its batch, in every run and after every
\* failure.
THEOREM TallyIsRight == Spec => []BytesTally
<1>1. IInv /\ OInv /\ Tallied /\ [Next]_vars => Tallied'
  BY NextTallied
<1>2. Tallied => BytesTally
  BY TalliedIsTally
<1>. QED
  BY <1>1, <1>2, InitTallied, Invariance, OrderInvariance, PTL DEF Spec
=============================================================================
