----------------------- MODULE VersionActivationProofs -----------------------
(***************************************************************************)
(* Proofs about VersionActivation, for any number of rows, versions and    *)
(* calls: an activation reaches no row of a later version, in the end it   *)
(* reaches every row of an older one, and a time of deletion is kept.      *)
(*                                                                         *)
(* Between a call and its effect there is ClickHouse's queue.  The first   *)
(* property needs that every mutation in it is of a version that has been  *)
(* activated, the second that a row which is due is named by one of them   *)
(* until it is removed or marked, and the third that no mutation marks     *)
(* rows before there is a column to mark them in.                          *)
(***************************************************************************)
EXTENDS VersionActivation, SequenceTheorems, TLAPS

Mutations ==
  [hard_delete : BOOLEAN, version : 1 .. MaxVersion,
   deleted_at : 1 .. MaxCalls, rows : SUBSET Rows]

\* What the calls have sent.
Queued ==
  /\ queue \in Seq(Mutations)
  /\ \A i \in 1 .. Len(queue) :
        /\ queue[i].hard_delete = cfg.hard_delete
        /\ queue[i].version <= called
        /\ cfg.hard_delete \/ "deleted" \in columns

\* A call runs on a table, for a version that counts as activated, and step by
\* step.
InCall ==
  /\ pc \in {"version", "deleted", "mutate"} =>
        exists /\ calls > 0 /\ new <= called
  /\ pc = "deleted" => "version" \in columns

\* With metadata the columns are there from the start.
SetUp ==
  /\ ~exists => columns = {}
  /\ cfg.metadata /\ exists => columns = {"version", "deleted"}

\* A row is unmarked, and due for nothing, before it is stored.
RowsOK ==
  \A r \in Rows :
     /\ where[r] \in {"unsent", "pending"} => mark[r] = Null /\ r \notin due
     /\ mark[r] > Epoch => "deleted" \in columns
     /\ cfg.metadata => mark[r] # Epoch

\* A row that is due is removed, marked, or named by a mutation.
DueServed ==
  cfg.hard_delete \/ cfg.metadata =>
     \A r \in due :
        \/ where[r] = "gone" \/ mark[r] > Epoch
        \/ \E i \in 1 .. Len(queue) :
              r \in queue[i].rows /\ version[r] < queue[i].version

IInv ==
  /\ TypeOK
  /\ Queued
  /\ InCall
  /\ SetUp
  /\ RowsOK
  /\ DueServed
  /\ ActiveVersionKept

\* The invariant holds initially.
LEMMA InitIInv == Init => IInv
<1>. SUFFICES ASSUME Init PROVE IInv
  OBVIOUS
<1>. USE BoundsAssumption DEF Null, Epoch
<1>1. TypeOK
  <2>1. /\ 1 \in 1 .. MaxVersion /\ 0 \in 0 .. MaxCalls
        /\ 0 \in 0 .. MaxVersion /\ Null \in Null .. MaxCalls
    OBVIOUS
  <2>2. /\ where \in [Rows -> {"unsent", "pending", "stored", "gone"}]
        /\ version \in [Rows -> 0 .. MaxVersion]
        /\ mark \in [Rows -> Null .. MaxCalls]
    BY <2>1 DEF Init
  <2>. QED
    BY <2>1, <2>2 DEF Init, TypeOK
<1>2. queue \in Seq(Mutations) /\ Len(queue) = 0
  BY EmptySeq DEF Init
<1>3. Queued /\ InCall /\ SetUp
  BY <1>2 DEF Init, Queued, InCall, SetUp
<1>4. RowsOK /\ DueServed /\ ActiveVersionKept
  BY DEF Init, RowsOK, DueServed, ActiveVersionKept
<1>. QED
  BY <1>1, <1>3, <1>4 DEF IInv

\* Every step keeps the invariant.
LEMMA NextIInv == IInv /\ [Next]_vars => IInv'
<1>. SUFFICES ASSUME IInv, [Next]_vars PROVE IInv'
  OBVIOUS
<1>. USE BoundsAssumption DEF IInv, Null, Epoch
<1>0. CASE /\ UNCHANGED <<cfg, exists, columns, where, version, mark, queue,
                          due>>
           /\ TypeOK'
           /\ called' >= called
           /\ InCall'
  <2>0. \A i \in 1 .. Len(queue) : queue[i] \in Mutations
    BY ElementOfSeq DEF Queued
  <2>1. Queued'
    BY <1>0, <2>0 DEF Queued, TypeOK, Mutations
  <2>4. SetUp'
    BY <1>0 DEF SetUp
  <2>2. RowsOK' /\ DueServed'
    BY <1>0 DEF RowsOK, DueServed
  <2>3. ActiveVersionKept'
    BY <1>0 DEF ActiveVersionKept, TypeOK
  <2>. QED
    BY <1>0, <2>1, <2>2, <2>3, <2>4
<1>1. CASE NewVersion
  <2>1. TypeOK' /\ InCall'
    BY <1>1 DEF NewVersion, TypeOK, InCall, table
  <2>. QED
    BY <1>0, <1>1, <2>1 DEF NewVersion, table, TypeOK
<1>2. CASE Setup
  <2>1. /\ pc = "idle" /\ ~exists /\ exists' = TRUE
        /\ columns' = IF cfg.metadata THEN {"version", "deleted"} ELSE {}
        /\ UNCHANGED <<cfg, pc, current, version, new, calls, where, mark,
                       queue, called, due>>
    BY <1>2 DEF Setup, tap
  <2>2. TypeOK'
    BY <2>1 DEF TypeOK
  <2>3. columns = {}
    BY <2>1 DEF SetUp
  <2>4. Queued' /\ InCall' /\ SetUp'
    BY <2>1, <2>3 DEF Queued, InCall, SetUp
  <2>5. RowsOK' /\ DueServed' /\ ActiveVersionKept'
    BY <2>1, <2>3 DEF RowsOK, DueServed, ActiveVersionKept
  <2>. QED
    BY <2>2, <2>4, <2>5
<1>3. CASE Drain
  <2>1. /\ pc = "idle" /\ exists
        /\ where' = [r \in Rows |->
             IF where[r] = "pending" THEN "stored" ELSE where[r]]
        /\ mark' = [r \in Rows |->
             IF where[r] = "pending" THEN Unmarked ELSE mark[r]]
        /\ UNCHANGED <<cfg, pc, current, version, new, calls, exists, columns,
                       queue, called, due>>
    BY <1>3 DEF Drain, Move, tap
  <2>2. /\ Unmarked \in {Null, Epoch}
        /\ cfg.metadata => Unmarked = Null
    BY DEF Unmarked
  <2>3. TypeOK'
    BY <2>1, <2>2 DEF TypeOK
  <2>4. Queued' /\ InCall' /\ SetUp'
    BY <2>1 DEF Queued, InCall, SetUp
  <2>5. RowsOK'
    BY <2>1, <2>2 DEF RowsOK
  <2>6. ASSUME NEW r \in Rows
        PROVE  /\ where[r] = "gone" <=> where'[r] = "gone"
               /\ mark[r] > Epoch <=> mark'[r] > Epoch
    BY <2>1, <2>2 DEF RowsOK
  <2>7. DueServed' /\ ActiveVersionKept'
    BY <2>1, <2>6 DEF DueServed, ActiveVersionKept, TypeOK
  <2>. QED
    BY <2>3, <2>4, <2>5, <2>7
<1>4. ASSUME NEW r \in Rows, Record(r) PROVE IInv'
  <2>1. /\ pc = "idle" /\ where[r] = "unsent"
        /\ where' = [where EXCEPT ![r] = "pending"]
        /\ version' = [version EXCEPT ![r] = current]
        /\ UNCHANGED <<cfg, pc, current, new, calls, exists, columns, mark,
                       queue, called, due>>
    BY <1>4 DEF Record
  <2>2. TypeOK'
    BY <2>1 DEF TypeOK
  <2>3. Queued' /\ InCall' /\ SetUp'
    BY <2>1 DEF Queued, InCall, SetUp
  <2>4. RowsOK'
    BY <2>1 DEF RowsOK, TypeOK
  <2>5. mark[r] = Null /\ r \notin due
    BY <2>1 DEF RowsOK
  <2>6. DueServed'
    BY <2>1, <2>5 DEF DueServed, TypeOK
  <2>7. ActiveVersionKept'
    BY <2>1, <2>5 DEF ActiveVersionKept, TypeOK
  <2>. QED
    BY <2>2, <2>3, <2>4, <2>6, <2>7
<1>5. CASE activate_version
  <2>1. /\ called' >= called /\ current <= called'
        /\ called' \in 0 .. MaxVersion
    BY <1>5 DEF activate_version, TypeOK
  <2>2. TypeOK' /\ InCall'
    BY <1>5, <2>1 DEF activate_version, TypeOK, InCall, tap, table
  <2>. QED
    BY <1>0, <1>5, <2>1, <2>2 DEF activate_version, tap, table
<1>6. CASE AddVersionColumn
  <2>1. /\ pc = "version" /\ columns' = columns \cup {"version"}
        /\ pc' = IF cfg.hard_delete THEN "mutate" ELSE "deleted"
        /\ UNCHANGED <<cfg, current, version, new, calls, exists, where, mark,
                       queue, called, due>>
    BY <1>6 DEF AddVersionColumn, tap
  <2>2. TypeOK'
    BY <2>1 DEF TypeOK
  <2>3. Queued' /\ InCall' /\ SetUp'
    BY <2>1 DEF Queued, InCall, SetUp
  <2>4. RowsOK' /\ DueServed' /\ ActiveVersionKept'
    BY <2>1 DEF RowsOK, DueServed, ActiveVersionKept
  <2>. QED
    BY <2>2, <2>3, <2>4
<1>7. CASE AddDeletedColumn
  <2>1. /\ pc = "deleted" /\ pc' = "mutate"
        /\ columns' = columns \cup {"deleted"}
        /\ mark' = IF "deleted" \in columns THEN mark
                   ELSE [r \in Rows |-> IF r \in Stored THEN Epoch ELSE mark[r]]
        /\ UNCHANGED <<cfg, current, version, new, calls, exists, where, queue,
                       called, due>>
    BY <1>7 DEF AddDeletedColumn, tap
  <2>2. exists
    BY <2>1 DEF InCall
  <2>3. ASSUME NEW r \in Rows
        PROVE  /\ where[r] \in {"unsent", "pending"} => mark'[r] = mark[r]
               /\ cfg.metadata => mark'[r] = mark[r]
               /\ mark'[r] \in {mark[r], Epoch}
               /\ mark[r] > Epoch <=> mark'[r] > Epoch
    <3>1. CASE "deleted" \in columns
      BY <2>1, <3>1
    <3>2. CASE "deleted" \notin columns
      <4>1. ~cfg.metadata /\ ~(mark[r] > Epoch)
        BY <2>2, <3>2 DEF SetUp, RowsOK
      <4>2. mark'[r] = IF where[r] = "stored" THEN Epoch ELSE mark[r]
        BY <2>1, <3>2 DEF Stored
      <4>. QED
        BY <4>1, <4>2
    <3>. QED
      BY <3>1, <3>2
  <2>4. TypeOK'
    <3>1. mark' \in [Rows -> Null .. MaxCalls]
      BY <2>1 DEF TypeOK
    <3>2. "version" \in columns
      BY <2>1 DEF InCall
    <3>. QED
      BY <2>1, <3>1, <3>2 DEF TypeOK
  <2>5. Queued' /\ InCall' /\ SetUp'
    BY <2>1 DEF Queued, InCall, SetUp
  <2>6. RowsOK'
    BY <2>1, <2>3 DEF RowsOK
  <2>7. DueServed' /\ ActiveVersionKept'
    BY <2>1, <2>3 DEF DueServed, ActiveVersionKept, TypeOK
  <2>. QED
    BY <2>4, <2>5, <2>6, <2>7
<1>8. CASE Mutate
  <2>1. /\ pc = "mutate" /\ queue' = Append(queue, Mutation)
        /\ pc' \in {"idle", "down"}
        /\ due' \subseteq due \cup {r \in Stored : version[r] < new}
        /\ UNCHANGED <<cfg, current, version, new, calls, exists, columns,
                       where, mark, called>>
    BY <1>8 DEF Mutate, tap
  <2>2. /\ Mutation \in Mutations /\ Mutation.version = new
        /\ Mutation.hard_delete = cfg.hard_delete /\ Mutation.rows = Stored
        /\ new <= called
        /\ cfg.hard_delete \/ "deleted" \in columns
    BY <2>1 DEF InCall, TypeOK, Mutation, Mutations, Stored
  <2>3. /\ queue' \in Seq(Mutations) /\ Len(queue') = Len(queue) + 1
        /\ \A i \in 1 .. Len(queue) : queue'[i] = queue[i]
        /\ queue'[Len(queue) + 1] = Mutation /\ Len(queue) \in Nat
    BY <2>1, <2>2, AppendProperties, LenProperties DEF Queued
  <2>4. \A i \in 1 .. Len(queue') : i \in 1 .. Len(queue) \/ i = Len(queue) + 1
    BY <2>3
  <2>5. TypeOK'
    BY <2>1 DEF TypeOK, Stored
  <2>6. Queued'
    BY <2>1, <2>2, <2>3, <2>4 DEF Queued
  <2>7. InCall' /\ SetUp'
    BY <2>1 DEF InCall, SetUp
  <2>8. RowsOK'
    BY <2>1 DEF RowsOK, Stored
  <2>9. DueServed'
    <3>. SUFFICES ASSUME cfg.hard_delete \/ cfg.metadata, NEW r \in due'
                  PROVE  \/ where[r] = "gone" \/ mark[r] > Epoch
                         \/ \E i \in 1 .. Len(queue') :
                               /\ r \in queue'[i].rows
                               /\ version[r] < queue'[i].version
      BY <2>1 DEF DueServed
    <3>1. CASE r \in due
      BY <3>1, <2>3 DEF DueServed
    <3>2. CASE r \in Stored /\ version[r] < new
      BY <3>2, <2>2, <2>3
    <3>. QED
      BY <2>1, <3>1, <3>2
  <2>10. ActiveVersionKept'
    BY <2>1 DEF ActiveVersionKept
  <2>. QED
    BY <2>5, <2>6, <2>7, <2>8, <2>9, <2>10
<1>9. CASE ApplyMutation
  <2>. DEFINE m == Head(queue)
  <2>1. /\ queue # <<>> /\ queue' = Tail(queue)
        /\ UNCHANGED <<cfg, pc, current, version, new, calls, exists, columns,
                       called, due>>
    BY <1>9 DEF ApplyMutation, tap
  <2>2. /\ queue' \in Seq(Mutations) /\ Len(queue') = Len(queue) - 1
        /\ Len(queue) \in Nat \ {0} /\ m = queue[1] /\ m \in Mutations
        /\ \A i \in 1 .. Len(queue') : queue'[i] = queue[i + 1]
    BY <2>1, HeadTailProperties, EmptySeq DEF Queued
  <2>3. /\ m.hard_delete = cfg.hard_delete /\ m.version <= called
        /\ cfg.hard_delete \/ "deleted" \in columns
        /\ m.version \in Nat /\ m.deleted_at \in 1 .. MaxCalls
    BY <2>2 DEF Queued, Mutations
  <2>4. /\ cfg.hard_delete =>
             /\ where' = [r \in Rows |->
                            IF r \in ToDelete(m) THEN "gone" ELSE where[r]]
             /\ mark' = mark
        /\ ~cfg.hard_delete =>
             /\ mark' = [r \in Rows |->
                           IF r \in ToMark(m) THEN m.deleted_at ELSE mark[r]]
             /\ where' = where
    BY <1>9, <2>3 DEF ApplyMutation
  <2>5. ASSUME NEW r \in Rows
        PROVE  /\ \/ where'[r] = where[r]
                  \/ where'[r] = "gone" /\ r \in ToDelete(m)
               /\ \/ mark'[r] = mark[r]
                  \/ /\ mark'[r] = m.deleted_at /\ r \in ToMark(m)
                     /\ "deleted" \in columns
    BY <2>3, <2>4
  <2>6. TypeOK'
    <3>1. where' \in [Rows -> {"unsent", "pending", "stored", "gone"}]
      BY <2>4 DEF TypeOK
    <3>2. mark' \in [Rows -> Null .. MaxCalls]
      BY <2>3, <2>4 DEF TypeOK
    <3>. QED
      BY <2>1, <3>1, <3>2 DEF TypeOK
  <2>7. Queued'
    <3>1. \A i \in 1 .. Len(queue') : i + 1 \in 1 .. Len(queue)
      BY <2>2
    <3>. QED
      BY <2>1, <2>2, <3>1 DEF Queued
  <2>8. InCall' /\ SetUp'
    BY <2>1 DEF InCall, SetUp
  <2>9. RowsOK'
    BY <2>1, <2>3, <2>5 DEF RowsOK, ToDelete, ToMark, Stored
  <2>10. ActiveVersionKept'
    <3>. SUFFICES ASSUME cfg.metadata, NEW r \in Rows
                  PROVE  /\ mark'[r] > Epoch => version[r] < called
                         /\ where'[r] = "gone" => version[r] <= called
      BY <2>1 DEF ActiveVersionKept
    <3>1. version[r] \in Nat /\ called \in Nat
      BY DEF TypeOK
    <3>2. TableVersion(r) = version[r]
      BY DEF TableVersion
    <3>. QED
      BY <2>3, <2>5, <3>1, <3>2 DEF ActiveVersionKept, ToDelete, ToMark
  <2>11. DueServed'
    <3>. SUFFICES ASSUME cfg.hard_delete \/ cfg.metadata, NEW r \in due,
                         where[r] # "gone", ~(mark[r] > Epoch)
                  PROVE  \/ where'[r] = "gone" \/ mark'[r] > Epoch
                         \/ \E i \in 1 .. Len(queue') :
                               /\ r \in queue'[i].rows
                               /\ version[r] < queue'[i].version
      <4>1. \A r \in due : r \in Rows
        BY DEF TypeOK
      <4>2. \A r \in due : where[r] = "gone" => where'[r] = "gone"
        BY <2>5, <4>1
      <4>3. \A r \in due : mark[r] > Epoch => mark'[r] > Epoch
        BY <2>3, <2>5, <4>1
      <4>. QED
        BY <2>1, <4>2, <4>3 DEF DueServed
    <3>1. PICK i \in 1 .. Len(queue) :
             r \in queue[i].rows /\ version[r] < queue[i].version
      BY DEF DueServed
    <3>2. r \in Rows /\ version[r] \in Nat /\ where[r] = "stored"
      BY DEF TypeOK, RowsOK
    <3>3. CASE i = 1
      <4>1. r \in m.rows \cap Stored /\ version[r] < m.version
        BY <3>1, <3>2, <3>3, <2>2 DEF Stored
      <4>2. TableVersion(r) \in {0, version[r]}
        BY DEF TableVersion
      <4>3. CASE cfg.hard_delete
        <5>1. r \in ToDelete(m)
          BY <4>1, <4>2, <3>2, <2>3 DEF ToDelete
        <5>. QED
          BY <5>1, <4>3, <3>2, <2>4
      <4>4. CASE ~cfg.hard_delete
        <5>1. mark[r] = Null
          BY <4>4, <3>2 DEF RowsOK, TypeOK
        <5>2. r \in ToMark(m)
          BY <5>1, <4>1, <4>2, <3>2, <2>3 DEF ToMark
        <5>. QED
          BY <5>2, <4>4, <3>2, <2>3, <2>4
      <4>. QED
        BY <4>3, <4>4
    <3>4. CASE i # 1
      <4>1. i - 1 \in 1 .. Len(queue') /\ queue'[i - 1] = queue[i]
        BY <3>1, <3>4, <2>2
      <4>. QED
        BY <3>1, <4>1
    <3>. QED
      BY <3>3, <3>4
  <2>. QED
    BY <2>6, <2>7, <2>8, <2>9, <2>10, <2>11
<1>10. CASE Crash
  <2>1. TypeOK' /\ InCall'
    BY <1>10 DEF Crash, TypeOK, InCall, tap, table
  <2>. QED
    BY <1>0, <1>10, <2>1 DEF Crash, tap, table, TypeOK
<1>11. CASE Restart
  <2>1. /\ pc' = "idle" /\ current' \in 1 .. current /\ new' = current'
        /\ where' = [r \in Rows |->
             IF where[r] = "pending" THEN "unsent" ELSE where[r]]
        /\ version' = [r \in Rows |->
             IF where[r] = "pending" THEN 0 ELSE version[r]]
        /\ UNCHANGED <<cfg, calls, exists, columns, mark, queue, called, due>>
    BY <1>11 DEF Restart, Move
  <2>2. TypeOK'
    BY <2>1 DEF TypeOK
  <2>3. Queued' /\ InCall' /\ SetUp'
    BY <2>1 DEF Queued, InCall, SetUp
  <2>4. RowsOK'
    BY <2>1 DEF RowsOK
  <2>5. ASSUME NEW r \in Rows
        PROVE  /\ where[r] = "gone" <=> where'[r] = "gone"
               /\ r \in due \/ mark[r] > Epoch \/ where[r] = "gone" =>
                     version'[r] = version[r]
    BY <2>1 DEF RowsOK
  <2>6. DueServed'
    BY <2>1, <2>5 DEF DueServed, TypeOK
  <2>7. ActiveVersionKept'
    BY <2>1, <2>5 DEF ActiveVersionKept
  <2>. QED
    BY <2>2, <2>3, <2>4, <2>6, <2>7
<1>12. CASE UNCHANGED vars
  <2>1. TypeOK' /\ InCall'
    BY <1>12 DEF vars, TypeOK, InCall
  <2>. QED
    BY <1>0, <1>12, <2>1 DEF vars, TypeOK
<1>. QED
  <2>. HIDE DEF IInv
  <2>. QED
    BY <1>1, <1>2, <1>3, <1>4, <1>5, <1>6, <1>7, <1>8, <1>9, <1>10, <1>11,
       <1>12 DEF Next, Activating

\* The invariant holds of every behaviour.
THEOREM Invariance == Spec => []IInv
  BY InitIInv, NextIInv, PTL DEF Spec

-----------------------------------------------------------------------------
(* The theorems.                                                           *)

\* Every variable keeps its type, and the columns a mutation names exist.
THEOREM TypeCorrect == Spec => []TypeOK
<1>1. IInv => TypeOK
  BY DEF IInv
<1>. QED
  BY <1>1, Invariance, PTL

\* No activation reaches a row of a later version.
THEOREM NoneTooFar == Spec => []ActiveVersionKept
<1>1. IInv => ActiveVersionKept
  BY DEF IInv
<1>. QED
  BY <1>1, Invariance, PTL

\* When the mutations are applied, no row of an older version is left.
THEOREM NoneForgotten == Spec => []OlderVersionsLeave
<1>1. IInv => OlderVersionsLeave
  <2>1. queue = <<>> => Len(queue) = 0
    BY EmptySeq
  <2>. QED
    BY <2>1 DEF IInv, DueServed, OlderVersionsLeave
<1>. QED
  BY <1>1, Invariance, PTL

\* A row keeps the time of the deletion that marked it.
THEOREM TimesKept == Spec => DeletionTimeKept
<1>1. IInv /\ [Next]_vars =>
         [\A r \in Rows : mark[r] > Epoch => mark'[r] = mark[r]]_vars
  <2>. SUFFICES ASSUME IInv, Next, NEW r \in Rows, mark[r] > Epoch
                PROVE  mark'[r] = mark[r]
    OBVIOUS
  <2>. USE DEF Epoch, Null
  <2>1. /\ mark[r] # Null /\ "deleted" \in columns
        /\ where[r] # "pending"
    BY DEF IInv, RowsOK
  <2>2. CASE Drain
    BY <2>1, <2>2 DEF Drain
  <2>3. CASE AddDeletedColumn
    BY <2>1, <2>3 DEF AddDeletedColumn
  <2>4. CASE ApplyMutation
    BY <2>1, <2>4 DEF ApplyMutation, ToMark
  <2>5. CASE UNCHANGED mark
    BY <2>5
  <2>. QED
    BY <2>2, <2>3, <2>4, <2>5
       DEF Next, Activating, NewVersion, Setup, Record, activate_version,
           AddVersionColumn, Mutate, Crash, Restart, table
<1>. QED
  BY <1>1, Invariance, PTL DEF Spec, DeletionTimeKept
=============================================================================
