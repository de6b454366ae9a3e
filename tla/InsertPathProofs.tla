-------------------------- MODULE InsertPathProofs --------------------------
(***************************************************************************)
(* Proofs, for any finite set of rows and any number of tries, of the      *)
(* safety properties of InsertPath and of its refinement of BulkLoad.      *)
(*                                                                         *)
(* None of the properties about copies is inductive: that a row is stored  *)
(* at most twice after a call only holds because, while the call is still  *)
(* inserting, each copy there is was left by an insert that failed, and    *)
(* because, unless a ConnectionError can do that too, at most one insert   *)
(* fails that way before each fallback.  The invariant Inserting says so.  *)
(***************************************************************************)
EXTENDS InsertPath, TLAPS, FiniteSetTheorems

\* The states of a call whose rows have not been acknowledged yet.
Unacknowledged == Fast \cup {"alchemy", "native"}

\* The inserts that may have failed, and the attempts they may have taken,
\* before the call reached the insert it is at.
FailedBefore ==
  CASE pc = "columns" /\ entry = "arrow" -> 1
    [] pc = "alchemy" /\ entry = "arrow" -> 2
    [] pc = "alchemy" /\ entry # "arrow" -> 1
    [] OTHER                             -> 0

SpentBefore ==
  CASE pc = "arrow"                      -> tries
    [] pc = "columns" /\ entry = "arrow" -> cfg.tries + tries
    [] pc = "columns" /\ entry # "arrow" -> tries
    [] pc = "alchemy" /\ entry = "arrow" -> 2 * cfg.tries
    [] pc = "alchemy" /\ entry # "arrow" -> cfg.tries
    [] OTHER                             -> 0

Inserting ==
  pc \in Unacknowledged =>
     /\ \A r \in Rows : copies[r] <= unclear
     /\ ~cfg.aborts => unclear <= FailedBefore
     /\ Limited => attempts <= SpentBefore

RightEntry == pc \in {"arrow", "native"} => entry = "arrow"

OnlyTheBatch == \A r \in Rows \ batch : copies[r] = 0

RightCount ==
  pc \in {"optimize", "returned"} =>
     \/ result = Cardinality(batch)
     \/ entry = "records" /\ result = Undetermined

IInv ==
  /\ TypeOK
  /\ Inserting
  /\ RightEntry
  /\ OnlyTheBatch
  /\ RightCount
  /\ StoredWhenReturned
  /\ DuplicateNeedsLostReply
  /\ CopiesBounded
  /\ AttemptBudget
  /\ OptimizedAfterRecords

-----------------------------------------------------------------------------
\* A batch has at most as many rows as there are.
LEMMA Counts ==
  ASSUME NEW S \in SUBSET Rows
  PROVE  /\ Cardinality(S) \in Nat
         /\ Cardinality(Rows) \in Nat
         /\ Cardinality(S) <= Cardinality(Rows)
BY RowsAssumption, FS_Subset, FS_CardinalityType

\* The parts of the invariant that only speak of what the call has stored.
Stored ==
  /\ RightEntry
  /\ OnlyTheBatch
  /\ RightCount
  /\ StoredWhenReturned
  /\ DuplicateNeedsLostReply
  /\ CopiesBounded
  /\ AttemptBudget
  /\ OptimizedAfterRecords

\* The invariant holds before the first call.
LEMMA InitIInv == Init => IInv
<1> SUFFICES ASSUME Init PROVE IInv
  OBVIOUS
<1>0. Cardinality(Rows) \in Nat
  BY RowsAssumption, FS_CardinalityType
<1>1. TypeOK
  <2>1. optimized \in BOOLEAN
    BY Zenon DEF Init
  <2>2. /\ tries \in 0 .. MaxTries /\ (Limited => tries < cfg.tries)
        /\ result \in Undetermined .. Cardinality(Rows)
    BY <1>0, TriesAssumption DEF Init, Undetermined, Settings, Limited
  <2>3. copies \in [Rows -> Nat] /\ attempts \in Nat /\ unclear \in Nat
    BY DEF Init
  <2>. QED
    BY <2>1, <2>2, <2>3 DEF Init, TypeOK, Settings, Fast, Busy, Undetermined
<1>2. Inserting
  BY DEF Init, Inserting, Unacknowledged, Fast
<1>3. Stored
  <2>1. cfg.tries \in Nat
    BY TriesAssumption DEF Init, Settings
  <2>. QED
    BY <2>1
       DEF Init, Stored, RightEntry, OnlyTheBatch, RightCount,
         StoredWhenReturned, DuplicateNeedsLostReply, CopiesBounded,
         AttemptBudget, Budget, OptimizedAfterRecords
<1>. QED
  BY <1>1, <1>2, <1>3 DEF IInv, Stored

\* A call starts with counters of its own, so the invariant holds of any call
\* that starts at an insert it may start at.
LEMMA CallIInv ==
  ASSUME IInv,
         NEW e \in {"records", "arrow"}, NEW b \in SUBSET Rows,
         NEW start \in Unacknowledged \cup {"returned"},
         Call(e, b, start),
         start \in {"arrow", "native"} => e = "arrow",
         start = "returned" => e = "arrow" /\ b = {}
  PROVE  IInv'
<1>0. Cardinality(Rows) \in Nat
  BY RowsAssumption, FS_CardinalityType
<1>1. cfg.tries \in Nat
  BY TriesAssumption DEF IInv, TypeOK, Settings
<1>2. TypeOK'
  <2>1. optimized' \in BOOLEAN
    BY Zenon DEF Call
  <2>2. /\ tries' \in 0 .. MaxTries /\ (Limited => tries < cfg.tries)'
        /\ result' \in Undetermined .. Cardinality(Rows)
    BY <1>0, <1>1, TriesAssumption DEF Call, Undetermined, Limited
  <2>3. copies' \in [Rows -> Nat] /\ attempts' \in Nat /\ unclear' \in Nat
    BY DEF Call
  <2>. QED
    BY <2>1, <2>2, <2>3
       DEF IInv, Call, Unacknowledged, TypeOK, Settings, Fast, Busy,
         Undetermined
<1>3. Inserting'
  BY <1>1 DEF Call, Fast, Inserting, Unacknowledged, FailedBefore, SpentBefore
<1>4. Stored'
  <2>1. RightEntry' /\ OnlyTheBatch' /\ RightCount' /\ StoredWhenReturned'
    BY FS_EmptySet
       DEF Call, Unacknowledged, Fast, RightEntry, OnlyTheBatch, RightCount,
         StoredWhenReturned
  <2>2. DuplicateNeedsLostReply' /\ CopiesBounded' /\ OptimizedAfterRecords'
    BY DEF Call, Unacknowledged, Fast, DuplicateNeedsLostReply, CopiesBounded,
         OptimizedAfterRecords
  <2>3. AttemptBudget'
    BY <1>1 DEF Call, AttemptBudget, Budget
  <2>. QED
    BY <2>1, <2>2, <2>3 DEF Stored
<1>. QED
  BY <1>2, <1>3, <1>4 DEF IInv, Stored

\* Every step keeps the invariant.
LEMMA NextIInv == IInv /\ [Next]_vars => IInv'
<1> SUFFICES ASSUME IInv, [Next]_vars PROVE IInv'
  OBVIOUS
<1>0. /\ Cardinality(batch) \in Nat /\ Cardinality(Rows) \in Nat
      /\ Cardinality(batch) <= Cardinality(Rows)
      /\ cfg.tries \in Nat /\ cfg.tries <= MaxTries /\ MaxTries \in Nat \ {0}
  BY Counts, TriesAssumption DEF IInv, TypeOK, Settings
<1>1. CASE bulk_insert_records
  <2>1. PICK b \in SUBSET Rows : Call("records", b, BulkStart)
    BY <1>1 DEF bulk_insert_records
  <2>2. BulkStart \in {"columns", "alchemy"}
    BY DEF BulkStart
  <2>. QED
    BY <2>1, <2>2, CallIInv DEF Unacknowledged, Fast
<1>2. CASE insert_arrow_table
  <2>1. PICK b \in SUBSET Rows :
          Call("arrow", b, IF b = {} THEN "returned" ELSE ArrowStart)
    BY <1>2 DEF insert_arrow_table
  <2>2. ArrowStart \in {"arrow", "native", "columns", "alchemy"}
    BY DEF ArrowStart, BulkStart
  <2>. QED
    BY <2>1, <2>2, CallIInv DEF Unacknowledged, Fast
<1> USE DEF IInv, TypeOK, Limited, Settings, Fast, Busy, Undetermined
<1>3. CASE BuildClient
  <2>1. TypeOK'
    BY <1>0, <1>3 DEF BuildClient, Inserting
  <2>2. Inserting'
    BY <1>0, <1>3
       DEF BuildClient, RightEntry, Inserting, Unacknowledged, FailedBefore,
         SpentBefore
  <2>3. Stored'
    BY <1>0, <1>3
       DEF BuildClient, Stored, Inserting, Unacknowledged, FailedBefore,
         SpentBefore, RightEntry, OnlyTheBatch, RightCount,
         StoredWhenReturned, DuplicateNeedsLostReply, CopiesBounded,
         AttemptBudget, Budget, OptimizedAfterRecords
  <2>. QED
    BY <2>1, <2>2, <2>3 DEF Stored
<1>4. CASE ArrowInsertSucceeds
  <2>1. TypeOK'
    BY <1>0, <1>4
       DEF ArrowInsertSucceeds, Insert, Acknowledged, InsertSettings,
         Inserting
  <2>2. Inserting'
    BY <1>0, <1>4
       DEF ArrowInsertSucceeds, Insert, Acknowledged, InsertSettings,
         RightEntry, Inserting, Unacknowledged, FailedBefore, SpentBefore
  <2>3. Stored'
    BY <1>0, <1>4
       DEF ArrowInsertSucceeds, Insert, Acknowledged, InsertSettings, Stored,
         Inserting, Unacknowledged, FailedBefore, SpentBefore, RightEntry,
         OnlyTheBatch, RightCount, StoredWhenReturned,
         DuplicateNeedsLostReply, CopiesBounded, AttemptBudget, Budget,
         OptimizedAfterRecords
  <2>. QED
    BY <2>1, <2>2, <2>3 DEF Stored
<1>5. CASE ColumnarInsertSucceeds
  <2>1. TypeOK'
    BY <1>0, <1>5
       DEF ColumnarInsertSucceeds, Inserted, Insert, Acknowledged,
         InsertSettings, Inserting
  <2>2. Inserting'
    BY <1>0, <1>5
       DEF ColumnarInsertSucceeds, Inserted, Insert, Acknowledged,
         InsertSettings, RightEntry, Inserting, Unacknowledged, FailedBefore,
         SpentBefore
  <2>3. Stored'
    BY <1>0, <1>5
       DEF ColumnarInsertSucceeds, Inserted, Insert, Acknowledged,
         InsertSettings, Stored, Inserting, Unacknowledged, FailedBefore,
         SpentBefore, RightEntry, OnlyTheBatch, RightCount,
         StoredWhenReturned, DuplicateNeedsLostReply, CopiesBounded,
         AttemptBudget, Budget, OptimizedAfterRecords
  <2>. QED
    BY <2>1, <2>2, <2>3 DEF Stored
<1>6. CASE ConnectionFails
  <2>0. PICK S \in SUBSET batch :
          /\ FailedInsert(S)
          /\ ~cfg.aborts => S = {}
    BY <1>6 DEF ConnectionFails, Leftovers
  <2>1. TypeOK'
    <3>1. optimized' \in BOOLEAN
      BY <2>0, Zenon DEF FailedInsert, Insert
    <3>2. /\ tries' \in 0 .. MaxTries /\ (Limited => tries < cfg.tries)'
          /\ pc' \in {"arrow", "columns", "alchemy"}
      BY <1>0, <1>6
         DEF ConnectionFails, TryAgain, FallBack, BulkStart, Inserting,
           Unacknowledged
    <3>3. copies' \in [Rows -> Nat] /\ attempts' \in Nat /\ unclear' \in Nat
      BY <2>0 DEF FailedInsert, Insert
    <3>. QED
      BY <1>6, <3>1, <3>2, <3>3 DEF ConnectionFails
  <2>2. Inserting'
    BY <1>0, <1>6, <2>0
       DEF ConnectionFails, FailedInsert, Insert, TryAgain, FallBack,
         BulkStart, RightEntry, Inserting, Unacknowledged, FailedBefore,
         SpentBefore
  <2>3. Stored'
    BY <1>0, <1>6, <2>0
       DEF ConnectionFails, FailedInsert, Insert, TryAgain, FallBack,
         BulkStart, Stored, Inserting, Unacknowledged, FailedBefore,
         SpentBefore, RightEntry, OnlyTheBatch, RightCount,
         StoredWhenReturned, DuplicateNeedsLostReply, CopiesBounded,
         AttemptBudget, Budget, OptimizedAfterRecords
  <2>. QED
    BY <2>1, <2>2, <2>3 DEF Stored
<1>7. CASE FastInsertFails
  <2>1. TypeOK'
    BY <1>0, <1>7
       DEF FastInsertFails, Leftovers, FailedInsert, Insert, FallBack,
         BulkStart, Inserting
  <2>2. Inserting'
    BY <1>0, <1>7
       DEF FastInsertFails, Leftovers, FailedInsert, Insert, FallBack,
         BulkStart, RightEntry, Inserting, Unacknowledged, FailedBefore,
         SpentBefore
  <2>3. Stored'
    BY <1>0, <1>7
       DEF FastInsertFails, Leftovers, FailedInsert, Insert, FallBack,
         BulkStart, Stored, Inserting, Unacknowledged, FailedBefore,
         SpentBefore, RightEntry, OnlyTheBatch, RightCount, StoredWhenReturned,
         DuplicateNeedsLostReply, CopiesBounded, AttemptBudget, Budget,
         OptimizedAfterRecords
  <2>. QED
    BY <2>1, <2>2, <2>3 DEF Stored
<1>8. CASE AlchemyInsertSucceeds
  <2>1. TypeOK'
    BY <1>0, <1>8 DEF AlchemyInsertSucceeds, Inserted, Insert, Inserting
  <2>2. Inserting'
    BY <1>0, <1>8
       DEF AlchemyInsertSucceeds, Inserted, Insert, RightEntry, Inserting,
         Unacknowledged, FailedBefore, SpentBefore
  <2>3. Stored'
    BY <1>0, <1>8
       DEF AlchemyInsertSucceeds, Inserted, Insert, Stored, Inserting,
         Unacknowledged, FailedBefore, SpentBefore, RightEntry, OnlyTheBatch,
         RightCount, StoredWhenReturned, DuplicateNeedsLostReply,
         CopiesBounded, AttemptBudget, Budget, OptimizedAfterRecords
  <2>. QED
    BY <2>1, <2>2, <2>3 DEF Stored
<1>9. CASE NativeInsertSucceeds
  <2>1. TypeOK'
    BY <1>0, <1>9 DEF NativeInsertSucceeds, Insert, Inserting
  <2>2. Inserting'
    BY <1>0, <1>9
       DEF NativeInsertSucceeds, Insert, RightEntry, Inserting,
         Unacknowledged, FailedBefore, SpentBefore
  <2>3. Stored'
    BY <1>0, <1>9
       DEF NativeInsertSucceeds, Insert, Stored, Inserting, Unacknowledged,
         FailedBefore, SpentBefore, RightEntry, OnlyTheBatch, RightCount,
         StoredWhenReturned, DuplicateNeedsLostReply, CopiesBounded,
         AttemptBudget, Budget, OptimizedAfterRecords
  <2>. QED
    BY <2>1, <2>2, <2>3 DEF Stored
<1>10. CASE LastInsertFails
  <2>1. TypeOK'
    BY <1>0, <1>10 DEF LastInsertFails, FailedInsert, Insert, Inserting
  <2>2. Inserting'
    BY <1>0, <1>10
       DEF LastInsertFails, FailedInsert, Insert, RightEntry, Inserting,
         Unacknowledged, FailedBefore, SpentBefore
  <2>3. Stored'
    BY <1>0, <1>10
       DEF LastInsertFails, FailedInsert, Insert, Stored, Inserting,
         Unacknowledged, FailedBefore, SpentBefore, RightEntry, OnlyTheBatch,
         RightCount, StoredWhenReturned, DuplicateNeedsLostReply,
         CopiesBounded, AttemptBudget, Budget, OptimizedAfterRecords
  <2>. QED
    BY <2>1, <2>2, <2>3 DEF Stored
<1>11. CASE OptimizeTable
  <2>1. TypeOK'
    BY <1>0, <1>11 DEF OptimizeTable, Inserting
  <2>2. Inserting'
    BY <1>0, <1>11
       DEF OptimizeTable, RightEntry, Inserting, Unacknowledged, FailedBefore,
         SpentBefore
  <2>3. Stored'
    BY <1>0, <1>11
       DEF OptimizeTable, Stored, Inserting, Unacknowledged, FailedBefore,
         SpentBefore, RightEntry, OnlyTheBatch, RightCount,
         StoredWhenReturned, DuplicateNeedsLostReply, CopiesBounded,
         AttemptBudget, Budget, OptimizedAfterRecords
  <2>. QED
    BY <2>1, <2>2, <2>3 DEF Stored
<1>12. CASE clean_up
  <2>1. TypeOK'
    BY <1>0, <1>12 DEF clean_up, Inserting
  <2>2. Inserting'
    BY <1>0, <1>12
       DEF clean_up, RightEntry, Inserting, Unacknowledged, FailedBefore,
         SpentBefore
  <2>3. Stored'
    BY <1>0, <1>12
       DEF clean_up, Stored, Inserting, Unacknowledged, FailedBefore,
         SpentBefore, RightEntry, OnlyTheBatch, RightCount,
         StoredWhenReturned, DuplicateNeedsLostReply, CopiesBounded,
         AttemptBudget, Budget, OptimizedAfterRecords
  <2>. QED
    BY <2>1, <2>2, <2>3 DEF Stored
<1>13. CASE UNCHANGED vars
  BY <1>13 DEF vars, IInv, TypeOK, Limited, Settings, Fast, Busy, Undetermined,
       Inserting, Unacknowledged, FailedBefore, SpentBefore,
       RightEntry, OnlyTheBatch, RightCount, StoredWhenReturned,
         DuplicateNeedsLostReply, CopiesBounded, AttemptBudget, Budget,
         OptimizedAfterRecords
<1>. QED
  BY <1>1, <1>2, <1>3, <1>4, <1>5, <1>6, <1>7, <1>8, <1>9, <1>10, <1>11,
       <1>12, <1>13 DEF Next, Step

\* The invariant holds throughout.
THEOREM Invariance == Spec => []IInv
BY InitIInv, NextIInv, PTL DEF Spec

-----------------------------------------------------------------------------
(* The theorems.                                                           *)

\* Every variable keeps its type.
THEOREM TypeCorrect == Spec => []TypeOK
<1>1. IInv => TypeOK
  BY DEF IInv
<1>. QED
  BY <1>1, Invariance, PTL

\* A call of bulk_insert_records or _insert_arrow_table that returns has its
\* whole batch in the table, after any sequence of failures.
THEOREM Durability == Spec => []StoredWhenReturned
<1>1. IInv => StoredWhenReturned
  BY DEF IInv
<1>. QED
  BY <1>1, Invariance, PTL

\* A row is stored once, and again only for an insert that failed after the
\* server had stored part of the batch.
THEOREM DuplicatesExplained == Spec => []DuplicateNeedsLostReply
<1>1. IInv => DuplicateNeedsLostReply
  BY DEF IInv
<1>. QED
  BY <1>1, Invariance, PTL

\* No call stores a row more than twice, or three times for an Arrow table.
THEOREM BoundedDuplication == Spec => []CopiesBounded
<1>1. IInv => CopiesBounded
  BY DEF IInv
<1>. QED
  BY <1>1, Invariance, PTL

\* A call ends within its budget of attempts.
THEOREM BoundedAttempts == Spec => []AttemptBudget
<1>1. IInv => AttemptBudget
  BY DEF IInv
<1>. QED
  BY <1>1, Invariance, PTL

\* The count a call returns is that of the rows it stored.
THEOREM CountIsTrue == Spec => []TruthfulCount
<1>1. IInv => TruthfulCount
  <2> SUFFICES ASSUME IInv, pc = "returned" PROVE TruthfulCount
    BY DEF TruthfulCount
  <2>1. {r \in Rows : copies[r] > 0} = batch
    <3>1. \A r \in batch : copies[r] > 0
      BY DEF IInv, StoredWhenReturned
    <3>2. \A r \in Rows \ batch : copies[r] = 0
      BY DEF IInv, OnlyTheBatch
    <3>. QED
      BY <3>1, <3>2 DEF IInv, TypeOK
  <2>. QED
    BY <2>1 DEF IInv, RightCount, TruthfulCount
<1>. QED
  BY <1>1, Invariance, PTL

\* With optimize_after, records are reported inserted only once optimized.
THEOREM RecordsOptimized == Spec => []OptimizedAfterRecords
<1>1. IInv => OptimizedAfterRecords
  BY DEF IInv
<1>. QED
  BY <1>1, Invariance, PTL

-----------------------------------------------------------------------------
(* The refinement of BulkLoad: every step of a call is a step of the load, *)
(* or one that BulkLoad does not see.                                      *)

LEMMA InitRefines == Init => Contract!Init
BY DEF Init, Contract!Init, Busy, Fast

\* A step that adds the rows of some part of the batch, and that ends the load
\* in success only with the whole batch stored, is BulkLoad's Store.
LEMMA InsertRefines ==
  ASSUME IInv, IInv', pc \in Busy, pc' \in Busy \cup {"returned", "raised"},
         NEW S \in SUBSET batch, UNCHANGED batch,
         copies' = [r \in Rows |-> copies[r] + IF r \in S THEN 1 ELSE 0]
  PROVE  Contract!Store
<1>1. pc' = "returned" => \A r \in batch : copies'[r] > 0
  BY DEF IInv, StoredWhenReturned
<1>. QED
  BY <1>1 DEF Contract!Store, Busy, Fast

\* A step that stores nothing adds the rows of the empty part.
LEMMA NothingStored ==
  ASSUME IInv, UNCHANGED copies
  PROVE  copies' = [r \in Rows |-> copies[r] + IF r \in {} THEN 1 ELSE 0]
BY DEF IInv, TypeOK

LEMMA NextRefines ==
  IInv /\ IInv' /\ [Next]_vars => [Contract!Next]_(Contract!vars)
<1> SUFFICES ASSUME IInv, IInv', [Next]_vars
             PROVE  [Contract!Next]_(Contract!vars)
  OBVIOUS
<1>1. CASE bulk_insert_records \/ insert_arrow_table
  <2>1. PICK e \in {"records", "arrow"}, b \in SUBSET Rows,
             start \in Unacknowledged \cup {"returned"} :
          /\ Call(e, b, start)
          /\ start = "returned" => b = {}
    BY <1>1
       DEF bulk_insert_records, insert_arrow_table, ArrowStart, BulkStart,
         Unacknowledged, Fast
  <2>. QED
    BY <2>1
       DEF Call, Contract!Next, Contract!Begin, Unacknowledged, Busy, Fast
<1>2. CASE BuildClient \/ OptimizeTable
  <2>1. /\ pc \in Busy /\ pc' \in Busy \cup {"returned", "raised"}
        /\ UNCHANGED <<copies, batch>>
    BY <1>2 DEF BuildClient, OptimizeTable, Busy, Fast
  <2>2. {} \in SUBSET batch
    OBVIOUS
  <2>3. copies' = [r \in Rows |-> copies[r] + IF r \in {} THEN 1 ELSE 0]
    BY <2>1, NothingStored
  <2>4. Contract!Store
    BY <2>1, <2>2, <2>3, InsertRefines
  <2>. QED
    BY <2>4 DEF Contract!Next
<1>3. CASE ArrowInsertSucceeds \/ ColumnarInsertSucceeds
  <2>1. PICK S \in SUBSET batch : Insert(S)
    BY <1>3 DEF ArrowInsertSucceeds, ColumnarInsertSucceeds, Acknowledged
  <2>2. /\ pc \in Busy /\ pc' \in Busy \cup {"returned", "raised"}
        /\ UNCHANGED batch
    BY <1>3
       DEF ArrowInsertSucceeds, ColumnarInsertSucceeds, Inserted, Busy, Fast
  <2>. QED
    BY <2>1, <2>2, InsertRefines DEF Insert, Contract!Next
<1>4. CASE ConnectionFails \/ FastInsertFails \/ LastInsertFails
  <2>1. PICK S \in SUBSET batch : Insert(S)
    BY <1>4
       DEF ConnectionFails, FastInsertFails, Leftovers, LastInsertFails,
         FailedInsert
  <2>2. /\ pc \in Busy /\ pc' \in Busy \cup {"returned", "raised"}
        /\ UNCHANGED batch
    BY <1>4
       DEF ConnectionFails, TryAgain, FastInsertFails, LastInsertFails,
         FallBack, BulkStart, Busy, Fast
  <2>. QED
    BY <2>1, <2>2, InsertRefines DEF Insert, Contract!Next
<1>5. CASE AlchemyInsertSucceeds \/ NativeInsertSucceeds
  <2>1. /\ pc \in Busy /\ pc' \in Busy \cup {"returned", "raised"}
        /\ UNCHANGED batch /\ Insert(batch)
    BY <1>5
       DEF AlchemyInsertSucceeds, NativeInsertSucceeds, Inserted, Busy, Fast
  <2>. QED
    BY <2>1, InsertRefines DEF Insert, Contract!Next
<1>6. CASE clean_up
  BY <1>6 DEF clean_up, Contract!Next, Contract!Close, Busy, Fast
<1>7. CASE UNCHANGED vars
  BY <1>7 DEF vars, Contract!vars
<1>. QED
  BY <1>1, <1>2, <1>3, <1>4, <1>5, <1>6, <1>7 DEF Next, Step

\* The insert path implements the contract: it never reports a batch loaded
\* before all its rows are, and stores no row that is not in the batch.
THEOREM Refinement == Spec => ContractSpec
<1>1. Init => Contract!Init
  BY InitRefines
<1>2. IInv /\ IInv' /\ [Next]_vars => [Contract!Next]_(Contract!vars)
  BY NextRefines
<1>. QED
  BY <1>1, <1>2, Invariance, PTL DEF Spec, ContractSpec, Contract!Spec
=============================================================================
