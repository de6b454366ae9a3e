-------------------------- MODULE ArrowBatchProofs --------------------------
(***************************************************************************)
(* Proofs about ArrowBatch, for any manifests and any number of faults: a  *)
(* file is only removed when its rows are in the table, the bookmark       *)
(* covers only files that are loaded, a run meets a missing file only if   *)
(* an earlier one loaded it, and the record counter is that of the files.  *)
(*                                                                         *)
(* The bookmark moves over messages it does not look at, so that it covers *)
(* loaded files only because every message before the one in progress is   *)
(* loaded, and of that one every file before the one the loop is at.  And  *)
(* that loop never finds a file missing which it has not reached yet,      *)
(* because no file is named twice.  A file is not inserted again and again *)
(* by runs that stop at a missing one, because those before it are missing *)
(* too by then.                                                            *)
(***************************************************************************)
EXTENDS ArrowBatch, SumProofs, SequenceTheorems, TLAPS

\* The loop is inside a message, at a file of it or after the last one.
InMessage ==
  pc \in {"read", "insert", "remove", "missing", "count"} =>
     /\ msg \in Messages
     /\ pc # "count" => at \in 1 .. Len(Manifests[msg])
     /\ pc = "count" => at = Len(Manifests[msg]) + 1

\* What the loop has passed is loaded, and what it is to remove.
PassedLoaded ==
  /\ \A n \in 1 .. msg - 1 : FilesOf(n) \subseteq loaded
  /\ pc \in {"read", "insert", "remove", "missing", "count"} =>
        \A i \in 1 .. at - 1 : Manifests[msg][i] \in loaded
  /\ pc = "remove" => file \in loaded

\* The files this run has yet to reach.
Ahead(n, i) == n > msg \/ (n = msg /\ (pc = "idle" \/ i >= at))

\* They exist, unless an earlier run has removed them for good.
AheadPresent ==
  /\ ~cfg.clean_up_batch_files => present = Files
  /\ pc # "down" /\ (faults = 0 \/ cfg.rewrites) =>
        \A n \in Messages : \A i \in DOMAIN Manifests[n] :
           Ahead(n, i) => Manifests[n][i] \in present

FaultsCounted == pc \in {"down", "missing"} => faults > 0

IInv ==
  /\ TypeOK
  /\ InMessage
  /\ PassedLoaded
  /\ AheadPresent
  /\ FaultsCounted
  /\ RemovedOnlyLoaded
  /\ BookmarkLoaded
  /\ MissingWasLoaded

\* What the assumption says of the manifests.
LEMMA ManifestFacts ==
  /\ Len(Manifests) \in Nat /\ Messages = 1 .. Len(Manifests)
  /\ \A n \in Messages :
        /\ Len(Manifests[n]) \in Nat
        /\ DOMAIN Manifests[n] = 1 .. Len(Manifests[n])
        /\ FilesOf(n) \subseteq Files
        /\ \A i \in 1 .. Len(Manifests[n]) : Manifests[n][i] \in FilesOf(n)
<1>1. Len(Manifests) \in Nat /\ Messages = 1 .. Len(Manifests)
  BY ManifestsAssumption, LenProperties DEF Messages
<1>2. ASSUME NEW n \in Messages PROVE Manifests[n] \in Seq(Files)
  BY <1>1, ManifestsAssumption, ElementOfSeq
<1>3. ASSUME NEW n \in Messages
      PROVE  /\ Len(Manifests[n]) \in Nat
             /\ DOMAIN Manifests[n] = 1 .. Len(Manifests[n])
  BY <1>2, LenProperties
<1>4. ASSUME NEW n \in Messages
      PROVE  /\ FilesOf(n) \subseteq Files
             /\ \A i \in 1 .. Len(Manifests[n]) : Manifests[n][i] \in FilesOf(n)
  BY <1>3 DEF FilesOf, Files
<1>. QED
  BY <1>1, <1>3, <1>4

\* The file a step of the loop is at.
LEMMA FileFacts ==
  ASSUME TypeOK, InMessage, pc \in {"read", "insert", "remove", "missing"}
  PROVE  /\ msg \in Messages /\ at \in 1 .. Len(Manifests[msg])
         /\ file \in Files /\ RowsIn[file] \in Nat
<1>1. msg \in Messages /\ at \in 1 .. Len(Manifests[msg])
  BY DEF InMessage
<1>2. file \in FilesOf(msg) /\ FilesOf(msg) \subseteq Files
  BY <1>1, ManifestFacts DEF file
<1>. QED
  BY <1>1, <1>2, ManifestsAssumption

\* The loop goes on to a file, or it is after the last one.
LEMMA ToFileFacts ==
  ASSUME msg \in Messages, NEW n \in Nat \ {0}, n <= Len(Manifests[msg]) + 1,
         ToFile(n)
  PROVE  /\ at' = n
         /\ \/ pc' = "read" /\ n \in 1 .. Len(Manifests[msg])
            \/ pc' = "count" /\ n = Len(Manifests[msg]) + 1
  BY ManifestFacts DEF ToFile

\* The invariant holds initially.
LEMMA InitIInv == Init => IInv
<1>. SUFFICES ASSUME Init PROVE IInv
  OBVIOUS
<1>1. TypeOK
  BY ManifestFacts, ManifestsAssumption DEF Init, TypeOK, Settings
<1>2. InMessage /\ PassedLoaded /\ FaultsCounted
  BY DEF Init, InMessage, PassedLoaded, FaultsCounted
<1>3. AheadPresent
  <2>. SUFFICES ASSUME NEW n \in Messages, NEW i \in DOMAIN Manifests[n]
                PROVE  Manifests[n][i] \in Files
    BY DEF Init, AheadPresent
  <2>. QED
    BY ManifestFacts
<1>4. RemovedOnlyLoaded /\ BookmarkLoaded /\ MissingWasLoaded
  BY DEF Init, RemovedOnlyLoaded, BookmarkLoaded, MissingWasLoaded
<1>. QED
  BY <1>1, <1>2, <1>3, <1>4 DEF IInv

\* Every step keeps the invariant.
LEMMA NextIInv == IInv /\ [Next]_vars => IInv'
<1>. SUFFICES ASSUME IInv, [Next]_vars PROVE IInv'
  OBVIOUS
<1>0. inserts \in [Files -> Nat]
  BY DEF IInv, TypeOK
<1>. USE ManifestFacts, ManifestsAssumption DEF IInv
<1>1. CASE StartBatch
  <2>0. /\ msg \in Messages /\ ToFile(1)
        /\ 1 \in Nat \ {0} /\ 1 <= Len(Manifests[msg]) + 1
    BY <1>1 DEF StartBatch
  <2>t. /\ at' = 1
        /\ \/ pc' = "read" /\ 1 \in 1 .. Len(Manifests[msg])
           \/ pc' = "count" /\ 1 = Len(Manifests[msg]) + 1
    BY <2>0, ToFileFacts
  <2>1. /\ pc = "idle" /\ msg \in Messages /\ at' = 1 /\ total' = 0
        /\ \/ pc' = "read" /\ 1 \in 1 .. Len(Manifests[msg])
           \/ pc' = "count" /\ 1 = Len(Manifests[msg]) + 1
        /\ UNCHANGED <<cfg, msg, first, counted, emitted, present, loaded,
                       inserts, faults>>
    BY <1>1, <2>0, <2>t DEF StartBatch
  <2>2. TypeOK'
    BY <2>1 DEF TypeOK
  <2>3. InMessage' /\ FaultsCounted'
    BY <2>1 DEF InMessage, FaultsCounted
  <2>4. PassedLoaded'
    BY <2>1 DEF PassedLoaded
  <2>5. AheadPresent'
    BY <2>1 DEF AheadPresent, Ahead
  <2>6. RemovedOnlyLoaded' /\ BookmarkLoaded' /\ MissingWasLoaded'
    BY <2>1 DEF RemovedOnlyLoaded, BookmarkLoaded, MissingWasLoaded
  <2>. QED
    BY <2>2, <2>3, <2>4, <2>5, <2>6
<1>2. CASE ReadFile
  <2>1. /\ pc = "read" /\ pc' = IF file \in present THEN "insert" ELSE "missing"
        /\ UNCHANGED <<cfg, msg, at, total, first, counted, emitted, present,
                       loaded, inserts, faults>>
    BY <1>2 DEF ReadFile
  <2>2. /\ msg \in Messages /\ at \in 1 .. Len(Manifests[msg])
        /\ file \in Files
    BY <2>1, FileFacts
  <2>3. file' = file
    BY <2>1 DEF file
  <2>4. ASSUME file \notin present PROVE MissingWasLoaded' /\ FaultsCounted'
    <3>1. Ahead(msg, at) /\ faults \in Nat
      BY <2>1, <2>2 DEF Ahead, TypeOK
    <3>2. faults > 0 /\ ~cfg.rewrites
      BY <2>1, <2>2, <2>4, <3>1 DEF AheadPresent, file, TypeOK
    <3>3. cfg.clean_up_batch_files /\ file \in loaded
      BY <2>2, <2>4 DEF AheadPresent, RemovedOnlyLoaded, TypeOK, Settings
    <3>. QED
      BY <2>1, <2>3, <2>4, <3>2, <3>3 DEF MissingWasLoaded, FaultsCounted
  <2>5. MissingWasLoaded' /\ FaultsCounted'
    BY <2>1, <2>4 DEF MissingWasLoaded, FaultsCounted
  <2>6. TypeOK'
    BY <2>1, <2>2 DEF TypeOK
  <2>7. InMessage' /\ PassedLoaded'
    BY <2>1, <2>2 DEF InMessage, PassedLoaded
  <2>8. AheadPresent'
    BY <2>1 DEF AheadPresent, Ahead
  <2>9. RemovedOnlyLoaded' /\ BookmarkLoaded'
    BY <2>1 DEF RemovedOnlyLoaded, BookmarkLoaded
  <2>. QED
    BY <2>5, <2>6, <2>7, <2>8, <2>9
<1>3. CASE InsertTable
  <2>1. /\ pc = "insert" /\ pc' = "remove"
        /\ loaded' = loaded \cup {file} /\ total' = total + RowsIn[file]
        /\ InsertRows
        /\ UNCHANGED <<cfg, msg, at, first, counted, emitted, present, faults>>
    BY <1>3 DEF InsertTable
  <2>2. /\ msg \in Messages /\ at \in 1 .. Len(Manifests[msg])
        /\ file \in Files /\ RowsIn[file] \in Nat
    BY <2>1, FileFacts
  <2>3. file' = file
    BY <2>1 DEF file
  <2>4. TypeOK'
    <3>1. inserts' \in [Files -> Nat]
      BY ONLY <1>0, <2>1, <2>2 DEF InsertRows
    <3>. QED
      BY <2>1, <2>2, <3>1, SMTT(30) DEF TypeOK
  <2>5. InMessage' /\ PassedLoaded'
    BY <2>1, <2>2, <2>3 DEF InMessage, PassedLoaded
  <2>6. AheadPresent'
    BY <2>1 DEF AheadPresent, Ahead
  <2>7. RemovedOnlyLoaded' /\ BookmarkLoaded'
    BY <2>1 DEF RemovedOnlyLoaded, BookmarkLoaded
  <2>8. MissingWasLoaded' /\ FaultsCounted'
    BY <2>1 DEF MissingWasLoaded, FaultsCounted
  <2>. QED
    BY <2>4, <2>5, <2>6, <2>7, <2>8
<1>4. CASE InsertFails \/ Crash
  <2>1. /\ pc' = "down" \/ (pc = "insert" /\ pc' = "insert")
        /\ faults < MaxFaults /\ faults' = faults + 1
        /\ UNCHANGED <<cfg, msg, at, total, first, counted, emitted, present,
                       loaded>>
        /\ (pc = "insert" /\ InsertRows) \/ UNCHANGED inserts
    BY <1>4 DEF InsertFails, Crash
  <2>2. TypeOK'
    <3>1. inserts' \in [Files -> Nat]
      <4>1. pc = "insert" => file \in Files
        BY FileFacts
      <4>. QED
        BY ONLY <1>0, <2>1, <4>1 DEF InsertRows
    <3>. QED
      BY <2>1, <3>1 DEF TypeOK
  <2>3. InMessage' /\ PassedLoaded'
    BY <2>1 DEF InMessage, PassedLoaded, file
  <2>4. AheadPresent' /\ FaultsCounted'
    BY <2>1 DEF AheadPresent, Ahead, FaultsCounted, TypeOK
  <2>5. RemovedOnlyLoaded' /\ BookmarkLoaded' /\ MissingWasLoaded'
    BY <2>1 DEF RemovedOnlyLoaded, BookmarkLoaded, MissingWasLoaded
  <2>. QED
    BY <2>2, <2>3, <2>4, <2>5
<1>5. CASE RemoveFile
  <2>1. /\ pc = "remove"
        /\ present' = IF cfg.clean_up_batch_files THEN present \ {file}
                                                  ELSE present
        /\ UNCHANGED <<cfg, msg, total, first, counted, emitted, loaded,
                       inserts, faults>>
    BY <1>5 DEF RemoveFile
  <2>2. /\ msg \in Messages /\ at \in 1 .. Len(Manifests[msg])
        /\ file \in Files /\ file \in loaded
    BY <2>1, FileFacts DEF PassedLoaded
  <2>0. /\ ToFile(at + 1) /\ at + 1 \in Nat \ {0}
        /\ at + 1 <= Len(Manifests[msg]) + 1
    BY <1>5, <2>2 DEF RemoveFile
  <2>3. /\ at' = at + 1
        /\ \/ pc' = "read" /\ at + 1 \in 1 .. Len(Manifests[msg])
           \/ pc' = "count" /\ at + 1 = Len(Manifests[msg]) + 1
    BY <2>0, <2>2, ToFileFacts
  <2>4. TypeOK'
    <3>1. inserts' \in [Files -> Nat] /\ present' \subseteq Files
      BY <2>1 DEF TypeOK
    <3>. QED
      BY <2>1, <2>2, <2>3, <3>1, SMTT(30) DEF TypeOK
  <2>5. InMessage' /\ FaultsCounted'
    BY <2>1, <2>2, <2>3 DEF InMessage, FaultsCounted
  <2>6. PassedLoaded'
    <3>1. \A i \in 1 .. at : i = at \/ i \in 1 .. at - 1
      BY <2>2
    <3>2. \A i \in 1 .. at : Manifests[msg][i] \in loaded
      BY <2>1, <2>2, <3>1 DEF PassedLoaded, file
    <3>3. /\ at' - 1 = at /\ pc' # "remove"
          /\ UNCHANGED <<msg, loaded>> /\ PassedLoaded
      BY <2>1, <2>2, <2>3
    <3>. QED
      BY ONLY <3>2, <3>3 DEF PassedLoaded, FilesOf
  <2>7. AheadPresent'
    <3>. SUFFICES ASSUME NEW n \in Messages, NEW i \in DOMAIN Manifests[n],
                         faults = 0 \/ cfg.rewrites, Ahead(n, i)'
                  PROVE  Manifests[n][i] \in present'
      BY <2>1, <2>3 DEF AheadPresent
    <3>1. Ahead(n, i) /\ ~(n = msg /\ i = at)
      BY <2>1, <2>2, <2>3 DEF Ahead
    <3>2. Manifests[n][i] \in present
      BY <2>1, <3>1 DEF AheadPresent
    <3>3. Manifests[n][i] # file
      BY <2>2, <3>1 DEF file
    <3>. QED
      BY <2>1, <3>2, <3>3
  <2>8. RemovedOnlyLoaded' /\ BookmarkLoaded' /\ MissingWasLoaded'
    BY <2>1, <2>2, <2>3
       DEF RemovedOnlyLoaded, BookmarkLoaded, MissingWasLoaded
  <2>. QED
    BY <2>4, <2>5, <2>6, <2>7, <2>8
<1>6. CASE Count
  <2>1. /\ pc = "count" /\ pc' = "idle"
        /\ counted' = counted + total /\ msg' = msg + 1
        /\ UNCHANGED <<cfg, at, total, first, emitted, present, loaded, inserts,
                       faults>>
    BY <1>6 DEF Count
  <2>2. msg \in Messages /\ at = Len(Manifests[msg]) + 1
    BY <2>1 DEF InMessage
  <2>3. FilesOf(msg) \subseteq loaded
    BY <2>1, <2>2 DEF PassedLoaded, FilesOf
  <2>4. TypeOK'
    BY <2>1, <2>2 DEF TypeOK
  <2>5. InMessage' /\ FaultsCounted' /\ MissingWasLoaded'
    BY <2>1 DEF InMessage, FaultsCounted, MissingWasLoaded
  <2>6. PassedLoaded'
    <3>1. \A n \in 1 .. msg : n = msg \/ n \in 1 .. msg - 1
      BY <2>2
    <3>2. \A n \in 1 .. msg : FilesOf(n) \subseteq loaded
      BY <2>3, <3>1 DEF PassedLoaded
    <3>3. msg' - 1 = msg
      BY <2>1, <2>2
    <3>. QED
      BY <2>1, <3>2, <3>3 DEF PassedLoaded
  <2>7. AheadPresent'
    BY <2>1, <2>2 DEF AheadPresent, Ahead, TypeOK
  <2>8. RemovedOnlyLoaded' /\ BookmarkLoaded'
    BY <2>1 DEF RemovedOnlyLoaded, BookmarkLoaded
  <2>. QED
    BY <2>4, <2>5, <2>6, <2>7, <2>8
<1>7. CASE Bookmark
  <2>1. /\ pc = "idle" /\ emitted' = msg - 1
        /\ UNCHANGED <<cfg, pc, msg, at, total, first, counted, present, loaded,
                       inserts, faults>>
    BY <1>7 DEF Bookmark
  <2>2. TypeOK'
    BY <2>1 DEF TypeOK
  <2>3. BookmarkLoaded'
    BY <2>1 DEF BookmarkLoaded, PassedLoaded
  <2>. QED
    BY <2>1, <2>2, <2>3
       DEF InMessage, PassedLoaded, AheadPresent, Ahead, FaultsCounted,
           RemovedOnlyLoaded, MissingWasLoaded
<1>8. CASE Restart
  <2>. DEFINE again == UNION {FilesOf(n) : n \in Messages \ (1 .. emitted)}
  <2>1. /\ pc \in {"down", "missing"} /\ pc' = "idle"
        /\ msg' = emitted + 1 /\ first' = emitted + 1 /\ at' = 1
        /\ total' = 0 /\ counted' = 0
        /\ present' = IF cfg.rewrites THEN present \cup again ELSE present
        /\ UNCHANGED <<cfg, emitted, loaded, inserts, faults>>
    BY <1>8 DEF Restart
  <2>2. again \subseteq Files
    OBVIOUS
  <2>3. TypeOK'
    <3>1. emitted \in Nat /\ emitted + 1 \in 1 .. Len(Manifests) + 1
      BY DEF TypeOK
    <3>2. present' \subseteq Files
      BY <2>1, <2>2 DEF TypeOK
    <3>. QED
      BY <2>1, <3>1, <3>2 DEF TypeOK
  <2>4. InMessage' /\ FaultsCounted' /\ MissingWasLoaded'
    BY <2>1 DEF InMessage, FaultsCounted, MissingWasLoaded
  <2>5. PassedLoaded'
    BY <2>1 DEF PassedLoaded, BookmarkLoaded, TypeOK
  <2>6. AheadPresent'
    <3>1. ~cfg.clean_up_batch_files => present' = Files
      BY <2>1, <2>2 DEF AheadPresent
    <3>. SUFFICES ASSUME NEW n \in Messages, NEW i \in DOMAIN Manifests[n],
                         faults = 0 \/ cfg.rewrites, Ahead(n, i)'
                  PROVE  Manifests[n][i] \in present'
      BY <2>1, <3>1 DEF AheadPresent
    <3>2. cfg.rewrites
      BY <2>1 DEF FaultsCounted
    <3>3. n \in Messages \ (1 .. emitted)
      BY <2>1 DEF Ahead, TypeOK
    <3>4. Manifests[n][i] \in FilesOf(n)
      OBVIOUS
    <3>5. FilesOf(n) \in {FilesOf(k) : k \in Messages \ (1 .. emitted)}
      BY <3>3
    <3>6. Manifests[n][i] \in again
      BY <3>4, <3>5
    <3>. QED
      BY <2>1, <3>2, <3>6
  <2>7. RemovedOnlyLoaded' /\ BookmarkLoaded'
    BY <2>1 DEF RemovedOnlyLoaded, BookmarkLoaded
  <2>. QED
    BY <2>3, <2>4, <2>5, <2>6, <2>7
<1>9. CASE UNCHANGED vars
  BY <1>9
     DEF vars, TypeOK, InMessage, PassedLoaded, AheadPresent, Ahead, file,
         FaultsCounted, RemovedOnlyLoaded, BookmarkLoaded, MissingWasLoaded
<1>. QED
  BY <1>1, <1>2, <1>3, <1>4, <1>5, <1>6, <1>7, <1>8, <1>9 DEF Next, Progress

\* The invariant holds of every behaviour.
THEOREM Invariance == Spec => []IInv
  BY InitIInv, NextIInv, PTL DEF Spec

-----------------------------------------------------------------------------
(* The theorems.                                                           *)

\* Every variable keeps its type.
THEOREM TypeCorrect == Spec => []TypeOK
<1>1. IInv => TypeOK
  BY DEF IInv
<1>. QED
  BY <1>1, Invariance, PTL

\* The only copy of a row is never removed: a file that is gone is loaded, at
\* whichever step the process or an insert has stopped.
THEOREM FilesAreSafe == Spec => []RemovedOnlyLoaded
<1>1. IInv => RemovedOnlyLoaded
  BY DEF IInv
<1>. QED
  BY <1>1, Invariance, PTL

\* The bookmark covers only messages whose files are all loaded.
THEOREM BookmarkIsSafe == Spec => []BookmarkLoaded
<1>1. IInv => BookmarkLoaded
  BY DEF IInv
<1>. QED
  BY <1>1, Invariance, PTL

\* A run stops at a missing file only if an earlier run loaded it, removed it
\* and was interrupted.
THEOREM MissingIsExplained == Spec => []MissingWasLoaded
<1>1. IInv => MissingWasLoaded
  BY DEF IInv
<1>. QED
  BY <1>1, Invariance, PTL

-----------------------------------------------------------------------------
(* The record counter.                                                     *)

\* The files of the messages this run has finished, and of this message those
\* up to the k-th.
Finished == UNION {FilesOf(n) : n \in first .. msg - 1}
UpTo(k)  == {Manifests[msg][i] : i \in 1 .. k}

\* What has been counted, and will be with the message, is what was inserted.
Tally ==
  /\ pc = "idle" => counted = SumOver(RowsIn, Finished)
  /\ pc \in {"read", "insert", "missing", "count"} =>
        counted + total = SumOver(RowsIn, Finished \cup UpTo(at - 1))
  /\ pc = "remove" =>
        counted + total = SumOver(RowsIn, Finished \cup UpTo(at))

\* There are finitely many files.
LEMMA FilesFinite == IsFiniteSet(Files)
<1>. USE ManifestFacts
<1>1. ASSUME NEW n \in Messages PROVE IsFiniteSet(FilesOf(n))
  <2>. DEFINE f == [i \in 1 .. Len(Manifests[n]) |-> Manifests[n][i]]
  <2>1. f \in Surjection(1 .. Len(Manifests[n]), FilesOf(n))
    BY <1>1 DEF Surjection, FilesOf
  <2>2. IsFiniteSet(1 .. Len(Manifests[n]))
    <3>1. 1 \in Int /\ Len(Manifests[n]) \in Int
      BY <1>1
    <3>. QED
      BY ONLY <3>1, FS_Interval
  <2>. HIDE DEF f
  <2>. QED
    BY <2>1, <2>2, FS_Surjection
<1>2. IsFiniteSet({FilesOf(n) : n \in Messages})
  <2>. DEFINE f == [n \in Messages |-> FilesOf(n)]
  <2>1. f \in Surjection(Messages, {FilesOf(n) : n \in Messages})
    BY DEF Surjection
  <2>2. IsFiniteSet(Messages)
    BY FS_Interval
  <2>. HIDE DEF f
  <2>. QED
    BY <2>1, <2>2, FS_Surjection
<1>. QED
  BY <1>1, <1>2, FS_UNION DEF Files

\* The tally holds initially.
LEMMA InitTally == Init => Tally
<1>. SUFFICES ASSUME Init PROVE Tally
  OBVIOUS
<1>1. Finished = {}
  BY DEF Init, Finished
<1>. QED
  BY <1>1, SumEmpty DEF Init, Tally

\* A file is inserted once in a run, because it is named once.
LEMMA NewFile ==
  ASSUME IInv, pc = "insert"
  PROVE  /\ file \notin Finished \cup UpTo(at - 1)
         /\ Finished \cup UpTo(at) = (Finished \cup UpTo(at - 1)) \cup {file}
<1>. USE ManifestFacts, ManifestsAssumption
<1>1. /\ msg \in Messages /\ at \in 1 .. Len(Manifests[msg])
      /\ first \in 1 .. msg
  BY FileFacts DEF IInv, TypeOK
<1>2. file \notin Finished
  <2>. SUFFICES ASSUME NEW n \in first .. msg - 1, file \in FilesOf(n)
                PROVE  FALSE
    BY DEF Finished
  <2>1. n \in Messages /\ n # msg
    BY <1>1
  <2>2. PICK i \in DOMAIN Manifests[n] : file = Manifests[n][i]
    BY DEF FilesOf
  <2>3. at \in DOMAIN Manifests[msg] /\ Manifests[n][i] = Manifests[msg][at]
    BY <1>1, <2>2 DEF file
  <2>. QED
    BY <1>1, <2>1, <2>2, <2>3, ManifestsAssumption
<1>3. file \notin UpTo(at - 1)
  <2>. SUFFICES ASSUME NEW i \in 1 .. at - 1, file = Manifests[msg][i]
                PROVE  FALSE
    BY DEF UpTo
  <2>1. i \in DOMAIN Manifests[msg] /\ at \in DOMAIN Manifests[msg] /\ i # at
    BY <1>1
  <2>2. Manifests[msg][i] = Manifests[msg][at]
    BY DEF file
  <2>. QED
    BY <1>1, <2>1, <2>2, ManifestsAssumption
<1>4. UpTo(at) = UpTo(at - 1) \cup {file}
  <2>1. 1 .. at = (1 .. at - 1) \cup {at}
    BY <1>1
  <2>2. file = Manifests[msg][at]
    BY DEF file
  <2>. QED
    BY ONLY <2>1, <2>2 DEF UpTo
<1>. QED
  BY <1>2, <1>3, <1>4

\* Every step keeps the tally.
LEMMA NextTally == IInv /\ Tally /\ [Next]_vars => Tally'
<1>. SUFFICES ASSUME IInv, Tally, [Next]_vars PROVE Tally'
  OBVIOUS
<1>. USE ManifestFacts, ManifestsAssumption
<1>0. /\ msg \in Nat \ {0} /\ first \in 1 .. msg /\ at \in Nat \ {0}
      /\ counted \in Nat /\ total \in Nat /\ emitted \in Nat
  BY DEF IInv, TypeOK
<1>1. CASE StartBatch
  <2>1. /\ pc = "idle" /\ at' = 1 /\ total' = 0 /\ pc' \in {"read", "count"}
        /\ UNCHANGED <<msg, first, counted>>
    BY <1>1 DEF StartBatch, ToFile
  <2>2. UpTo(at - 1)' = {} /\ Finished' = Finished
    BY <2>1 DEF UpTo, Finished
  <2>3. (Finished \cup UpTo(at - 1))' = Finished
    BY <2>2
  <2>4. counted' + total' = SumOver(RowsIn, Finished)
    BY <1>0, <2>1 DEF Tally
  <2>. QED
    BY <2>1, <2>3, <2>4 DEF Tally
<1>2. CASE ReadFile
  <2>1. /\ pc = "read" /\ pc' \in {"insert", "missing"}
        /\ UNCHANGED <<msg, first, counted, total, at>>
    BY <1>2 DEF ReadFile
  <2>. QED
    BY <2>1 DEF Tally, Finished, UpTo
<1>3. CASE InsertTable
  <2>1. /\ pc = "insert" /\ pc' = "remove" /\ total' = total + RowsIn[file]
        /\ UNCHANGED <<msg, first, counted, at>>
    BY <1>3 DEF InsertTable
  <2>. DEFINE A == Finished \cup UpTo(at - 1)
  <2>2. file \notin A /\ Finished \cup UpTo(at) = A \cup {file}
    BY <2>1, NewFile
  <2>3. A \subseteq Files /\ file \in Files
    <3>1. msg \in Messages /\ at \in 1 .. Len(Manifests[msg]) /\ file \in Files
      BY <2>1, FileFacts DEF IInv
    <3>2. Finished \subseteq Files
      <4>1. first .. msg - 1 \subseteq Messages
        BY <1>0, <3>1
      <4>. QED
        BY <4>1 DEF Finished
    <3>3. UpTo(at - 1) \subseteq Files
      BY <1>0, <3>1 DEF UpTo
    <3>. QED
      BY <3>1, <3>2, <3>3
  <2>4. IsFiniteSet(A) /\ \A x \in A \cup {file} : RowsIn[x] \in Nat
    BY <2>3, FilesFinite, FS_Subset
  <2>. HIDE DEF A
  <2>5. SumOver(RowsIn, A \cup {file}) = SumOver(RowsIn, A) + RowsIn[file]
    BY <2>2, <2>4, SumAdd
  <2>6. counted + total = SumOver(RowsIn, A)
    BY <2>1 DEF Tally, A
  <2>7. RowsIn[file] \in Nat
    BY <2>4
  <2>8. (Finished \cup UpTo(at))' = A \cup {file}
    BY <2>1, <2>2 DEF Finished, UpTo
  <2>9. counted' + total' = SumOver(RowsIn, A \cup {file})
    BY <1>0, <2>1, <2>5, <2>6, <2>7
  <2>. QED
    BY <2>1, <2>8, <2>9 DEF Tally
<1>4. CASE RemoveFile
  <2>1. /\ pc = "remove" /\ at' = at + 1 /\ pc' \in {"read", "count"}
        /\ UNCHANGED <<msg, first, counted, total>>
    BY <1>4 DEF RemoveFile, ToFile
  <2>2. at' - 1 = at
    BY <1>0, <2>1
  <2>3. (Finished \cup UpTo(at - 1))' = Finished \cup UpTo(at)
    <3>1. Finished' = Finished
      BY <2>1 DEF Finished
    <3>2. UpTo(at - 1)' = UpTo(at)
      BY ONLY <2>1, <2>2 DEF UpTo
    <3>. QED
      BY <3>1, <3>2
  <2>. QED
    BY <2>1, <2>3 DEF Tally
<1>5. CASE Count
  <2>1. /\ pc = "count" /\ pc' = "idle" /\ msg' = msg + 1
        /\ counted' = counted + total /\ UNCHANGED first
    BY <1>5 DEF Count
  <2>2. msg \in Messages /\ at = Len(Manifests[msg]) + 1
    BY <2>1 DEF IInv, InMessage
  <2>3. UpTo(at - 1) = FilesOf(msg)
    <3>1. at - 1 = Len(Manifests[msg])
      BY <2>2
    <3>. QED
      BY <2>2, <3>1 DEF UpTo, FilesOf
  <2>4. first .. msg' - 1 = (first .. msg - 1) \cup {msg}
    BY <1>0, <2>1
  <2>5. Finished' = Finished \cup FilesOf(msg)
    BY ONLY <2>1, <2>4 DEF Finished, FilesOf
  <2>. QED
    BY <2>1, <2>3, <2>5 DEF Tally
<1>6. CASE Restart
  <2>1. /\ pc' = "idle" /\ counted' = 0
        /\ msg' = emitted + 1 /\ first' = emitted + 1
    BY <1>6 DEF Restart
  <2>2. Finished' = {}
    BY <1>0, <2>1 DEF Finished
  <2>. QED
    BY <2>1, <2>2, SumEmpty DEF Tally
<1>7. CASE InsertFails \/ Crash
  <2>1. /\ pc' \in {pc, "down"}
        /\ UNCHANGED <<msg, first, counted, total, at>>
    BY <1>7 DEF InsertFails, Crash
  <2>. QED
    BY <2>1 DEF Tally, Finished, UpTo
<1>8. CASE Bookmark \/ UNCHANGED vars
  <2>1. UNCHANGED <<pc, msg, first, counted, total, at>>
    BY <1>8 DEF Bookmark, vars
  <2>. QED
    BY <2>1 DEF Tally, Finished, UpTo
<1>. QED
  BY <1>1, <1>2, <1>3, <1>4, <1>5, <1>6, <1>7, <1>8 DEF Next, Progress

\* The record counter of a run is that of the rows of the files it has finished.
THEOREM CounterIsRight == Spec => []CountedIsLoaded
<1>1. Tally => CountedIsLoaded
  BY DEF Tally, CountedIsLoaded, SumRows, SumOver, Finished
<1>2. IInv /\ Tally /\ [Next]_vars => Tally'
  BY NextTally
<1>. QED
  BY <1>1, <1>2, InitTally, Invariance, PTL DEF Spec

-----------------------------------------------------------------------------
(* How often a file is inserted.                                           *)

\* A file this run has yet to insert.
Yet(n, i) ==
  \/ n > msg
  \/ n = msg /\ (pc = "idle" \/ i > at \/ (i = at /\ pc # "remove"))

\* A file has been inserted once for each fault, and once more only by this run;
\* if it is never written again, it is to be removed then.
Repeats ==
  /\ InsertedPerFault
  /\ pc = "down" => \A f \in Files : inserts[f] <= faults
  /\ pc = "insert" => inserts[file] <= faults
  /\ \A n \in Messages : \A i \in DOMAIN Manifests[n] :
        Yet(n, i) /\ Manifests[n][i] \in present =>
           inserts[Manifests[n][i]] <= faults
  /\ cfg.clean_up_batch_files /\ ~cfg.rewrites =>
        \A f \in present :
           inserts[f] <= faults \/ (pc = "remove" /\ f = file)

\* It holds initially.
LEMMA InitRepeats == Init => Repeats
<1>. SUFFICES ASSUME Init PROVE Repeats
  OBVIOUS
<1>1. /\ pc = "idle" /\ faults = 0 /\ present = Files
      /\ \A f \in Files : inserts[f] = 0
  BY DEF Init
<1>2. \A n \in Messages : \A i \in DOMAIN Manifests[n] :
        Manifests[n][i] \in Files
  BY ManifestFacts
<1>. QED
  BY <1>1, <1>2 DEF Repeats, InsertedPerFault

\* Every step keeps it.
LEMMA NextRepeats ==
  ASSUME IInv, Repeats, [Next]_vars
  PROVE  Repeats'
<1>0. /\ faults \in Nat /\ inserts \in [Files -> Nat] /\ present \subseteq Files
      /\ msg \in Nat /\ emitted \in Nat /\ at \in Nat /\ emitted <= msg - 1
      /\ cfg.rewrites \in BOOLEAN
  BY ManifestFacts DEF IInv, TypeOK, Settings
<1>00. \A n \in Messages : \A i \in DOMAIN Manifests[n] :
         Manifests[n][i] \in Files
  BY ManifestFacts
<1>1. CASE StartBatch \/ Bookmark \/ UNCHANGED vars
  <2>1. /\ UNCHANGED <<cfg, msg, present, inserts, faults>>
        /\ \/ pc = "idle" /\ pc' \in {"read", "count"}
           \/ pc' = pc /\ at' = at
    BY <1>1 DEF StartBatch, ToFile, Bookmark, vars
  <2>2. ASSUME NEW n \in Messages, NEW i \in DOMAIN Manifests[n], Yet(n, i)'
        PROVE  Yet(n, i)
    BY <2>1, <2>2 DEF Yet
  <2>3. pc' \in {"insert", "remove", "down"} => pc' = pc /\ file' = file
    BY <2>1 DEF file
  <2>. QED
    BY <2>1, <2>2, <2>3 DEF Repeats, InsertedPerFault
<1>2. CASE ReadFile
  <2>1. /\ pc = "read" /\ pc' = IF file \in present THEN "insert" ELSE "missing"
        /\ UNCHANGED <<cfg, msg, at, present, inserts, faults>>
    BY <1>2 DEF ReadFile
  <2>2. /\ msg \in Messages /\ at \in DOMAIN Manifests[msg] /\ file' = file
    BY <2>1, FileFacts, ManifestFacts DEF IInv, file
  <2>3. ASSUME NEW n \in Messages, NEW i \in DOMAIN Manifests[n], Yet(n, i)'
        PROVE  Yet(n, i)
    BY <2>1, <2>3 DEF Yet
  <2>4. pc' = "insert" => inserts'[file'] <= faults'
    <3>1. Yet(msg, at)
      BY <2>1 DEF Yet
    <3>. QED
      BY <2>1, <2>2, <3>1 DEF Repeats, file
  <2>. QED
    BY <2>1, <2>3, <2>4 DEF Repeats, InsertedPerFault
<1>3. CASE InsertTable
  <2>1. /\ pc = "insert" /\ pc' = "remove" /\ InsertRows
        /\ UNCHANGED <<cfg, msg, at, present, faults>>
    BY <1>3 DEF InsertTable
  <2>2. /\ msg \in Messages /\ at \in DOMAIN Manifests[msg]
        /\ file \in Files /\ file' = file
    BY <2>1, FileFacts, ManifestFacts DEF IInv, file
  <2>3. /\ inserts'[file] <= faults + 1
        /\ \A f \in Files \ {file} : inserts'[f] = inserts[f]
    BY <1>0, <2>1, <2>2 DEF InsertRows, Repeats
  <2>4. ASSUME NEW n \in Messages, NEW i \in DOMAIN Manifests[n], Yet(n, i)'
        PROVE  Yet(n, i) /\ Manifests[n][i] # file
    <3>1. Yet(n, i) /\ ~(n = msg /\ i = at)
      BY <1>0, <2>1, <2>4, ManifestFacts DEF Yet
    <3>. QED
      BY <2>2, <3>1, ManifestsAssumption DEF file
  <2>5. InsertedPerFault'
    BY <1>0, <2>1, <2>3 DEF Repeats, InsertedPerFault
  <2>6. ASSUME NEW n \in Messages, NEW i \in DOMAIN Manifests[n],
               Yet(n, i)', Manifests[n][i] \in present'
        PROVE  inserts'[Manifests[n][i]] <= faults'
    BY <1>00, <2>1, <2>3, <2>4, <2>6 DEF Repeats
  <2>. QED
    BY <1>0, <2>1, <2>2, <2>3, <2>5, <2>6 DEF Repeats
<1>4. CASE InsertFails \/ Crash
  <2>1. /\ pc' = "down" \/ (pc = "insert" /\ pc' = "insert")
        /\ faults' = faults + 1
        /\ UNCHANGED <<cfg, msg, at, present>>
        /\ (pc = "insert" /\ InsertRows) \/ UNCHANGED inserts
    BY <1>4 DEF InsertFails, Crash
  <2>2. \A f \in Files : inserts'[f] <= faults'
    <3>1. CASE UNCHANGED inserts
      BY <1>0, <2>1, <3>1 DEF Repeats, InsertedPerFault
    <3>2. CASE pc = "insert" /\ InsertRows
      <4>1. file \in Files
        BY <3>2, FileFacts DEF IInv
      <4>2. /\ inserts'[file] <= faults + 1
            /\ \A f \in Files \ {file} : inserts'[f] = inserts[f]
        BY <1>0, <3>2, <4>1 DEF InsertRows, Repeats
      <4>. QED
        BY <1>0, <2>1, <4>2 DEF Repeats, InsertedPerFault
    <3>. QED
      BY <2>1, <3>1, <3>2
  <2>3. inserts' \in [Files -> Nat] /\ faults' \in Nat
    <3>1. pc = "insert" => RowsIn[file] \in Nat /\ file \in Files
      BY FileFacts DEF IInv
    <3>. QED
      BY <1>0, <2>1, <3>1 DEF InsertRows
  <2>4. InsertedPerFault'
    BY <2>2, <2>3 DEF InsertedPerFault
  <2>5. pc' = "insert" => file' \in Files
    BY <2>1, FileFacts DEF IInv, file
  <2>. QED
    BY <1>0, <1>00, <2>1, <2>2, <2>4, <2>5 DEF Repeats
<1>5. CASE RemoveFile
  <2>1. /\ pc = "remove" /\ pc' \in {"read", "count"} /\ at' = at + 1
        /\ present' = IF cfg.clean_up_batch_files THEN present \ {file}
                                                  ELSE present
        /\ UNCHANGED <<cfg, msg, inserts, faults>>
    BY <1>5 DEF RemoveFile, ToFile
  <2>2. ASSUME NEW n \in Messages, NEW i \in DOMAIN Manifests[n], Yet(n, i)'
        PROVE  Yet(n, i)
    BY <1>0, <2>1, <2>2, ManifestFacts DEF Yet
  <2>. QED
    BY <2>1, <2>2 DEF Repeats, InsertedPerFault
<1>6. CASE Count
  <2>1. /\ pc = "count" /\ pc' = "idle" /\ msg' = msg + 1
        /\ UNCHANGED <<cfg, present, inserts, faults>>
    BY <1>6 DEF Count
  <2>2. ASSUME NEW n \in Messages, NEW i \in DOMAIN Manifests[n], Yet(n, i)'
        PROVE  Yet(n, i)
    BY <1>0, <2>1, <2>2, ManifestFacts DEF Yet
  <2>. QED
    BY <2>1, <2>2 DEF Repeats, InsertedPerFault
<1>7. CASE Restart
  <2>1. /\ pc \in {"down", "missing"} /\ pc' = "idle"
        /\ cfg.rewrites \/ UNCHANGED present
        /\ UNCHANGED <<cfg, inserts, faults>>
    BY <1>7 DEF Restart
  <2>2. CASE pc = "down"
    BY <1>00, <2>1, <2>2, <1>0 DEF Repeats, InsertedPerFault, IInv, TypeOK
  <2>3. CASE pc = "missing"
    <3>1. cfg.clean_up_batch_files /\ ~cfg.rewrites
      BY <2>3 DEF IInv, MissingWasLoaded
    <3>2. \A f \in present' : inserts'[f] <= faults'
      BY <2>1, <2>3, <3>1 DEF Repeats
    <3>. QED
      BY <2>1, <3>2 DEF Repeats, InsertedPerFault
  <2>. QED
    BY <2>1, <2>2, <2>3
<1>. QED
  BY <1>1, <1>2, <1>3, <1>4, <1>5, <1>6, <1>7 DEF Next, Progress

\* A file is inserted again at most once for each interruption.
THEOREM RepetitionIsExplained == Spec => []InsertedPerFault
<1>1. Repeats => InsertedPerFault
  BY DEF Repeats
<1>2. IInv /\ Repeats /\ [Next]_vars => Repeats'
  BY NextRepeats
<1>. QED
  BY <1>1, <1>2, InitRepeats, Invariance, PTL DEF Spec
=============================================================================
