----------------------------- MODULE ArrowBatch -----------------------------
(***************************************************************************)
(* The BATCH messages of one stream: the sink reads each Arrow file of the *)
(* manifest, inserts its rows, and removes it (process_batch_files and     *)
(* _process_arrow_batch_files of target_clickhouse/sinks.py).  The files   *)
(* are "consume-once": the sink removes the only copy of their rows, so a  *)
(* file must not go before its rows are in the table, wherever the process *)
(* stops.                                                                  *)
(*                                                                         *)
(* The dispatch of the messages and the bookmark are the Singer SDK's.  A  *)
(* pipeline that is run again sends the messages after the last bookmark   *)
(* again: a tap that extracts anew also writes their files again, a replay *)
(* of the same messages does not.                                          *)
(*                                                                         *)
(* An insert is modelled by what BulkLoad promises of it.  Files of other  *)
(* encodings are handled by the SDK and are not modelled.  The _Defect     *)
(* operators are plausible mistakes, as in module InsertPath.              *)
(***************************************************************************)
EXTENDS Integers, FiniteSets, Sequences, FiniteSetsExt

CONSTANTS Manifests,   \* the manifest of each message, a sequence of files
          RowsIn,      \* the rows of each file
          MaxFaults    \* bounds the faults of a behaviour

FilesOf(n) == {Manifests[n][i] : i \in DOMAIN Manifests[n]}
Messages   == DOMAIN Manifests
Files      == UNION {FilesOf(n) : n \in Messages}

ASSUME ManifestsAssumption ==
  /\ Manifests \in Seq(Seq(Files))
  /\ RowsIn \in [Files -> Nat]
  /\ MaxFaults \in Nat
  \* A file is named once.
  /\ \A n, k \in Messages :
       \A i \in DOMAIN Manifests[n], j \in DOMAIN Manifests[k] :
          Manifests[n][i] = Manifests[k][j] => n = k /\ i = j

VARIABLES
  cfg,      \* clean_up_batch_files, and whether a rerun writes its files again
  pc,       \* where process_batch_files is, between messages "idle"
  msg,      \* the message being processed, or the next one
  at,       \* the file of it being processed
  total,    \* the rows inserted for it
  first,    \* the first message of this run
  counted,  \* the rows this run has added to its record counter
  emitted,  \* the messages covered by the last bookmark
  present,  \* the files that exist
  loaded,   \* the files whose rows are all in the table
  inserts,  \* how often the rows of each have been inserted, or some of them
  faults    \* crashes and failed operations

vars == <<cfg, pc, msg, at, total, first, counted, emitted,
          present, loaded, inserts, faults>>

Settings == [clean_up_batch_files : BOOLEAN, rewrites : BOOLEAN]

\* The file being processed, and all the rows of some files.
file == Manifests[msg][at]
SumRows(F) == MapThenSumSet(LAMBDA f : RowsIn[f], F)

Init ==
  /\ cfg \in Settings
  /\ pc = "idle" /\ msg = 1 /\ at = 1 /\ total = 0
  /\ first = 1 /\ counted = 0 /\ emitted = 0
  /\ present = Files /\ loaded = {}
  /\ inserts = [f \in Files |-> 0]
  /\ faults = 0

-----------------------------------------------------------------------------

ToFile_Defect(n) ==
  /\ at' = n
  /\ pc' = IF n <= Len(Manifests[msg]) + 1 THEN "read" ELSE "count"

\* The loop over the files goes on, or returns the total.
ToFile(n) ==
  /\ at' = n
  /\ pc' = IF n <= Len(Manifests[msg]) THEN "read" ELSE "count"

StartBatch ==
  /\ pc = "idle" /\ msg \in Messages
  /\ ToFile(1) /\ total' = 0
  /\ UNCHANGED <<cfg, msg, first, counted, emitted,
                 present, loaded, inserts, faults>>

\* A file that does not exist raises.
ReadFile ==
  /\ pc = "read"
  /\ pc' = IF file \in present THEN "insert" ELSE "missing"
  /\ UNCHANGED <<cfg, msg, at, total, first, counted, emitted,
                 present, loaded, inserts, faults>>

\* An empty table is not inserted at all.
InsertRows ==
  inserts' = IF RowsIn[file] = 0 THEN inserts
             ELSE [inserts EXCEPT ![file] = @ + 1]

InsertTable_Defect ==
  /\ pc = "insert"
  /\ InsertRows /\ loaded' = loaded \cup {file}
  /\ total' = RowsIn[file]
  /\ pc' = "remove"
  /\ UNCHANGED <<cfg, msg, at, first, counted, emitted, present, faults>>

\* The fast insert does not return: the row-based one follows it.
InsertTwice_Defect ==
  /\ pc = "insert"
  /\ inserts' = [inserts EXCEPT ![file] = @ + 2]
  /\ loaded' = loaded \cup {file}
  /\ total' = total + RowsIn[file]
  /\ pc' = "remove"
  /\ UNCHANGED <<cfg, msg, at, first, counted, emitted, present, faults>>

InsertTable ==
  /\ pc = "insert"
  /\ InsertRows /\ loaded' = loaded \cup {file}
  /\ total' = total + RowsIn[file]
  /\ pc' = "remove"
  /\ UNCHANGED <<cfg, msg, at, first, counted, emitted, present, faults>>

InsertFails_Defect ==
  /\ pc = "insert" /\ RowsIn[file] > 0 /\ faults < MaxFaults
  /\ InsertRows /\ faults' = faults + 1
  /\ pc' = "remove"
  /\ UNCHANGED <<cfg, msg, at, total, first, counted, emitted,
                 present, loaded>>

\* Some of the rows may be stored before the insert falls back, or raises.
InsertFails ==
  /\ pc = "insert" /\ RowsIn[file] > 0 /\ faults < MaxFaults
  /\ InsertRows /\ faults' = faults + 1
  /\ pc' \in {"insert", "down"}
  /\ UNCHANGED <<cfg, msg, at, total, first, counted, emitted,
                 present, loaded>>

RemoveFile_Defect ==
  /\ pc = "remove"
  /\ present' = present \ {file}
  /\ ToFile(at + 1)
  /\ UNCHANGED <<cfg, msg, total, first, counted, emitted,
                 loaded, inserts, faults>>

RemoveFile ==
  /\ pc = "remove"
  /\ present' = IF cfg.clean_up_batch_files THEN present \ {file} ELSE present
  /\ ToFile(at + 1)
  /\ UNCHANGED <<cfg, msg, total, first, counted, emitted,
                 loaded, inserts, faults>>

Count ==
  /\ pc = "count"
  /\ counted' = counted + total
  /\ pc' = "idle" /\ msg' = msg + 1
  /\ UNCHANGED <<cfg, at, total, first, emitted,
                 present, loaded, inserts, faults>>

\* The bookmark of the messages processed, written between two of them.
Bookmark ==
  /\ pc = "idle" /\ emitted' = msg - 1
  /\ UNCHANGED <<cfg, pc, msg, at, total, first, counted,
                 present, loaded, inserts, faults>>

\* The process is killed, or a file cannot be read or removed.
Crash ==
  /\ pc # "down" /\ faults < MaxFaults
  /\ pc' = "down" /\ faults' = faults + 1
  /\ UNCHANGED <<cfg, msg, at, total, first, counted, emitted,
                 present, loaded, inserts>>

\* The messages after the last bookmark are sent again, to a new process.
Restart ==
  /\ pc \in {"down", "missing"}
  /\ pc' = "idle"
  /\ msg' = emitted + 1 /\ first' = emitted + 1 /\ at' = 1
  /\ total' = 0 /\ counted' = 0
  /\ present' = IF cfg.rewrites
                THEN present \cup
                     UNION {FilesOf(n) : n \in Messages \ (1 .. emitted)}
                ELSE present
  /\ UNCHANGED <<cfg, emitted, loaded, inserts, faults>>

Progress ==
  StartBatch \/ ReadFile \/ InsertTable \/ RemoveFile \/ Count \/ Restart

Next == Progress \/ Bookmark \/ InsertFails \/ Crash

\* The sink goes on while it has messages; a failed pipeline is run again.
Spec == Init /\ [][Next]_vars /\ WF_vars(Progress)

-----------------------------------------------------------------------------
(* Properties.                                                             *)

\* Every variable keeps its type.
TypeOK ==
  /\ cfg \in Settings
  /\ pc \in {"idle", "read", "insert", "remove", "count", "missing", "down"}
  /\ msg \in 1 .. Len(Manifests) + 1
  /\ at \in Nat \ {0} /\ total \in Nat /\ counted \in Nat
  /\ first \in 1 .. msg /\ emitted \in 0 .. msg - 1
  /\ pc \in {"read", "insert", "remove"} => at \in DOMAIN Manifests[msg]
  /\ present \subseteq Files /\ loaded \subseteq Files
  /\ inserts \in [Files -> Nat]
  /\ faults \in 0 .. MaxFaults

\* Only files whose rows are all in the table have been removed, whichever step
\* the process, or the insert, stopped at (sinks.py, lines 341-347).
RemovedOnlyLoaded == Files \ present \subseteq loaded

\* The bookmark covers no file that is not loaded.
BookmarkLoaded == \A n \in 1 .. emitted : FilesOf(n) \subseteq loaded

\* A run stops at a missing file only if an earlier run loaded and removed it
\* and was then interrupted, and the file was not written again: a manifest
\* that is processed once never loses a file to the clean-up of another.
MissingWasLoaded ==
  pc = "missing" =>
     /\ file \in loaded
     /\ faults > 0 /\ cfg.clean_up_batch_files /\ ~cfg.rewrites

\* The record counter of a run holds the rows of the messages it has finished,
\* every file of each of them once (sinks.py, lines 321-324).
CountedIsLoaded ==
  pc = "idle" =>
     counted = SumRows(UNION {FilesOf(n) : n \in first .. msg - 1})

\* A file is inserted again only because something was interrupted, and at most
\* once for each interruption: not because of what a failed manifest has stored
\* and not counted, nor because a run stops at a missing file again and again
\* (sinks.py, lines 338-347).
InsertedPerFault == \A f \in Files : inserts[f] <= 1 + faults

\* Unless its files are gone, every message is processed in the end.
Completes ==
  cfg.rewrites \/ ~cfg.clean_up_batch_files =>
     <>(pc = "idle" /\ msg > Len(Manifests) /\ loaded = Files)
=============================================================================
