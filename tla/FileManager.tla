---------------------------- MODULE FileManager ----------------------------
(***************************************************************************)
(* logger/FileManager and the threads that use it: trace writers finishing  *)
(* a trace (TraceOrchestrator.handleZipAndUpload), the upload service       *)
(* reporting success, triggerUpload and clearConfigurationAndTraces.        *)
(* FileManager is called under the orchestrator's monitor, so a call is one *)
(* step; the file of a trace is moved into the base folder outside it.      *)
(*                                                                          *)
(* A file name is its kind, its date and its extension.  Names of one kind  *)
(* are ordered by date: they come from one process, with dates of one       *)
(* width.  A rename may fail; a delete of an existing file does not.        *)
(***************************************************************************)
EXTENDS Integers, Sequences, FiniteSets, FiniteSetsExt

CONSTANTS
    MaxTraces,              \* bound: traces finished; trace i has date i
    mMaxArchivedTraces      \* files kept in the base folder

ASSUME ArchiveAssumption == MaxTraces \in Nat /\ mMaxArchivedTraces \in Nat

Traces == 1 .. MaxTraces

VARIABLES
    base, uploads,  \* the names in the base and in the upload folder
    old,            \* names in the upload folder older than the maximal age
    listed,         \* names given to the upload service and not yet reported
    writer          \* trace -> "writing", "moved" (into base) or "finished"

vars == <<base, uploads, old, listed, writer>>

Name == [date : Traces, priority : BOOLEAN, ext : {"tmp", "log"}]
TmpName(tr) == [date |-> tr, priority |-> FALSE, ext |-> "tmp"]

\* The name addFileToUploads gives the file.
LogName(tr, priority) == [date |-> tr, priority |-> priority, ext |-> "log"]

\* getName().compareTo: "override-" sorts after a digit.
Before(m, n) ==
    \/ ~m.priority /\ n.priority
    \/ m.priority = n.priority /\ m.date < n.date

Init ==
    /\ base = {} /\ uploads = {} /\ old = {} /\ listed = {}
    /\ writer = [tr \in Traces |-> "writing"]


\* What trimFolderByFileCount leaves in the folder: the last files by name.
trimFolderByFileCount(folder) ==
    {n \in folder : Cardinality({m \in folder : Before(n, m)}) < mMaxArchivedTraces}

-----------------------------------------------------------------------------
\* handleZipAndUpload: the trace file, or the zip of the trace folder, is
\* renamed into the base folder.
MoveToBase(tr) ==
    /\ writer[tr] = "writing"
    /\ base' = base \cup {TmpName(tr)}
    /\ writer' = [writer EXCEPT ![tr] = "moved"]
    /\ UNCHANGED <<uploads, old, listed>>

\* canUploadFlushedTrace says no: the file stays where it is.
Refuse(tr) ==
    /\ writer[tr] = "moved"
    /\ writer' = [writer EXCEPT ![tr] = "finished"]
    /\ UNCHANGED <<base, uploads, old, listed>>

\* triggerUpload: what is left in the upload folder is given to the service,
\* if one is set.
GiveToService(names) == listed' \in {listed, listed \cup names}

\* Mutant: the age test is turned around.
AddFileToUploadsYoung(tr, priority) ==
    \E moved \in SUBSET ({TmpName(tr)} \cap base), kept \in SUBSET (uploads \ old) :
      /\ writer[tr] = "moved"
      /\ uploads' = old \cup {LogName(n.date, priority) : n \in moved}
      /\ base' = trimFolderByFileCount((base \ moved) \cup kept)
      /\ old' = old
      /\ GiveToService(uploads')
      /\ writer' = [writer EXCEPT ![tr] = "finished"]

\* addFileToUploads and triggerUpload, in one synchronized block: rename the
\* file, which is gone if it was trimmed meanwhile; move old files back (they
\* are deleted if the rename fails); trim the base folder; give the service
\* what is left (making its lists trims by age again, at the same time).
AddFileToUploads(tr, priority) ==
    \E moved \in SUBSET ({TmpName(tr)} \cap base), kept \in SUBSET old :
      /\ writer[tr] = "moved"
      /\ uploads' = (uploads \ old) \cup {LogName(n.date, priority) : n \in moved}
      /\ base' = trimFolderByFileCount((base \ moved) \cup kept)
      /\ old' = {}
      /\ GiveToService(uploads')
      /\ writer' = [writer EXCEPT ![tr] = "finished"]

\* addFileToUploads when the upload folder cannot be made: only an error is
\* counted, and triggerUpload finds no files.
AddFileFails(tr) ==
    /\ writer[tr] = "moved"
    /\ uploads = {}
    /\ writer' = [writer EXCEPT ![tr] = "finished"]
    /\ UNCHANGED <<base, uploads, old, listed>>

\* setBackgroundUploadService calls triggerUpload: old files go back to the
\* base folder, which is not trimmed.
TriggerUpload ==
    \E kept \in SUBSET old :
      /\ base' = base \cup kept
      /\ uploads' = uploads \ old
      /\ old' = {}
      /\ listed' = listed \cup uploads'
      /\ UNCHANGED writer


\* onUploadSuccessful, of a file given to the service: moveOrDelete, and a
\* trim if the move went well.
HandleSuccessfulUpload(n) ==
    \E kept \in SUBSET ({n} \cap uploads) :
      /\ n \in listed
      /\ listed' = listed \ {n}
      /\ base' = IF kept = {} THEN base ELSE trimFolderByFileCount(base \cup kept)
      /\ uploads' = uploads \ {n}
      /\ old' = old \ {n}
      /\ UNCHANGED writer

\* Time passes: a file in the upload folder gets too old.
Age(n) ==
    /\ n \in uploads \ old
    /\ old' = old \cup {n}
    /\ UNCHANGED <<base, uploads, listed, writer>>

\* clearConfigurationAndTraces
DeleteAllFiles ==
    /\ base' = {} /\ uploads' = {} /\ old' = {}
    /\ UNCHANGED <<listed, writer>>

Next ==
    \/ \E tr \in Traces :
         \/ MoveToBase(tr) \/ Refuse(tr) \/ AddFileFails(tr)
         \/ \E priority \in BOOLEAN : AddFileToUploads(tr, priority)
    \/ \E n \in Name : HandleSuccessfulUpload(n) \/ Age(n)
    \/ TriggerUpload \/ DeleteAllFiles

Spec == Init /\ [][Next]_vars

-----------------------------------------------------------------------------
\* Every variable has its type; ".tmp" names are never scheduled for upload.
TypeOK ==
    /\ base \subseteq Name
    /\ uploads \subseteq {n \in Name : n.ext = "log"}
    /\ old \subseteq uploads /\ listed \subseteq Name
    /\ writer \in [Traces -> {"writing", "moved", "finished"}]


\* A file leaves the upload folder only because it was uploaded, because it is
\* too old, or because all files are deleted.
ScheduledKept ==
    [][\A n \in uploads \ uploads' :
         \/ n \in listed \ listed'
         \/ n \in old
         \/ uploads' = {} /\ base' = {}]_vars


\* "The ".tmp" files are currently ignored by the trimming algorithms": the
\* file of a trace on its way to the upload folder stays in the base folder
\* until it is added, unless all files are deleted.
InFlightKept ==
    [][\A tr \in Traces :
         writer[tr] = "moved" /\ writer'[tr] = "moved" /\ TmpName(tr) \in base
         => TmpName(tr) \in base' \/ base' \cup uploads' = {}]_vars
=============================================================================
