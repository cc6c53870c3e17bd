------------------------------ MODULE ChangeLog ------------------------------
(***************************************************************************)
(* The change log (internal/app/change_log.go) and the writer goroutine     *)
(* that owns it (stream_output.go): a file that is rotated into one backup. *)
(* Rotation is four system calls; each may fail, and the process may be     *)
(* killed between two of them and started again on what it left.            *)
(*                                                                         *)
(* A row is a number, all rows have size one.                               *)
(***************************************************************************)
EXTENDS Naturals, Sequences

CONSTANTS
  MaxSize,   \* maxChangeLogSize, in rows
  MaxLogged, \* bound: rows written
  MaxStarts  \* bound: starts of the process

ASSUME LimitAssumption == MaxSize \in Nat \ {0}
ASSUME BoundsAssumption == MaxLogged \in Nat /\ MaxStarts \in Nat

NoFile == <<0>>   \* no row has the number 0

VARIABLES
  file, backup,  \* the rows of the two files, or NoFile
  size,             \* changeLog.size
  logger,           \* where the writer goroutine is; "down" without a process
  rows,             \* rows written or tried so far
  torn,             \* rows that were being written at a failure or a kill
  starts

lvars == <<file, backup, size, logger, rows, torn, starts>>
content(f) == IF f = NoFile THEN <<>> ELSE f

(* O_CREATE and O_APPEND: what is there is kept. *)
OpenLog ==
  /\ logger = "down" /\ starts < MaxStarts
  /\ file' = content(file)
  /\ size' = Len(content(file))
  /\ logger' = "write" /\ starts' = starts + 1
  /\ UNCHANGED <<backup, rows, torn>>

WriteRow ==
  /\ logger = "write" /\ rows < MaxLogged
  /\ size = 0 \/ size + 1 <= MaxSize
  /\ rows' = rows + 1
  /\ file' = Append(file, rows + 1) /\ size' = size + 1
  /\ UNCHANGED <<backup, logger, torn, starts>>
WriteFails ==
  /\ logger = "write" /\ rows < MaxLogged
  /\ size = 0 \/ size + 1 <= MaxSize
  /\ rows' = rows + 1 /\ torn' = torn \cup {rows + 1}
  /\ logger' = "down"
  /\ UNCHANGED <<file, backup, size, starts>>

(* rotate, for the next row: close, remove, rename, create. *)
Rotate ==
  /\ logger = "write" /\ rows < MaxLogged /\ size > 0 /\ size + 1 > MaxSize
  /\ logger' = "remove"
  /\ UNCHANGED <<file, backup, size, rows, torn, starts>>
RemoveNothing ==   \* mutant: the wrong file is removed
  /\ logger = "remove" /\ logger' = "rename"
  /\ file' = <<>>
  /\ UNCHANGED <<backup, size, rows, torn, starts>>
RemoveBackup ==
  /\ logger = "remove" /\ logger' = "rename"
  /\ backup' = NoFile
  /\ UNCHANGED <<file, size, rows, torn, starts>>
Rename ==
  /\ logger = "rename" /\ logger' = "create"
  /\ backup' = file /\ file' = NoFile
  /\ UNCHANGED <<size, rows, torn, starts>>
Create ==
  /\ logger = "create" /\ file = NoFile
  /\ file' = <<>> /\ size' = 0
  /\ logger' = "write"
  /\ UNCHANGED <<backup, rows, torn, starts>>

(* A call of rotate fails: the row is lost, the writer ends with the error   *)
(* and with it the run.  A kill does the same at any moment.                 *)
RotateFails ==
  /\ logger \in {"remove", "rename", "create"}
  /\ rows' = rows + 1 /\ torn' = torn \cup {rows + 1}
  /\ logger' = "down"
  /\ UNCHANGED <<file, backup, size, starts>>
Kill ==
  /\ logger # "down"
  /\ logger' = "down"
  /\ IF logger = "write" THEN UNCHANGED <<rows, torn>>
     ELSE rows' = rows + 1 /\ torn' = torn \cup {rows + 1}
  /\ UNCHANGED <<file, backup, size, starts>>

LogInit ==
  /\ file = NoFile /\ backup = NoFile /\ size = 0
  /\ logger = "down" /\ rows = 0 /\ torn = {} /\ starts = 0

LogNext ==
  \/ OpenLog \/ WriteRow \/ WriteFails \/ Rotate \/ RemoveBackup \/ Rename \/ Create
  \/ RotateFails \/ Kill
LogSpec == LogInit /\ [][LogNext]_lvars

(***************************************************************************)
(* Properties.                                                             *)
(***************************************************************************)
kept == content(backup) \o content(file)

(* The two files together are the last rows written, in order and without a  *)
(* gap, and at least as many as the limit allows, whatever failed and        *)
(* wherever the process was killed; a row is missing only if its own write   *)
(* was cut (rotate, openChangeLog).                                          *)
InOrder == \A i, j \in 1..Len(kept) : i < j => kept[i] < kept[j]
KeepsLatest ==
  /\ InOrder
  /\ \E last \in 0..rows :   \* the last row that is gone
       /\ {kept[i] : i \in 1..Len(kept)} = ((last + 1)..rows) \ torn
       /\ last = 0 \/ Len(kept) >= MaxSize

(* The log does not outgrow its limit, over restarts too (Write).            *)
SizeKept ==
  /\ Len(content(file)) <= MaxSize /\ Len(content(backup)) <= MaxSize
  /\ logger = "write" => size = Len(content(file))
LogKept == KeepsLatest /\ SizeKept
=============================================================================
