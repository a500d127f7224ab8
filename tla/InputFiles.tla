------------------------------ MODULE InputFiles ------------------------------
(***************************************************************************)
(* The files named on the command line, as lzbench_main and lzbench_join   *)
(* find them: any of them may be a directory or missing, and other         *)
(* processes write, truncate and remove them while lzbench runs.           *)
(* lzbench_main asks no size of a file before it opens it, so that what it *)
(* sees of a file that fopen refuses is what it sees of a missing one;     *)
(* LzbenchJoin tells the two apart.                                        *)
(***************************************************************************)
EXTENDS Integers

CONSTANTS
  Files,      \* number of arguments
  MaxSize,    \* bound: size of a file
  MaxChanges  \* bound: changes made by others

ASSUME FilesAssumption == {Files, MaxSize, MaxChanges} \subseteq Nat

VARIABLES
  kind,       \* "regular", "directory" or "missing", for each argument
  size,       \* the size of each regular file, removed ones included
  changes     \* history: changes made so far

fileVars == <<kind, size, changes>>

File == 1 .. Files

FilesTypeOK ==
  /\ kind \in [File -> {"regular", "directory", "missing"}]
  /\ size \in [File -> 0 .. MaxSize]
  /\ changes \in 0 .. MaxChanges

FilesInit ==
  /\ kind \in [File -> {"regular", "directory", "missing"}]
  /\ size \in [File -> 0 .. MaxSize]
  /\ \A f \in File : kind[f] # "regular" => size[f] = 0
  /\ changes = 0

(* Another process appends or truncates. *)
Resize ==
  /\ changes < MaxChanges
  /\ changes' = changes + 1
  /\ \E f \in File, n \in 0 .. MaxSize :
       /\ kind[f] = "regular"
       /\ n # size[f]
       /\ size' = [size EXCEPT ![f] = n]
  /\ UNCHANGED kind

(* Another process removes a file; one that is open stays readable. *)
Unlink ==
  /\ changes < MaxChanges
  /\ changes' = changes + 1
  /\ \E f \in File :
       /\ kind[f] = "regular"
       /\ kind' = [kind EXCEPT ![f] = "missing"]
  /\ UNCHANGED size

Interfere == Resize \/ Unlink

Smaller(a, b) == IF a < b THEN a ELSE b

(* What fread(buf, 1, n, in) at offset pos gets of file f. *)
Available(f, pos, n) == IF pos < size[f] THEN Smaller(n, size[f] - pos) ELSE 0
===============================================================================
