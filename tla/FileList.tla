------------------------------- MODULE FileList -------------------------------
(***************************************************************************)
(* UTIL_createFileList and UTIL_prepareFileList (-r): directories are      *)
(* walked depth first, and the names of files are put one after the other  *)
(* into one buffer, which grows by LIST_SIZE_INCREASE when a name does not *)
(* fit.  The table of names is made from the buffer at the end, by their   *)
(* count.                                                                  *)
(*                                                                         *)
(* The calls of the walk are frames of a stack.  The code adds up counts   *)
(* as calls return and forgets a call's when it fails; here nbFiles is     *)
(* what all of them have counted, and a failing call puts back the value   *)
(* it found.                                                               *)
(***************************************************************************)
EXTENDS Integers, Sequences

CONSTANTS
  Entries,   \* for each directory, the paths of what it holds
  Length,    \* strlen of each path
  ListStep,  \* LIST_SIZE_INCREASE
  MaxFaults  \* bound: calls to the system that fail

Dir == DOMAIN Entries
Path == DOMAIN Length

(* The path of an entry is the directory's, a slash and a name.             *)
ASSUME FileListAssumption ==
  /\ Dir \subseteq Path
  /\ Entries \in [Dir -> SUBSET Path]
  /\ Length \in [Path -> Nat]
  /\ \A c, d \in Dir : c # d => Entries[c] \cap Entries[d] = {}
  /\ \A d \in Dir : \A p \in Entries[d] : Length[p] > Length[d]
  /\ ListStep \in Nat \ {0}
  /\ MaxFaults \in Nat

VARIABLES
  inputs,    \* inputNames, from the one in hand
  stack,     \* calls of prepareFileList: entries not yet read, nbFiles before
  pos, cap,  \* pos, and bufend - buf: 0 when buf is NULL
  found,     \* the names in the buffer, each with its offset
  nbFiles,   \* names counted
  table,     \* fileTable
  lpc,       \* where createFileList is
  faults     \* history: failed calls so far

listVars == <<inputs, stack, pos, cap, found, nbFiles, table, lpc, faults>>

-------------------------------------------------------------------------------
ListInit ==
  /\ inputs = <<>> /\ stack = <<>>
  /\ pos = 0 /\ cap = 0
  /\ found = <<>> /\ nbFiles = 0
  /\ table = <<>>
  /\ lpc = "idle"
  /\ faults = 0

Fault ==
  /\ faults < MaxFaults
  /\ faults' = faults + 1

CreateList(args) ==
  /\ lpc = "idle"
  /\ inputs' = args
  /\ cap' = ListStep
  /\ lpc' = "walk"
  /\ UNCHANGED <<stack, pos, found, nbFiles, table, faults>>

(* The first malloc fails. *)
CreateFails ==
  /\ lpc = "idle"
  /\ Fault
  /\ lpc' = "null"
  /\ UNCHANGED <<inputs, stack, pos, cap, found, nbFiles, table>>

Top == stack[Len(stack)]
Callers == SubSeq(stack, 1, Len(stack) - 1)

(* The path in hand: the next argument, or any entry not yet read of the    *)
(* directory being walked.  It is stepped over by Advance.                  *)
InHand(p) ==
  /\ lpc = "walk"
  /\ IF stack = <<>> THEN inputs # <<>> /\ p = Head(inputs)
                     ELSE p \in Top.left

Advanced(p) ==
  IF stack = <<>> THEN stack
                  ELSE Append(Callers, [Top EXCEPT !.left = @ \ {p}])

Advance(p) ==
  /\ inputs' = IF stack = <<>> THEN Tail(inputs) ELSE inputs
  /\ stack' = Advanced(p)

Put_NoTerminator(p, c) ==
  /\ cap' = c
  /\ IF pos + Length[p] <= c
       THEN /\ found' = Append(found, [path |-> p, at |-> pos])
            /\ pos' = pos + Length[p] + 1
            /\ nbFiles' = nbFiles + 1
       ELSE UNCHANGED <<found, pos, nbFiles>>

(* A name is put where it fits with its terminator; the buffer has grown at *)
(* most once for it, and a name that still does not fit is left out.        *)
Put(p, c) ==
  /\ cap' = c
  /\ IF pos + Length[p] < c
       THEN /\ found' = Append(found, [path |-> p, at |-> pos])
            /\ pos' = pos + Length[p] + 1
            /\ nbFiles' = nbFiles + 1
       ELSE UNCHANGED <<found, pos, nbFiles>>

Grown(p) == IF pos + Length[p] >= cap THEN cap + ListStep ELSE cap

AddFile ==
  \E p \in Path :
    /\ InHand(p) /\ p \notin Dir
    /\ Put(p, Grown(p))
    /\ Advance(p)
    /\ UNCHANGED <<table, lpc, faults>>

(* A directory that somebody removed since its name was read: stat fails,   *)
(* and what is no directory counts as a file.                               *)
AddVanished ==
  \E p \in Dir :
    /\ InHand(p)
    /\ Fault
    /\ Put(p, Grown(p))
    /\ Advance(p)
    /\ UNCHANGED <<table, lpc>>

(* UTIL_realloc frees the buffer; every call of the walk sees it is NULL    *)
(* and returns.                                                             *)
GrowFails ==
  \E p \in Path :
    /\ InHand(p) /\ p \notin Dir
    /\ pos + Length[p] >= cap
    /\ Fault
    /\ cap' = 0
    /\ stack' = <<>>
    /\ lpc' = "null"
    /\ UNCHANGED <<inputs, pos, found, nbFiles, table>>

OpenDirectory ==
  \E d \in Dir :
    /\ InHand(d)
    /\ inputs' = IF stack = <<>> THEN Tail(inputs) ELSE inputs
    /\ stack' = Append(Advanced(d), [left |-> Entries[d], before |-> nbFiles])
    /\ UNCHANGED <<pos, cap, found, nbFiles, table, lpc, faults>>

OpenFails ==
  \E d \in Dir :
    /\ InHand(d)
    /\ Fault
    /\ Advance(d)
    /\ UNCHANGED <<pos, cap, found, nbFiles, table, lpc>>

(* malloc of an entry's path fails: the call returns 0, and the names it    *)
(* put stay in the buffer.                                                  *)
PathFails ==
  /\ lpc = "walk" /\ stack # <<>> /\ Top.left # {}
  /\ Fault
  /\ nbFiles' = Top.before
  /\ stack' = Callers
  /\ UNCHANGED <<inputs, pos, cap, found, table, lpc>>

(* readdir fails: the buffer is freed, and the walk ends as above.          *)
ReadFails ==
  /\ lpc = "walk" /\ stack # <<>>
  /\ Fault
  /\ cap' = 0
  /\ stack' = <<>>
  /\ lpc' = "null"
  /\ UNCHANGED <<inputs, pos, found, nbFiles, table>>

CloseDirectory_Reset ==
  /\ lpc = "walk" /\ stack # <<>> /\ Top.left = {}
  /\ stack' = Callers
  /\ nbFiles' = nbFiles - Top.before
  /\ UNCHANGED <<inputs, pos, cap, found, table, lpc, faults>>

CloseDirectory ==
  /\ lpc = "walk" /\ stack # <<>> /\ Top.left = {}
  /\ stack' = Callers
  /\ UNCHANGED <<inputs, pos, cap, found, nbFiles, table, lpc, faults>>

Walked == lpc = "walk" /\ stack = <<>> /\ inputs = <<>>

NothingFound ==
  /\ Walked /\ nbFiles = 0
  /\ cap' = 0
  /\ lpc' = "null"
  /\ UNCHANGED <<inputs, stack, pos, found, nbFiles, table, faults>>

(* The offset after the nbFiles-th name. *)
TableEnd == found[nbFiles].at + Length[found[nbFiles].path] + 1

BuildTable ==
  /\ Walked /\ nbFiles > 0
  /\ table' = [k \in 1 .. nbFiles |-> found[k].path]
  /\ IF TableEnd > cap THEN lpc' = "null" /\ cap' = 0
                       ELSE lpc' = "built" /\ UNCHANGED cap
  /\ UNCHANGED <<inputs, stack, pos, found, nbFiles, faults>>

TableFails ==
  /\ Walked /\ nbFiles > 0
  /\ Fault
  /\ cap' = 0
  /\ lpc' = "null"
  /\ UNCHANGED <<inputs, stack, pos, found, nbFiles, table>>

WalkNext ==
  \/ CreateFails
  \/ AddFile
  \/ AddVanished
  \/ GrowFails
  \/ OpenDirectory
  \/ OpenFails
  \/ PathFails
  \/ ReadFails
  \/ CloseDirectory
  \/ NothingFound
  \/ BuildTable
  \/ TableFails

ListNext == WalkNext \/ \E args \in Seq(Path) : CreateList(args)

ListSpec == ListInit /\ [][ListNext]_listVars

-------------------------------------------------------------------------------
ListTypeOK ==
  /\ inputs \in Seq(Path)
  /\ stack \in Seq([left : SUBSET Path, before : Nat])
  /\ {pos, cap, nbFiles} \subseteq Nat
  /\ found \in Seq([path : Path, at : Nat])
  /\ table \in Seq(Path)
  /\ lpc \in {"idle", "walk", "built", "null"}
  /\ faults \in 0 .. MaxFaults

(* The paths of S, what they hold if they are directories, and so on.       *)
Under(S) ==
  {p \in Path : \A T \in SUBSET Path :
     S \subseteq T /\ (\A d \in T \cap Dir : Entries[d] \subseteq T) => p \in T}

EndOf(k) == found[k].at + Length[found[k].path] + 1

(* The names lie one after the other in the buffer, each with its           *)
(* terminator, however the buffer grew; and whatever calls failed and took  *)
(* their counts back, no call counts a name that is not there, so that the  *)
(* table is filled without reading past the last name (the loop over        *)
(* nbFiles in UTIL_createFileList, which only looks for terminators).       *)
NamesInBuffer ==
  lpc \in {"walk", "built"} =>
    /\ nbFiles <= Len(found)
    /\ pos <= cap
    /\ \A k \in 1 .. Len(found) :
         /\ found[k].at = IF k = 1 THEN 0 ELSE EndOf(k - 1)
         /\ EndOf(k) <= pos
===============================================================================
