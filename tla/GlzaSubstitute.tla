----------------------------- MODULE GlzaSubstitute ---------------------------
(***************************************************************************)
(* GLZA's compressor replaces every occurrence of its new rules in the     *)
(* text by the rules' symbols, in place and with several threads: the main *)
(* thread scans the first part of the text, a find_substitutions_thread    *)
(* each of the others, and substitute_thread rewrites the text.            *)
(*                                                                         *)
(* Scans make commands: copy n symbols, or skip n symbols and put the next *)
(* word, a rule's symbol.  The finders put theirs into rings of their own; *)
(* the main thread posts first its own and then the finders', in the       *)
(* text's order, to the ring that substitute_thread reads.  Threads wait   *)
(* for each other in loops on the rings' indices, each stored by one       *)
(* thread.                                                                 *)
(*                                                                         *)
(* The match automaton is abstracted to what it finds: the leftmost        *)
(* occurrence of a rule after the one before.  A step that reads several   *)
(* symbols, or writes a slot and stores the index that makes it visible,   *)
(* is one step; what another thread must not touch meanwhile is            *)
(* BehindReaders' subject.                                                 *)
(***************************************************************************)
EXTENDS Integers, Sequences

CONSTANTS
  Texts,       \* the texts to explore
  Rules,       \* for each new symbol what it stands for
  Threads,     \* number of finders, 6
  Long,        \* length of text from which there are finders, 1000000
  Half,        \* 0x8000, half of the ring to substitute_thread
  Batch,       \* 0x40, commands that are moved together
  FinderRing,  \* 0x40000, the size of a finder's ring
  CopyMax,     \* 100000, copies that long are posted
  OldIndex     \* write_index of the finders before they run

Finder == 1 .. Threads
Ring == 2 * Half

Values(q) == {q[k] : k \in DOMAIN q}

(* No rule occurs inside another one.  A block is at least as long as the   *)
(* longest rule, and nobody fills half of a ring with copies of CopyMax.    *)
ASSUME SubstituteAssumption ==
  /\ {Threads, Half, Batch, FinderRing, CopyMax} \subseteq Nat \ {0}
  /\ {Long, OldIndex} \subseteq Nat
  /\ \A t \in Texts : t \in Seq(Values(t))
  /\ \A s \in DOMAIN Rules : Rules[s] \in Seq(Values(Rules[s]))
  /\ Half % Batch = 0 /\ Half > Batch /\ FinderRing > Batch
  /\ OldIndex < FinderRing
  /\ \A s \in DOMAIN Rules : Len(Rules[s]) > 1
  /\ \A r, s \in DOMAIN Rules : r # s =>
       ~\E k \in 0 .. Len(Rules[s]) - Len(Rules[r]) :
          SubSeq(Rules[s], k + 1, k + Len(Rules[r])) = Rules[r]
  /\ \A t \in Texts :
       /\ Len(t) < (Half - 1) * CopyMax
       /\ Len(t) >= Long => \A s \in DOMAIN Rules :
            Len(Rules[s]) <= Len(t) \div (Threads + 1)

VARIABLES
  text,    \* the text before
  buf,     \* the text, as it is rewritten
  finder,  \* the finders, with their rings and indices
  mpc,     \* where the main thread is
  pos, copied, queue,        \* main's scan: next symbol, copies and commands not posted
  extra,   \* extra_match_symbols: what the last match covers of the next region
  cur, taken, upTo,          \* i1, substitutions_index, local_substitutions_write_index
  ring, posted, wrote, read, \* substitute_data, substitute_index and the two shared indices
  spc, next, seen,           \* substitute_thread: its own index and local_write_index
  old, out                   \* old_data_ptr, out_symbol_ptr

mainVars == <<mpc, pos, copied, queue, extra, cur, taken, upTo, posted, wrote>>
substVars == <<read, spc, next, seen, old, out, buf>>
vars == <<text, finder, ring, mainVars, substVars>>

-------------------------------------------------------------------------------
Copy(n) == [do |-> "copy", n |-> n]
Skip(n) == [do |-> "skip", n |-> n]
Put(s) == [do |-> "put", symbol |-> s]
EndOfText == [do |-> "end"]

L == Len(text)
Split == L >= Long

(* The regions: the main thread's is the smallest, the last one gets what   *)
(* the division leaves.                                                     *)
Stop0 == IF Split THEN 1 + L \div (Threads + 2) ELSE L + 1
Block == L \div (Threads + 1)
StartOf(t) == Stop0 + (t - 1) * Block
StopOf(t) == IF t = Threads THEN L + 1 ELSE StartOf(t) + Block

RuleAt(b, p) ==
  {s \in DOMAIN Rules :
     /\ p + Len(Rules[s]) - 1 <= Len(b)
     /\ \A k \in 1 .. Len(Rules[s]) : b[p + k - 1] = Rules[s][k]}

Commands(c, s) ==
  (IF c > 0 THEN <<Copy(c)>> ELSE <<>>) \o <<Skip(Len(Rules[s])), Put(s)>>

(* One turn of a scan at p with c symbols to copy: a match, or one more     *)
(* symbol.  A copy of CopyMax is posted at one of the next tests: some are  *)
(* > 100000, others >= 100000, and several symbols added at once, after a   *)
(* prefix of a rule that went no further, pass without a test.              *)
Turns(p, c) ==
  LET Turn(p1, c1, q) == [pos |-> p1, copied |-> c1, queue |-> q]
      matches == {Turn(p + Len(Rules[s]), 0, Commands(c, s)) : s \in RuleAt(buf, p)}
  IN IF matches # {} THEN matches
     ELSE {Turn(p + 1, c + 1, <<>>)}
            \cup {t \in {Turn(p + 1, 0, <<Copy(c + 1)>>)} : c + 1 >= CopyMax}

Unread == (posted - read) % Ring

NoFinder(t) ==
  [pc |-> "none", start |-> StartOf(t), pos |-> 0, copied |-> 0, queue |-> <<>>,
   extra |-> 0, write |-> OldIndex, read |-> 0, done |-> FALSE,
   data |-> [k \in 0 .. FinderRing - 1 |-> Copy(1)]]

Init ==
  /\ text \in Texts
  /\ buf = text
  /\ finder = [t \in Finder |-> NoFinder(t)]
  /\ mpc = "create"
  /\ pos = 1 /\ copied = 0 /\ queue = <<>>
  /\ extra = 0
  /\ cur = 1 /\ taken = 0 /\ upTo = 0
  /\ ring = [k \in 0 .. Ring - 1 |-> EndOfText]
  /\ posted = 0 /\ wrote = 0
  /\ read \in {0, Half}  \* left by the substitution before
  /\ spc = "none" /\ next = 0 /\ seen = 0
  /\ old = 1 /\ out = 1

-------------------------------------------------------------------------------
(* The finders. *)

Become(t, f) == finder' = [finder EXCEPT ![t] = f]

StartFinder(t) ==
  LET f == finder[t]
  IN /\ f.pc = "created"
     /\ Become(t, [f EXCEPT !.pc = "ready", !.extra = 0, !.write = 0,
                            !.pos = f.start, !.copied = 0, !.queue = <<>>])

BeginScan(t) ==
  /\ finder[t].pc = "ready" /\ finder[t].read = 0
  /\ Become(t, [finder[t] EXCEPT !.pc = "scan"])

FindNext(t) ==
  LET f == finder[t]
  IN /\ f.pc = "scan" /\ f.queue = <<>> /\ f.pos < StopOf(t)
     /\ \E turn \in Turns(f.pos, f.copied) :
          Become(t, [f EXCEPT !.pos = turn.pos, !.copied = turn.copied,
                              !.queue = turn.queue])

Full_Never(f) == FALSE

Full(f) == (f.write - f.read) % FinderRing = FinderRing - 1

(* A command goes into the ring when there is room. *)
PutCommand(t) ==
  LET f == finder[t]
  IN /\ f.pc = "scan" /\ f.queue # <<>> /\ ~Full(f)
     /\ Become(t, [f EXCEPT !.data[f.write] = Head(f.queue),
                            !.queue = Tail(@),
                            !.write = (@ + 1) % FinderRing])

LastCopy(t) ==
  LET f == finder[t]
  IN /\ f.pc = "scan" /\ f.queue = <<>> /\ f.pos >= StopOf(t) /\ f.copied > 0
     /\ Become(t, [f EXCEPT !.queue = <<Copy(f.copied)>>, !.copied = 0])

EndFinder(t) ==
  LET f == finder[t]
  IN /\ f.pc = "scan" /\ f.queue = <<>> /\ f.pos >= StopOf(t) /\ f.copied = 0
     /\ Become(t, [f EXCEPT !.pc = "ended", !.done = TRUE,
                            !.extra = f.pos - StopOf(t)])

FinderStep(t) ==
  /\ \/ StartFinder(t)
     \/ BeginScan(t)
     \/ FindNext(t)
     \/ PutCommand(t)
     \/ LastCopy(t)
     \/ EndFinder(t)
  /\ UNCHANGED <<text, ring, mainVars, substVars>>

-------------------------------------------------------------------------------
(* substitute_thread. *)

StartSubstitute ==
  /\ spc = "created"
  /\ read' = 0
  /\ next' = 0 /\ seen' = 0
  /\ spc' = "look"
  /\ UNCHANGED <<old, out, buf>>

Look ==
  /\ spc = "look"
  /\ wrote # next
  /\ seen' = wrote
  /\ spc' = "obey"
  /\ UNCHANGED <<read, next, old, out, buf>>

(* memmove: out is left of old. *)
CopySymbols ==
  /\ spc = "obey" /\ next # seen
  /\ ring[next].do = "copy"
  /\ LET n == ring[next].n
     IN /\ buf' = [k \in 1 .. L |-> IF k \in out .. out + n - 1 THEN buf[k - out + old]
                                                               ELSE buf[k]]
        /\ out' = out + n
        /\ old' = old + n
  /\ next' = (next + 1) % Ring
  /\ UNCHANGED <<read, spc, seen>>

SkipSymbols ==
  /\ spc = "obey" /\ next # seen
  /\ ring[next].do = "skip"
  /\ old' = old + ring[next].n
  /\ next' = (next + 1) % Ring
  /\ spc' = IF next' = seen THEN "half" ELSE "put"
  /\ read' = IF next' = seen THEN next' ELSE read
  /\ UNCHANGED <<seen, out, buf>>

(* The symbol is not there yet. *)
AwaitSymbol ==
  /\ spc = "half" /\ wrote # next
  /\ seen' = wrote
  /\ spc' = "put"
  /\ UNCHANGED <<read, next, old, out, buf>>

PutSymbol ==
  /\ spc = "put"
  /\ buf' = [buf EXCEPT ![out] = ring[next].symbol]
  /\ out' = out + 1
  /\ next' = (next + 1) % Ring
  /\ spc' = "obey"
  /\ UNCHANGED <<read, seen, old>>

ReleaseBatch ==
  /\ spc = "obey" /\ next = seen
  /\ read' = next
  /\ spc' = "look"
  /\ UNCHANGED <<next, seen, old, out, buf>>

EndSubstitute ==
  /\ spc = "obey" /\ next # seen
  /\ ring[next].do = "end"
  /\ next' = (next + 1) % Ring
  /\ read' = next'
  /\ spc' = "ended"
  /\ UNCHANGED <<seen, old, out, buf>>

SubstituteStep ==
  /\ \/ StartSubstitute
     \/ Look
     \/ CopySymbols
     \/ SkipSymbols
     \/ AwaitSymbol
     \/ PutSymbol
     \/ ReleaseBatch
     \/ EndSubstitute
  /\ UNCHANGED <<text, finder, ring, mainVars>>

-------------------------------------------------------------------------------
(* The main thread. *)

CreateThreads ==
  /\ mpc = "create"
  /\ finder' = IF Split THEN [t \in Finder |-> [finder[t] EXCEPT !.pc = "created"]]
                         ELSE finder
  /\ spc' = "created"
  /\ mpc' = "await"
  /\ UNCHANGED <<ring, pos, copied, queue, extra, cur, taken, upTo, posted, wrote,
                 read, next, seen, old, out, buf>>

AwaitSubstitute ==
  /\ mpc = "await" /\ read = 0
  /\ mpc' = "scan"
  /\ UNCHANGED <<finder, ring, pos, copied, queue, extra, cur, taken, upTo, posted,
                 wrote, substVars>>

ScanOwn ==
  /\ mpc = "scan" /\ queue = <<>> /\ pos < Stop0
  /\ \E turn \in Turns(pos, copied) :
       pos' = turn.pos /\ copied' = turn.copied /\ queue' = turn.queue
  /\ UNCHANGED <<finder, ring, mpc, extra, cur, taken, upTo, posted, wrote, substVars>>

Post_NoWrap(cs) ==
  /\ ring' = [k \in 0 .. Ring - 1 |->
                IF k - posted \in 0 .. Len(cs) - 1 THEN cs[k - posted + 1] ELSE ring[k]]
  /\ posted' = posted + Len(cs)

(* Commands cs go to the ring from index posted on. *)
Post(cs) ==
  /\ ring' = [k \in 0 .. Ring - 1 |->
                LET d == (k - posted) % Ring
                IN IF d < Len(cs) THEN cs[d + 1] ELSE ring[k]]
  /\ posted' = (posted + Len(cs)) % Ring

(* Room is looked for only where a half of the ring begins: then there is   *)
(* some for all of it.                                                      *)
RoomForOne == posted % Half = 0 => Unread < Half

RoomForPair == (posted + 1) % Half < 2 => Unread < Half - 1

RoomForBatch == (posted + Batch - 1) % Half < Batch => Unread < Half - Batch + 1

(* A long copy is announced at once only where a half begins, one before a  *)
(* match together with it.                                                  *)
PostCopy ==
  /\ mpc = "scan" /\ queue # <<>> /\ Head(queue).do = "copy"
  /\ RoomForOne
  /\ Post(<<Head(queue)>>)
  /\ wrote' = IF posted % Half = 0 /\ Len(queue) = 1 THEN posted' ELSE wrote
  /\ queue' = Tail(queue)
  /\ UNCHANGED <<finder, mpc, pos, copied, extra, cur, taken, upTo, substVars>>

PostPair ==
  /\ mpc = "scan" /\ queue # <<>> /\ Head(queue).do = "skip"
  /\ RoomForPair
  /\ Post(queue)
  /\ wrote' = posted'
  /\ queue' = <<>>
  /\ UNCHANGED <<finder, mpc, pos, copied, extra, cur, taken, upTo, substVars>>

EndScan_PastStop ==
  /\ mpc = "scan" /\ queue = <<>> /\ pos >= Stop0
  /\ IF copied > 0 THEN RoomForOne /\ Post(<<Copy(copied + 1)>>)
                   ELSE UNCHANGED <<ring, posted>>
  /\ wrote' = posted'
  /\ extra' = pos - Stop0
  /\ mpc' = IF Split THEN "head" ELSE "finish"
  /\ UNCHANGED <<finder, pos, copied, queue, cur, taken, upTo, substVars>>

EndScan ==
  /\ mpc = "scan" /\ queue = <<>> /\ pos >= Stop0
  /\ IF copied > 0 THEN RoomForOne /\ Post(<<Copy(copied)>>)
                   ELSE UNCHANGED <<ring, posted>>
  /\ wrote' = posted'
  /\ extra' = pos - Stop0
  /\ mpc' = IF Split THEN "head" ELSE "finish"
  /\ UNCHANGED <<finder, pos, copied, queue, cur, taken, upTo, substVars>>

f0 == finder[cur]

HeadAligned ==
  /\ mpc = "head" /\ extra = 0
  /\ mpc' = "merge"
  /\ UNCHANGED <<finder, ring, pos, copied, queue, extra, cur, taken, upTo, posted,
                 wrote, substVars>>

HeadCopies == f0.data[0].do = "copy" /\ f0.data[0].n >= extra

(* The match before reaches into this region by less than its first copy. *)
TrimFirst_Untrimmed ==
  /\ mpc = "head" /\ extra # 0 /\ f0.write # 0
  /\ HeadCopies
  /\ mpc' = "merge"
  /\ extra' = 0
  /\ UNCHANGED <<finder, taken, ring, pos, copied, queue, cur, upTo, posted, wrote,
                 substVars>>

TrimFirst ==
  /\ mpc = "head" /\ extra # 0 /\ f0.write # 0
  /\ HeadCopies
  /\ IF f0.data[0].n > extra
       THEN /\ Become(cur, [f0 EXCEPT !.data[0].n = @ - extra])
            /\ UNCHANGED taken
       ELSE taken' = 1 /\ UNCHANGED finder
  /\ extra' = 0
  /\ mpc' = "merge"
  /\ UNCHANGED <<ring, pos, copied, queue, cur, upTo, posted, wrote, substVars>>

(* It reaches further: what the finder found from the wrong start on is     *)
(* thrown away while it goes on, and a new thread starts at the right one.  *)
Discard ==
  /\ mpc = "head" /\ extra # 0 /\ f0.write # 0
  /\ ~HeadCopies
  /\ mpc' = "drain"
  /\ UNCHANGED <<finder, ring, pos, copied, queue, extra, cur, taken, upTo, posted,
                 wrote, substVars>>

Drain_Wait ==
  /\ mpc = "drain" /\ ~f0.done
  /\ UNCHANGED <<finder, ring, mainVars, substVars>>

Drain ==
  /\ mpc = "drain" /\ ~f0.done
  /\ Become(cur, [f0 EXCEPT !.read = f0.write])
  /\ UNCHANGED <<ring, mainVars, substVars>>

Rerun ==
  /\ mpc = "drain" /\ f0.done
  /\ Become(cur, [f0 EXCEPT !.pc = "created", !.start = @ + extra, !.done = FALSE,
                            !.write = 0])
  /\ taken' = 0
  /\ extra' = 0
  /\ mpc' = "merge"
  /\ UNCHANGED <<ring, pos, copied, queue, cur, upTo, posted, wrote, substVars>>

LookAtFinder ==
  /\ mpc = "merge" /\ (~f0.done \/ taken # f0.write)
  /\ upTo' = f0.write
  /\ mpc' = "take"
  /\ UNCHANGED <<finder, ring, pos, copied, queue, extra, cur, taken, posted, wrote,
                 substVars>>

Waiting == (upTo - taken) % FinderRing

Take(n) ==
  /\ Post([k \in 1 .. n |-> f0.data[(taken + k - 1) % FinderRing]])
  /\ wrote' = posted'
  /\ taken' = (taken + n) % FinderRing
  /\ UNCHANGED <<finder, mpc, pos, copied, queue, extra, cur, upTo, substVars>>

TakeBatch ==
  /\ mpc = "take" /\ Waiting >= Batch
  /\ RoomForBatch
  /\ Take(Batch)

TakeOne ==
  /\ mpc = "take" /\ Waiting \in 1 .. Batch - 1
  /\ RoomForOne
  /\ Take(1)

ReleaseFinder ==
  /\ mpc = "take" /\ Waiting = 0
  /\ Become(cur, [f0 EXCEPT !.read = taken])
  /\ mpc' = "merge"
  /\ UNCHANGED <<ring, pos, copied, queue, extra, cur, taken, upTo, posted, wrote,
                 substVars>>

JoinFinder ==
  /\ mpc = "merge" /\ f0.done /\ taken = f0.write
  /\ extra' = extra + f0.extra
  /\ cur' = IF cur < Threads THEN cur + 1 ELSE cur
  /\ mpc' = IF cur < Threads THEN "head" ELSE "finish"
  /\ taken' = 0
  /\ UNCHANGED <<finder, ring, pos, copied, queue, upTo, posted, wrote, substVars>>

PostEnd ==
  /\ mpc = "finish"
  /\ posted % Half = 0 => posted = read
  /\ Post(<<EndOfText>>)
  /\ wrote' = posted'
  /\ mpc' = "join"
  /\ UNCHANGED <<finder, pos, copied, queue, extra, cur, taken, upTo, substVars>>

JoinSubstitute ==
  /\ mpc = "join" /\ posted = read /\ spc = "ended"
  /\ mpc' = "end"
  /\ UNCHANGED <<finder, ring, pos, copied, queue, extra, cur, taken, upTo, posted,
                 wrote, substVars>>

MainStep ==
  /\ \/ CreateThreads
     \/ AwaitSubstitute
     \/ ScanOwn
     \/ PostCopy
     \/ PostPair
     \/ EndScan
     \/ HeadAligned
     \/ TrimFirst
     \/ Discard
     \/ Drain
     \/ Rerun
     \/ LookAtFinder
     \/ TakeBatch
     \/ TakeOne
     \/ ReleaseFinder
     \/ JoinFinder
     \/ PostEnd
     \/ JoinSubstitute
  /\ UNCHANGED text

Finished == mpc = "end" /\ UNCHANGED vars

Next ==
  \/ MainStep
  \/ SubstituteStep
  \/ \E t \in Finder : FinderStep(t)
  \/ Finished

Spec == Init /\ [][Next]_vars

(* Every thread goes on running. *)
FairSpec ==
  /\ Spec
  /\ WF_vars(MainStep)
  /\ WF_vars(SubstituteStep)
  /\ \A t \in Finder : WF_vars(FinderStep(t))

-------------------------------------------------------------------------------
TypeOK ==
  /\ pos \in 1 .. L + 1 /\ copied \in 0 .. pos - 1
  /\ {old, out} \subseteq 1 .. L + 1
  /\ {posted, wrote, read, next, seen} \subseteq 0 .. Ring - 1
  /\ {taken, upTo} \subseteq 0 .. FinderRing - 1
  /\ extra \in 0 .. L /\ cur \in Finder
  /\ \A t \in Finder :
       /\ Split => finder[t].start \in StartOf(t) .. StopOf(t)
       /\ {finder[t].write, finder[t].read} \subseteq 0 .. FinderRing - 1
       /\ finder[t].copied \in Nat
       /\ finder[t].pc = "scan" => finder[t].copied < finder[t].pos

(* The text is rewritten in place while others read it: nothing that a scan *)
(* has still to read has been written, and the copy does not overtake       *)
(* itself (substitute_thread's memmove and *out_symbol_ptr++ against the    *)
(* in_symbol_ptr of the scans).  What has been skipped may reach into the   *)
(* region of a finder that has not begun, when a match does.                *)
BehindReaders ==
  /\ out <= old
  /\ mpc \in {"create", "await", "scan"} => out <= pos
  /\ \A t \in Finder :
       /\ finder[t].pc \in {"created", "ready"} => out <= finder[t].start
       /\ finder[t].pc = "scan" => out <= finder[t].pos

(* No index overtakes the other thread's: a ring that is written to holds   *)
(* more than before, and does not look empty.                               *)
RoomInRings ==
  [][/\ posted' # posted => Unread' > Unread
     /\ \A t \in Finder :
          finder[t].pc = "scan" /\ finder'[t].write # finder[t].write =>
            (finder'[t].write - finder'[t].read) % FinderRing # 0]_vars

(* What the substitution is for: from left to right, each occurrence of a   *)
(* rule that does not overlap the one before becomes the rule's symbol.     *)
(* RewrittenFrom(t)[p] is what becomes of the text t from p on.             *)
RewrittenFrom(t) ==
  LET from[p \in 1 .. Len(t) + 1] ==
        IF p > Len(t) THEN <<>>
        ELSE IF RuleAt(t, p) = {} THEN <<t[p]>> \o from[p + 1]
        ELSE LET s == CHOOSE s \in RuleAt(t, p) : TRUE
             IN <<s>> \o from[p + Len(Rules[s])]
  IN from

Reference == RewrittenFrom(text)[1]

(* However the threads interleave, and wherever the regions' ends fall, the *)
(* text so far is the beginning of the reference's, and in the end all of   *)
(* it (GLZAcompress.c:3707, "substitute new symbols on end matches").       *)
SubstitutesAll ==
  /\ out - 1 <= Len(Reference)
  /\ SubSeq(buf, 1, out - 1) = SubSeq(Reference, 1, out - 1)
  /\ mpc = "end" => out - 1 = Len(Reference)

(* No loop waits for ever, and all threads are joined. *)
SubstitutionEnds == <>(mpc = "end")
===============================================================================
