# lzbench in TLA+

lzbench reads files into memory, runs some seventy LZ codecs over them and prints, per
codec and level, a compressed size and a best, mean or median time. Its own code is
`src/_lzbench/`, about 4100 lines; the other directories are codecs as their authors
published them. This project models lzbench's own logic: how the command line becomes a
list of tests, how the input is cut, compressed, decompressed, timed, verified and
reported, and how files get into the buffers. Of the codecs it models the one part where
threads work on shared memory, GLZA's substitution of new symbols.

## The system and its parts

| part | state | operations | talks to |
|---|---|---|---|
| chunk codec loops: `lzbench_compress`, `lzbench_decompress` (`lzbench.cpp` 253-316) | pointers into three buffers, room left, `compr_sizes` | compress all chunks, decompress all chunks | a codec's two functions, once per chunk |
| timing loops: `lzbench_test` (319-463) with `print_stats` (188-225) | `ctime`, `dtime`, counters, timers, `decomp_error`, `workmem` | prefilter, batches, verification, row | the loops above; a codec's `init`/`deinit`; the clock |
| chunk split (321-335, 353-360) | `chunk_sizes` | cut each file into chunks | the loops above |
| files one by one: `lzbench_main` (610-715) | buffers, stream, `insize`, `mem_limit` | skip, measure, allocate, seek, read, test, next part | file system, timing loops |
| joined files: `lzbench_join` (524-607) | one buffer, `inpos`, `file_sizes` | add up, read all, test | file system, timing loops |
| option parser: `main` (748-902) | `lzbench_params_t` | one letter with its number at a time | everything, through `params` |
| `main`, the rest (904-969) | list of files | file list, then `lzbench_main` or `lzbench_join`, rows, clean-up | all of the above |
| codec selection: `lzbench_test_with_params` (466-521), tables in `lzbench.h` | codec and alias tables | resolve names, aliases, levels | timing loops |
| report: `print_speed`, `print_time`, `print_header`, the sort in `main` | `results` | print and sort rows | standard output |
| file lists: `util.h` 300-499 | growing buffer of names | walk directories, collect names | file system |
| codec adapters: `compressors.cpp`, `csc_codec.cpp` | working memory | wrap a library's calls | vendored codecs |
| GLZA's substitution (`glza/GLZAcompress.c` 2228-2486, 3707-4010) | the text, rings of commands with two indices each | find matches, merge commands, rewrite the text | main, a writer and six finders, through the rings |
| GLZA's other threads | suffix trees, decoded symbols | score rules, write the output | GLZA's main thread |
| timers, `alloc_and_touch` | clock rate | read the clock, sleep, allocate | operating system |
| vendored codecs | | | not lzbench's code |

lzbench's own code has one thread. What makes it hard to test:

- **Buffers sized by arithmetic.** `compbuf` is sized for the whole input, spent chunk by
  chunk, and many codecs do not look at the room they are given.
- **Codecs as adversaries.** A codec may fail in one call and not in the next, expand,
  emit exactly as many bytes as it got, scribble in its room, claim a wrong length or write
  nothing. The loops must stay aligned and the verification must notice.
- **Buffers shared over time.** The same three buffers serve every batch, codec and part.
- **The clock.** Calls may be faster than it; loops end by time and by count.
- **Files that change.** Sizes are asked for before buffers are allocated and the bytes read;
  other processes write, truncate and remove files meanwhile.
- **Edges of numbers.** Options are 32-bit products of what the user typed.
- **Options that meet.** Letters set what other letters set, some read what others left
  (`-o` and `-v`), and a default given to one pair may undo another.
- **A walk that may fail anywhere.** Names and their count are kept apart, the buffer grows
  by steps, and a directory may vanish between two calls.
- **Threads without locks.** GLZA rewrites a text in place while others read it; they wait
  for each other in loops on atomic ring indices, with releases and acquires but no locks.

What makes each part correct: no call leaves its buffers and a lossless codec's input is
restored (codec loops); a row stands for the work and the time asked for, and a codec that
fails is never shown as one that works, nor the other way round (timing loops); every
byte of a file nobody changes is tested once, within the limit set (`lzbench_main`); the
joined input is cut at the files' ends whatever happens to them (`lzbench_join`); an option
sets what the help text says (parser); every codec asked for runs at every level asked
for (selection); the list of names is the files found (file lists); the chunks are the
input, cut at every file's end and no longer than allowed (chunk split); the text after a
substitution is the one a single thread would have made (GLZA).

## Modules

```
  Options   FileList   Selection   Chunking      one part of main each
      \         |          |         /
                CommandLine                      main, from arguments to chunks
  ---------------------------------------------------------------------
     LzbenchMain    LzbenchJoin                  files into buffers; a test is one step
            \          /
            InputFiles                           files that other processes change
  ---------------------------------------------------------------------
     BenchTest                                   the timing loops, test after test
         | EXTENDS
     CodecCalls                                  what a call of the codec loops promises
         ^ implemented by
     ChunkCodec                                  the codec loops, chunk by chunk
  ---------------------------------------------------------------------
     GlzaSubstitute                              one codec's threads
```

Proofs are in modules of their own, which extend the module they are about:
`ChunkCodecProofs`, `BenchTestProofs`, `LzbenchMainProofs`, `LzbenchJoinProofs`,
`GlzaSubstituteProofs`, `MainPartsProofs` (Options, FileList and Chunking, each by itself) and
`CommandLineProofs`, which builds on it; `NumberLemmas` has what they share about floors, sums,
joined lists and rings. `Totals` has the two loops over a table that several modules need:
adding up, as `UTIL_getTotalFileSize` does, and putting lists one after the other. `MCChunkCodec`, `MCBenchTest`, `MCLzbenchMain`, `MCCommandLine` and
`MCGlzaSubstitute` give the constants that a `.cfg` cannot write (chunk lists, option
records, command lines, texts). An operator whose name continues another's after an
underscore (`Stored_FailedOnly` beside `Stored`) is that operator with a plausible bug; no
specification uses it, it is there to show that a property would notice.

### Options, FileList, Selection, Chunking and CommandLine

`CommandLine` is `main`. It takes the actions of the four other modules in the order in
which main and what it calls take them; each of those keeps to its own variables.

- `Options`: `ObeyLetter` is the switch, one case of `Effect` per letter; the other actions are the
  loop around it and its ways out. A letter comes with the number after it, and
  the number after a comma. Products with `1 << 10`, `1 << 18` and 1000 are taken modulo
  `Word`, in the width the code computes them. The lists of `-e` and of aliases come as
  lists of names with levels: splitting text at commas and slashes is left out.
- `FileList`: the recursive walk as a stack of calls, the buffer of names that grows by
  `LIST_SIZE_INCREASE`, the table made from it. Opening and reading a directory, and each
  allocation, may fail, at most `MaxFaults` times in all. `nbFiles` is the sum that the code
  returns from call to call.
- `Selection`: `lzbench_test_with_params`, with an alias as a call of itself.
- `Chunking`: the chunk size for an input and a codec, and the loops that cut each file.
  Memory holds `MaxChunks` sizes; the push that finds no more ends the program
  (`std::bad_alloc`), which is how the loop with a `chunk_size` of 0 ends.

In `CommandLine` files have one size and can be read; changing files, buffers and parts are
the subject of `LzbenchMain` and `LzbenchJoin`, which take a test as one step. `-R`
together with `-m` is left to `LzbenchMain` as well.

### ChunkCodec

State: `cut` is the chunk list as offsets (`chunk_sizes[j]` is `cut[j+1] - cut[j]`);
`inb`, `outb`, `outsize` are the pointers and the counter of the running loop;
`comprSizes`, `complen`, `decomplen` are what lzbench_test keeps; `comp` and `decomp` are
the buffers, byte by byte, each byte named by where it came from. One action is one turn
of a loop: `KeepChunk`, `StoreChunk` and `GiveUp` are the three ways through
`lzbench_compress`'s body, `CopyChunk` and `DecodeChunk` those through
`lzbench_decompress`'s. `baseline` is the memcpy test, which compresses with
`lzbench_return_0` into room for `insize` bytes.

The codec is external. It emits any number of bytes up to its worst case
(`part + part/6 + Overhead`) or 0 for failure, anew in each call; with `Obedient` it
also stays within the room it is given. One that does not may write past the end of
compbuf: `Overrun`, after which the program may do anything and the model stops
(`Undefined`). A decoder of a stream of its own codec restores
the chunk if `Lossless`; otherwise it claims any length up to the chunk's and writes junk
or nothing. Left out: an empty input, which has no chunks and for which a compressed size
of 0 is right, and codecs that write beyond their worst case.

### CodecCalls and BenchTest

`CodecCalls` keeps of all this two facts, is there a whole compressed image and does
`decomp` hold the input, and six steps. `ChunkCodec!ImplementsCalls` states that the chunk
loops do nothing else, and BenchTest builds `lzbench_test` from those steps: a run is the
memcpy test (with its own options, `Baseline`) and one or more codecs'. Actions follow
the loops' structure: the head of each outer loop (`SleepBefore...`), a call's start and
return, the end of a batch with its three outcomes, verification, `Report`, `Done`. Time
is in ticks: a call takes 0 to `MaxCall`, and before it pass 0 to `MaxGap` between two
readings of the clock, which the batch's time has and no call's. At most `MaxQuick` turns of a
batch take none (a clock that moves), `uni_sleep(1)` takes at least one.

### InputFiles, LzbenchMain, LzbenchJoin

`InputFiles` is the environment: an argument is a regular file, a directory or missing,
and files are resized or removed at any time, `MaxChanges` times. The two programs read
it in the steps of the code: stat, ftello, allocation, fread are separate actions. Reads
that meet the end of file set the stream's indicator, after which a read gets nothing or,
with older C libraries, what there is. lzbench_join asks for a file's size without opening it, and `fopen` may then refuse a file that
has one (`SkipUnreadable`, kept in the history `refused`); to lzbench_main, which opens first,
such a file is as good as missing. `AllocationFails` ends in a crash because
`alloc_and_touch` writes to the buffer before its callers compare it with NULL.

### GlzaSubstitute

One step is one turn of a thread's loop: a scan finds its next match, posts a copy, posts a
pair; the merge takes commands one by one or `Batch` at a time; `substitute_thread` obeys
one. Indices that other threads read (`wrote`, `read`, the finders' `write` and `read`) are
variables beside the owner's own (`posted`, `next`, `taken`, `upTo`, `seen`), so that a
thread sees what was stored last, and acts on what it saw. Where the main thread finds that
a region's first match begins inside the last match of the region before, it discards
commands (`TrimFirst`, `Discard`) or runs a new finder from the end of that match
(`Drain`, `Rerun`), as the code does.

The automaton that walks a tree of rules is abstracted to what it finds, the leftmost rule
after the last match; rules do not occur inside one another, since the code adds none that
would be. Left out are counts of symbols, and creating or joining a thread is one step.
`SubstituteAssumption` further says that a region is at least as long as the longest rule,
and that no text fills half of the ring with copies of 100000 symbols, 3.2 billion of them.
The code posts a copy when it comes to a symbol that begins no match with 100000 behind it, and
so a copy may be longer by part of a match: from `CopyMax` symbols on `Turns` may post or not.

## Runs

| run | asks | bounds |
|---|---|---|
| `codec_lossy` | `OnlyOverheadsExhaust`, `WithinBuffers`, `ReadsAligned` with a codec that does anything its worst case allows | inputs of 3 bytes in one or two chunks; pad 2, overhead 1 per chunk |
| `codec_tight` | `RoundTrip`, `ReadsAligned`, `ImplementsCalls`, `WithinBuffers` with a lossless codec that ignores its room and too little pad | 3 bytes in one, two or three chunks; pad 2, overhead 2 |
| `many_small_files` | is a whole image certain with the same pad and a codec that looks at its room? no: finding 1 | as above |
| `bench_rows` | what a row stands for, under seven option records | two tests, calls and gaps of 0 or 1 tick, calls of 0 not recorded |
| `bench_ends` | good codecs pass; tests end | two tests, the default options and `-t0 -u0 -i2,2` |
| `main_files` | buffers, parts, samples, limit, end, with files changing | two files of up to 7 bytes, limit 3, chunk 2, two changes |
| `main_limited_sample` | does `-R` keep to `-m`? no: finding 2 | one file, limit 3, chunk 5 |
| `join_files` | the joined buffer with files changing | three files of up to 2 bytes, any of which fopen may refuse, two changes |
| `command_line` | options in any order, the list of names, codecs and levels, chunks; `main` ends | every pair of 30 options with files, triples of those that meet; words modulo 64, two failing calls, 8 chunks |
| `option_example` | does `-j5` set the iterations of decompression? no: finding 3 | the example of the help text, in its two forms |
| `glza_substitute` | threads rewrite the text as one would; rings; ends | two finders, rings of 8 and of 4 commands, copies of up to 4, texts of 9 and 7 symbols |
| `glza_next_cycle` | the same in a later cycle? no: finding 4 | as above, the finders' old `write_index` 2 |

Why these bounds are enough to meet the cases: three bytes in up to three chunks give
chunks that shrink, expand, fail and come out at exactly their size, in every order, and a
stored chunk before and after a coded one; the pad of `codec_tight` runs out in the last
chunk and in the middle one, and the codec overruns compbuf or comes to its end exactly; `NextTest` puts one chunk list after another on the same
buffers. Two tests are the least that share buffers, and quotas of two calls or of two
ticks need several batches. Seven bytes with a limit of three are two whole parts and a
rest; two changes let a file shrink and grow again between two reads. `MaxCalls` of
BenchTest is more than any test of these instances needs, and RunEnds would fail
if one got there. Options meet in twos, but for those that read what two others left, of
which all triples are parsed; 64 values of a word let `-b`, `-m` and `-t` wrap to 0 and to
something small; the tree has a directory in a directory, a name that needs the buffer to
grow and one that is longer than it grows; two faults are a failing call after a failed
one. Two finders are the least with a region before, between and after others; the six
texts have matches inside regions, across one end and two, first matches that begin
where a region does, inside the last match and overlapping it, and copies long enough to be
split; both rings go round.

Deadlock is checked in every run: where the program stops, `Finished` stutters.

**Fairness.** `bench_ends` assumes weak fairness of Next, `main_files` and `command_line` of
`MainStep`: one thread that the system goes on scheduling. `glza_substitute` assumes it of
each thread: they wait in loops, not on locks, so that each has a step whenever the system
runs it, and what it waits for stays true until it has. Nothing is assumed of the codecs but that a call
returns, and nothing of other processes: they may do nothing, and they stop after
`MaxChanges`. Without that bound a file that grows as fast as it is read would keep
`lzbench_main` reading parts.

## Findings

1. **`-j` with many small files** (`many_small_files`). The help text offers `-j` for
   many small files. Each costs the codec's constant overhead, and 16 KB of padding pays
   for all: with zlib's 9 bytes for a file of one, about 2100 files use it up, `lzbench_compress`
   returns 0 (`lzbench.cpp:273`), and the row shows size 0 and ERROR.
2. **`-R` with `-m`** (`main_limited_sample`). The sample's length is set after the buffers
   are allocated for the limit (`lzbench.cpp:662`, `665`), so more is read than the limit
   allows, and than the buffer holds once it is more than the padding.
3. **`-j5`** (`option_example`). The help text's example (`lzbench.cpp:743-744`, and the
   repository's `README.md:47-48`) says that `-j5` asks for five iterations of decompression. Case `'j'`
   (811) sets `join` and drops the 5; the iterations stay what they were, and files are
   joined. `-i3,5` is what the example means.
4. **GLZA, second cycle** (`glza_next_cycle`). Before the finders are created their `done`
   and `read_index` are reset, `write_index` is not (`GLZAcompress.c:3729-3731`); the thread
   resets it when it runs (2239). If main gets to the merge first it takes the last cycle's
   commands for new ones. Where a finder is created anew, line 3960 does reset it.

Met on the way and not a run: `-p2` is called the average over "all iterations"
(`lzbench.cpp:730`), but calls under 10 µs are not recorded and each batch's mean counts as one
more iteration (377, 383).

## Proofs

Every theorem is for all values of the constants that satisfy the module's assumption,
which TLC evaluates in the module's runs. All but the refinement follow one scheme: an
inductive invariant `Inv` that begins with `TypeOK`, `Init => Inv`,
`Inv /\ [Next]_vars => Inv'` by cases over the actions, and `Inv` implies the property.

### ChunkCodecProofs

Assuming `CodecAssumption`:

- `TypeCorrect`, `BuffersSafe`, `ReadsWhereWritten`: `TypeOK`, `WithinBuffers` and
  `ReadsAligned` are invariants;
- `NoExhaustion`: `OnlyOverheadsExhaust` is one, that compbuf does not run out while an input's
  chunks have overheads that fit in the pad;
- `LosslessRoundTrip`: `RoundTrip` is one;
- `CodecImplementsCalls`: `Spec => ImplementsCalls`, the refinement of CodecCalls.

`CodecAssumption` says that chunk lists increase from 0 and that one chunk's overhead fits in the
pad; nothing is assumed of a codec beside its worst case. A codec that ignores its room may
write past compbuf if its chunks' overheads are more than the pad, which `-j` makes possible (see
finding 1); `WithinBuffers` says that this is the only way past the end, `TypeOK` that `outsize`
does not wrap before it, and the other theorems hold up to that step.

The argument. `TypeOK` is not inductive: that `outsize` stays a natural number depends on how
much was spent. `Inv` adds four parts. `Packing`: in a compression `inb` is the chunk's
offset, `outb + outsize` is the size of compbuf, and `outb` is at most the share of the bound
that the chunks so far may take, `inb + inb/6 + (i-1) * Overhead`. `Overrunning` says the same of
the state in which compbuf was overrun. The step from chunk to chunk is `RoomForChunk`, and rests
on `DivSplit`: floors of parts add up to at most the floor of the sum. `Packed`: the
recorded sizes and the offsets `at` (a history variable) fit together. `Unpacking`: in a
decompression `inb` is `at[i]`, whatever the decoders claimed, because it moves by
recorded sizes, and `outb` is at most `cut[i]`. For `RoundTrip`, `Holding` says that compbuf
holds for each chunk its bytes, if its recorded size is the chunk's, and a stream of it
otherwise, and `Restoring` that the chunks before `i` are back in decomp. The refinement
needs `Fresh` besides: a test that has not begun has returned no length.

TLC checked `Inv` on the instances of both codec runs before it was proved.

### BenchTestProofs

Assuming `BenchAssumption`, for all options, clocks, numbers of calls and of tests:

- `BenchTypes`: `TypeOK`; no batch is divided by 0 calls, no memory released twice;
- `RowsDecoded`: `DecodedEachBatch`. `Verified` is its argument: between batches the output
  buffer differs from the input, because it is overwritten, so whatever is equal after a
  batch was made by a call of it;
- `NeverFlagged`: `LosslessPasses`, from `Passing`: once a lossless codec has compressed
  there is a whole image, and each call of decompression restores the input from it;
- `RowsEarned`: `EnoughWork`, from `Counted`: `total + iters` is the number of calls made
  (a history variable counts them), and a stage ends only with its quota;
- `LeaksBounded`: `LeaksOnlyWhenSlow`, from `Memory`: what is held is what slow tests left
  and what the running test has;
- `RowsTimed`: `TimesWithinTurns`, from `Timed`: every time recorded lies between the shortest call
  and the longest turn so far, a call with the wait before it, and so do the time of a batch
  divided by its calls (`MeanWithin`),
  the mean of such times (`SumWithin`) and those that -p1 and -p3 choose (`RankedIs`: the n-th of
  the times, once sorted, is one of them); `Shortest` keeps the shortest call among the times;
- `RowsFast`: `FastRowsOnly`, from `Paced`: of the times a test has recorded when it reports,
  one at least is short enough for `-s`, since the last batch was fast enough and its mean is
  recorded (`MeanSpeed`); the shortest of all, which -p1 shows, is no longer.

### LzbenchMainProofs

Assuming `MainAssumption`, for any number of files, of any size, changed at any time:

- `MainTypes`: `TypeOK`; `BaselineFirst`: `MemcpyFirst`; `MemoryBounded`:
  `MemoryWithinLimit`, where the assumption's `3 * PadSize + memLimit / 6 <= memLimit` is
  what the comment of case `'m'` in main counts on;
- under `Separate`, that no record of options has both `-R` and `-m` (finding 2 is what
  happens if one has), `ReadsInBuffers`: `ReadsFit`, and `PartsCoverFile`: `PartsCover`.

`Inv` relates the stage to the stream (`ReadBefore`), to the rows (`BaselineDone`,
`NothingTested`, `Fresh`) and to the limit (`LimitApplied`). The second invariant adds
`Followed` and `Fits`, and `Steady`, which says for a file nobody has changed what is tested
while main asks for its size, has it whole, or is in its parts (`Asking`, `Whole`, `InParts`).

### LzbenchJoinProofs

Assuming `JoinAssumption`, for any number of files: `JoinTypes` (`TypeOK`),
`JoinedInBuffers` (`JoinedFits`) and `EveryFileJoined` (`NoneLeftOut`). `Sized` says that buffers
were made for `totalsize` bytes and that what is or will be in them is no more; `AllJoined` that
the arguments done with that are regular files still, and were not refused, are no more in number than the files
joined, whatever became of the others.

Further `PiecesAreFiles` (`CutAtFiles`) and `EarlyOutsExplained` (`EarlyOutExplained`).
`Pieces` says that the sizes kept add up to what is joined and that each byte joined is of the
argument its piece belongs to; `JoiningParts` is the step that appends a piece. `Untouched` says
that as long as nobody has changed a file, what is joined is no more than what was added up
for the arguments done with, so that no read finds more than was allocated.

### MainPartsProofs

Each part of main by itself, under its own module's assumption:

- Options, for all command lines and widths of a word: `OptionsTypes`, and `LastWordDecides`
  (`LastWordWins`). The code has one loop that sets fields as letters come; `Meaning` looks for
  the last letter that speaks of a field. The proof asks of every letter what it does to the set
  of positions that each field looks at (`Where`, `Paired`, and the `-o4`s): it adds the last
  position, which is then the latest, or leaves set and values alone. The one field that looks
  beyond the letter it comes from is the text format, which a later `-m` changes.
  Letters mean here what main's switch makes of them, in words of its width: that `-j5` does not
  mean what the help text says is finding 3, and a product that wraps is compared wrapped.
- FileList, for all trees of directories: `ListTypes`, `ListInBuffer` (`NamesInBuffer`) and
  `TableFits`: the names lie one after the other in the buffer and no more are counted than are
  there, whichever calls fail; a comparison in `UTIL_createFileList`, that the last name ends in
  the buffer, never fails. `Nested` is needed for a failing call, which puts back the count it
  found: counts on the stack grow from caller to callee. `Adjacent` says where each name lies.
- Chunking: `SplitTypes`, `SplitCorrect` (`SplitCovers`), and `SplitIsChunking`: if `chunk_size` is
  not 0 a finished split is a chunk list as `CodecAssumption` wants it, so that ChunkCodec's
  theorems are about the lists that lzbench makes. `Progress`: what is cut and what is left add
  up to the files so far; `Increasing`; `CutAtEnds`: the ends of the files done are among the cuts.

`FoundInv` is the inductive part of `ListIsFound`, stated here for any list of arguments and used in
`CommandLineProofs`. As long as no call fails, each short file under the arguments has been found or
lies under what waits: an argument not yet looked at, or an entry that a call on the stack has not
yet read (`RestOf`). If the arguments share no file, what waits is apart (`Separate`), nothing waits
twice (`OnceOf`), and nothing found lies under it. That opening a directory keeps them apart is a
fact about trees: no path lies under two entries of one directory. It rests on
`FileListAssumption`: a directory's entries are of no other directory, and their paths are longer
than its own.

### CommandLineProofs

Main with all its parts, for every command line, tree, table of codecs and aliases and sizes of
files that satisfy the five assumptions: `CommandLineTypes` (`TypeOK`), `MainObeysLastWord`
(`LastWordWins`), `MainNamesInBuffer` (`NamesInBuffer`), `MainFindsFiles` (`ListIsFound`),
`MainRunsEveryLevelOnce` (`EveryLevelOnce`) and `MainSplitCovers` (`SplitCovers`).

`MainInv` is inductive and has four parts. `PartsInv` is the invariants of the parts: a step of
main takes a step of at most one of them, and starts a split only with sizes that are natural
numbers. `PhaseInv` says that the list of codecs is gone through only in the phase `selecting`, and that a split is
at work only for memcpy or a codec's test. `WalkedInv` is `FoundInv` for the names main was given,
while it walks. `TestedInv` is `SelectInv` for the list asked for, while main goes through it.

`SelectInv` is why each level is tested once. `Expanded` says all at once what the code does by a
loop over entries, a call for an alias, a loop over numbers and one over levels. In the middle of
it `ran` is `Ahead`, the tests of all entries that the calls on the stack have done with, outermost
first, and then the first `Begun` tests of the entry in hand (`Numbers`). Entering an alias adds a
call that has done with nothing, and leaving it makes all of its list one more entry that its
caller has done with (`EntryDone`), so that neither changes `Ahead`; a test moves one from the rest
of `Numbers` to `ran`; the last one makes `Begun` all of them, also when an entry names no codec
and has no tests. `SelectionAssumption` bounds the stack at three calls, as in `alias_desc`, where
`all` names `lzo1` and so on but no alias named there names another.

TLC checked `SelectInv` as an invariant of `MCCommandLine` before it was proved.

### GlzaSubstituteProofs

For any number of finders, sizes of rings, rules and texts that satisfy `SubstituteAssumption`,
and if `OldIndex = 0`, which is the first cycle, because the finders' records are static and begin as zeros: `SubstituteTypes`
(`TypeOK`), `NeverOvertaken` (`BehindReaders`), `RoomKept` (`RoomInRings`) and
`SubstitutesEverything` (`SubstitutesAll`). Without the hypothesis `SubstitutesAll` is false:
finding 4 is its counterexample.

The argument gives each command a place in the text, wherever it is. A place is a
position and the number of symbols there that have been skipped and whose rule's symbol is due.
`Follows` says that a command is what a scan of the text finds at a place, and where it leads;
`Run` that commands lead from one place to another. `Meaning` says: what has been
written is the reference up to a place `a` (`Rewrote`); the commands in the ring to
substitute_thread (`Pending`) lead from `a` to a place `b`; and what main and the finders have
found, in a ring or not yet posted (`Found`, `Scanned`), leads on from `b`, or from where its
region begins (`Frontier`). A step only moves commands from one such list to the next, with one
exception: what a finder has found when it is not yet known that a match of the region before
reaches into its own. If its first command is a copy, the match is taken from that copy
(`FoundTrim`, `FoundCovered`), and what is left leads on from the end of the match; if it is shorter,
all the finder has is given up and its region scanned anew from there (`RerunMeaning`).

`Inv` has two more groups of parts. `Indices` says how the four indices of the main ring follow each
other, counted from `read` on (`Since`), and that between two looks for room, each where a half of the ring
begins, no more is posted than half a ring. `Main` and `Finders` say for each thread where its
scan may be, and for each finder what main's state lets it be in; what a finder
has that is not yet merged is `Alone` true of every finder, and what it shares with main is `Shared`.

What the text's reference is at each position is defined by recursion, and so are sums; facts
about them are proved by taking the least number of which they fail (`LeastNat` in
`NumberLemmas`, from the library's theorem that natural numbers are well-founded), which no
prover's induction is needed for.

### Only model-checked

- Liveness (`RunEnds`, `FilesEnd`, `MainEnds`, `SubstitutionEnds`): temporal proofs with
  fairness are outside what the prover does.
- `MCChunkCodec`, `MCBenchTest` and the others check all proved invariants as well, on small
  instances; no invariant of a passing run is without its theorem.

## Not modelled

- Vendored codecs: third-party code; `ChunkCodec`'s constants say what is assumed of them.
- Printing and formatting of rows, progress lines, `-v` dumps other than their exit.
- Priorities, clocks of other platforms, and the Windows variant of the file list.
- 64-bit wrap-around of sizes: a file or sum of files near 2^64 bytes cannot be allocated.
- Text: digits, commas and slashes of the command line, lines of output.
- Reordered stores between GLZA's threads: a step that writes slots and stores the index
  that shows them is one step, because the store is a release and the loads that pass slots
  on are acquires.
- What follows undefined behaviour: compbuf overrun (the model stops), an infinite speed cast to
  `uint32_t` (the batch counts as slow or fast, and no property speaks of it), an LZMA stream for
  which there is less room than its header.
- A `chunk_size` of 0 is modelled and ends in `std::bad_alloc`; `MainEnds` and `SplitCovers` exclude
  it, since neither holds then.
- GLZA's other threads: those that build suffix trees and score rules, and the decoder's
  writing thread.
- Faults in combination: a directory that another process removes while the walk is in it
  is a failing call of `FileList`, once, not a tree that changes.

## Plan

In order, with the property or theorem each is for:

1. `GlzaDecode`: the decoder's thread that writes one half of a buffer while the other
   is filled; each half is written once, and whole.
2. `Adapters`: the wrappers with loops or formats of their own (lzlib, slz, lzma, csc).
3. `Report`: the shown value of a row and the order of the sorted table.
4. A refinement of `CommandLine`'s tests by `LzbenchMain` and `LzbenchJoin`, with changing files.
