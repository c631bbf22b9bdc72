# Verification of lz16rans

TLA+ models of the lz16rans library: its dynamic thread pool, the LZ16 encoders
and decoders, the rANS entropy coder and the interface that puts them together,
with TLC runs and TLAPS proofs.
`PROJECT.json` lists components, runs, mutants, the map from definitions to
source lines, findings, hazards and theorems.

Run a model with `tlc -config X.cfg M` in this directory (the configurations of
the pool, `Pool_*.cfg`, belong to `ThreadPool`; `Lz16*.cfg` to the module `MCLz16*`
of the same name, `Sections_empty.cfg` and `Lossless.cfg` to `MCLz16Interface`,
`NormalizeFreqs.cfg` to `MCNormalizeFreqs`; the others to the module they are named
after), a proof with `tlapm M.tla`.

## 1. The system

| Part | Source | State | Operations | Works with |
|---|---|---|---|---|
| Queues | `lib/TPdynamic/threadpool.c` 149-237 | `buf`, `head`, `tail`, `num`, failure counters `RFcount`, `WFcount` | `read_queue`, `write_queue`, `read_Qmonitor`, `write_Qmonitor` | used by every thread of the pool, under the queue's mutex; the counters also without it |
| Thread pool | `threadpool.c` 58-146, 239-447 | `run`, `ThreadLen`, the times of the last inc and dec, three queues | `myqueueInit`, `writeThread_job`, `readThread_ret`, `UpdateThreads`, `myqueuedestroy`; threads `WorkThreads`, `WorkMonitor` | jobs through `Qwrite`, results through `Qread`, notices through `Qmonitor` |
| Client | `tests/main.c` 254-352 | jobs under way | submit, fetch, inc/dec, destroy | the pool's interface |
| rANS step | `lib/rans/rans64.h` | one 64-bit state | init, put, flush, get, advance | stream coder |
| Normalisation | `lib/rans/rans64_main.h` | `freqs`, `cum_freqs` | `count_freqs`, `calc_cum_freqs`, `normalize_freqs` | run by encoder and decoder |
| Stream coder | `lib/c/rans64me.c` 11-170 | two states, word pointer | `ranscompress`, `ransuncompress` | one call per section |
| Section packing | `rans64me.c` 173-267 | positions in the buffer, lengths | `mylz16torans64`, `myrans64tolz16` | between LZ16 and rANS |
| LZ16 encoder | `lib/c/lz16encode.*` | hash table, second table at levels 3 and 4, five sections in the caller's buffer | `lz16ENhashm`, `mc`, `Dm`, `Dmc` | called by the interface |
| LZ16 decoder | `lib/c/lz16decode.*` | positions in the sections and the output | `lz16DEm`, `lz16DEmc` | called by the interface |
| LZ16 interface | `lib/c/lz16.c` | buffers, retry flag, heads | `mylz16Encode`, `mylz16Decode` | encoders, decoders, packing |
| Test helpers, vendored code | `tests/common.*`, `other/` | none of interest | I/O, comparison | test program |

What is hard:

* **Pool.** Mutexes protect single queue operations; everything that spans two
  of them is open to interleaving. The failure counters are tested and reset
  after the unlock, `ThreadLen` is tested without its mutex, a new worker runs
  before it is counted, one notice format has three meanings, and teardown
  counts notices. Tests with real threads reach few of these orders.
* **rANS.** Exact reciprocals, one emission per symbol, a stream written
  backwards by two states and read forwards, rounding that must not lose a
  symbol.
* **Packing.** Output grows in the buffer its input lies in; the decoder
  reconstructs the layout from a count.
* **LZ16.** A token is spread over four sections, with half bytes whose position
  both sides track; matches overlap their own output and are copied in 64-bit
  units; reads and stores run ahead of their tests. All this is sequential, but
  the cases lie at limits that random tests seldom hit.
* **Interface.** Sections are written side by side without looking at their
  capacities; what happens then (retry, stored block, error) depends on how
  large and how clear the caller's buffer is.

Correctness, per component: the queues are bounded FIFO queues; the pool loses,
duplicates and reorders no job, counts its threads, settles every job and tears
down after its threads; the coder, the tables and the packing are inverted
exactly by their decoders, without leaving their ranges and buffers; an LZ16
block is decoded to its input, and so is the result of `mylz16Encode`.

## 2. Modules

| Module | Models |
|---|---|
| `BoundedFifo` | abstract: what a queue promises |
| `RingQueue` | a queue's ring buffer; one action is one critical section |
| `RingQueueProofs` | its invariant, and that it implements `BoundedFifo` |
| `JobPool` | abstract: what the pool promises for jobs |
| `ThreadPool` | application, monitor and workers, step by step |
| `ThreadPoolProofs` | type correctness and the exactness of `ThreadLen`; the way of the jobs, that the pool implements `JobPool`, and teardown |
| `Rans64` | the rANS step, with the word width as a parameter |
| `RansCoder` | `ranscompress` and `ransuncompress` |
| `RansProofs` | the step and its inverse, and that messages are decoded |
| `FreqHeader` | operators: the one to four byte entries of a frequency table |
| `NormalizeFreqs`, `MCNormalizeFreqs` | the way of a table: `normalize_freqs`, written to the stream, read, normalised again |
| `NormalizeProofs` | that the table is sound and the decoder has the same one |
| `Lz16Tokens` | operators: the token format of an LZ16 block, written and read |
| `TokenProofs` | lemmas: one token is read back, wherever it stands |
| `Lz16Codec`, `MCLz16Codec` | tokens at the limits of every field, written and read back |
| `CodecProofs` | that all tokens are read back, and the sections keep their shares |
| `Lz16`, `MCLz16` | one block: match search, tokens, decoding |
| `Lz16Proofs` | that a block is decoded to its input, inside the buffers |
| `RansSections` | actions: `mylz16torans64` and `myrans64tolz16` |
| `Lz16Interface`, `MCLz16Interface` | calls of `mylz16Encode` and `mylz16Decode`, with the actions of `RansSections` |
| `InterfaceProofs` | buffers, packing and restoring, for all lengths |

### ThreadPool

`pc[t]` says where a thread is, `info[t]` is the `WORKTHREADINFO` on its stack.
Queues are sequences; `RingQueueProofs` justifies that. The labels between two
steps are the points where another thread can interfere:

* `read` - `rtaken`/`rempty` - `rreset`: the critical section of `read_queue`,
  the test of `RFcount` after the unlock, the unlocked reset. `write`,
  `wdone`/`wfull`, `wreset` are the same for `write_queue`, `wnotify` and
  `rnotify` the notice that follows.
* The reset `RFcount=0` races with the `RFcount++` of another thread. If the
  store falls between that thread's load and store it is lost:
  `read_reset_lost`, `write_reset_lost` (data races, so both outcomes).
* `auto`, `autodue`, `autodec`, `autostamp` are the four accesses of
  `dec_workthread_auto`; `inc`, `create`, `incend` those of `inc_workthread`.
* `dloop`, `dread`, `dsleep`, `gone` are `myqueuedestroy`. `sleep(1)` is taken to
  be long enough for the monitor to see `run=0`.

Time is two flags, `inc_due` and `dec_due`: whether the waiting time since the
last inc or dec has passed; the clock may set them at any moment. A job is
handed in at most once. Workers are numbered in the order of their creation and jobs
in that of their submission, which spares TLC the other ways to name them. `Init` is the state in which `myqueueInit` returns 0; a
worker that is created but has not run yet is one that stands at `test`. The
statistics `state.t` are left out, the range of their index is in `TypeOK`.
`submitted`, `finished`, `dropped` are history. Two effects of using a
destroyed mutex are not modelled: threads simply stop there.

### rANS

`Rans64` keeps `WORD32`, `RANS64_L`, `prob_scale` as constants with the relations
of the code (`WORD32 = 2 RANS64_L`, `prob_scale` divides `RANS64_L`) and does all
arithmetic modulo `WORD32^2`, as `uint64_t` does. `Powers` are the values of
`1u << shift` that the loop over `shift` tries. In `RansCoder` the table, kept as
`cum_freqs`, is any table with the right sum in which the symbols of the message occur, which is
what `NormalizeFreqs` shows `normalize_freqs` to return and the decoder to read
back. `while (x < RANS64_L)` in the decoder is one test in the
model; `Normalised` shows that one is enough.

In `NormalizeFreqs` `calc_cum_freqs`, the resampling, the stealing, writing and
reading are loops of one symbol a step, as in the code. The counts are any that
`count_freqs` may leave (`Counts`); `MCNormalizeFreqs` picks those for TLC.

`RansSections` keeps lengths and positions in bytes and of the contents only
which section it is. The lengths `ranscompress` may return are a constant
(`EncodedLengths`) bounded by `IsEncodedLength`: header, table and states exactly, at
most one byte per byte for the payload and 1/128 for the rounding of frequencies.

### LZ16

Three modules look at an LZ16 block at three scales.

* `Lz16Codec` has the real widths and arbitrary tokens. `Lz16Tokens` writes
  `pflagExx` as a sequence of half bytes, `2p + halfid` of them when the code's
  pointer is at byte `p`; the other sections are sequences of bytes. A length is
  what `mylz_WriteLength44` puts there, a distance what
  `mylz_ENWritematchdistance4` does. `CodeMc` and `CodeM` say what a token puts into
  each section, `Extend` puts it there. `pi` counts the words coded so far.
* `Lz16` has real inputs and the real search. One action is one round of an
  encoder's or a decoder's loop: `no_match`, `too_far`, `match`, `last_block`,
  `decode_token`, `decode_last`. The hash function and the number of its keys are
  constants, so that collisions are all, some or none; `MYMATCHOFFSET_MAX` is a
  constant too. The copies of the decoder are modelled as they are made, four
  words at a time, and by a sample of four words for distances up to 3.
* `Lz16Interface` has only lengths and positions. `call` holds the arguments, and
  the lengths that the sections of the block will have, which may be any that
  tokens can lead to (`Feasible`, which rests on `SectionsKeepShare`). `encode_block`
  is a whole encoder; `items` is the head's item count, which decides how
  `mylz16Decode` reads the block; `spilled` and `stale` say that something was
  stored behind the buffer, or depends on bytes the library did not write. What
  a decoder makes of such a block is left open.

The blocks that `Lz16` computes were compared with those of the compiled encoders
(with `MYMATCHOFFSET_MAX` set to 24 there too, and 1000 keys in the model, which like
the code's 2^20 keep these few pairs of words apart): 2236 blocks at all four
levels, equal byte for byte.

## 3. Runs

| Run | Bounds | Shows |
|---|---|---|
| `ring` | 3 slots, 2 items | indices in range and consistent, refinement of `BoundedFifo` |
| `pool_counts` | 3 workers, 1 job, 1 update (INC or DEC), min 1, max 3, auto, teardown | `TypeOK`, `ThreadLenCounts`, `DestroyAfterExit` |
| `pool_jobs` | 2 of 3 possible workers, max 2, 3 jobs, queues of 2, 1 update (INC), results, `FairSpec` | `JobConservation`, refinement of `JobPool`, `JobsSettle` |
| `rans` | 5-bit words, scale 8, 3 symbols, messages up to 5 | `Normalised`, `ReciprocalExact`, `RoundTrip` |
| `tables` | 4 symbols, total 16384 as in the code, sections of 100, 16384, 65536 bytes, counts at the edges | `StealSucceeds`, `TableSound`, `SameTable` |
| `tokens` | 2 tokens out of about 450 and a last block, lengths around 3, 7, 15, 30, 285 and beyond, distances around every power of two that matters | `TokensReadBack`, `SectionsKeepShare` |
| `lz16` | inputs of 5 to 62 words, every period up to 5, a changed word, pairs in any order; 4 levels; 1, 3 or 1000 keys | `TablesBehind`, `BlockLossless`, `InsideBuffers` |
| `interface` | inputs of 8 to 40000 bytes, buffers around every threshold, sections around 4096 bytes, failing `calloc` | `SectionsFound`, `NothingOverwritten`, `EncoderInBuffer`, `LosslessWithRoom` |

Why these are enough to be interesting: with queues of 1 (`pool_counts`) or 2
(`pool_jobs`) both queues are full and empty often, and in queues of 2 with three jobs
a wrong order of reading shows; `FAIL_LIMITCOUNT` is 0 or 1 in place of 2^11, so that
the failure paths are reached after one or two failed attempts. `CountCap` bounds how
far a counter may rise; in the two passing runs it is `FAIL_LIMITCOUNT + 2`, so that a
reset that gets lost leaves a counter above the limit, from which the next attempt
behaves differently than in any sequential order. Three workers and a maximum of
three allow one to arrive while two others leave (`pool_counts`); in `pool_jobs` two
work, a third is asked for, and it is the test against the maximum of two that keeps
it from being created. In `tables` the
counts lie around the limits of the entry widths (63/64, 252/256, 16383/16384)
and, with 65536 bytes, below what rounding keeps, so that symbols are rounded to
nothing and have to steal from either side. In `rans` the scale and the
word keep the code's ratios small enough that states emit zero or one word for
each symbol, in both states.

In `tokens` the first token leaves the half-byte position even or odd, so the
second is tried from both. In `lz16` a distance limit of 24 is reached by inputs
of 62 words with a period of 26, an odd number of bytes leaves a stray byte
in the last word, and the inputs of 5 to 11 words are too short for a search, or have
one or a few rounds of it. In `interface` inputs of 409 and 410, 511 and 512 bytes lie on
either side of the 1024 bytes a buffer must have, for 2.5 and 2 times the input;
the larger ones are long enough for `pchar` to overflow and for the packing to
start.

`CHECK_DEADLOCK FALSE` is used where the program ends: after `myqueuedestroy`, and
in the coders, which return. The other pool runs also show that no reachable
state is stuck.

**Fairness** (`FairSpec`): weak fairness of each worker, of the monitor, and of the
application inside a call. They are threads of a preemptive scheduler that
never block: they spin. Nothing is assumed of when the application calls, nor
of the clock.

### Disagreements

Four runs end in a violation, each of something a comment, a test, an assertion or
the README of the library says; `PROJECT.json` quotes it.

* `pool_idle`: a worker that took a job is told `FLAG_FAIL_READ` because another
  worker failed between its unlock and its test of `RFcount`; the job is lost.
* `pool_return`: the monitor takes a worker's exit notice for a request;
  `myqueuedestroy` waits for ever.
* `sections_empty`: an empty distance section before a long section is handed to
  `ranscompress`, and `normalize_freqs` divides by zero.
* `lossless`: a block that is mostly literal, in the `2 * inlen` bytes that
  `mylz16Encode` asks for, is encoded a second time with the layout for `2.5 * inlen`
  bytes, in the same buffer, because the loop sets `po=*pout`. A test with the
  compiled library shows the same: about 5 KB written behind the buffer for the
  inputs tried, and a decoder that returns -3.

Five more things came up in the models that are not runs of their own:

* `write_queue` has the race of `pool_idle` too: while the monitor writes an exit
  order the application's job may be written twice. `JobConservation` is therefore
  said of pools with one writer to `Qwrite`.
* The notice of a busy `Qwrite` has `Fcount` 0, so automatic mode only ever removes
  threads.
* With a buffer of `2.5 * inlen` bytes or more, `pflagExx`, which is written with
  `|=`, lies partly behind the `2 * inlen` bytes that `CheckBuffer` clears.
* The length that `mylz16Encode` returns at levels 2 and 4 for a packed block is 52
  bytes short of what the decoder reads, and a buffer of less than 1024 bytes
  leads to a stored block whose head nobody has written.
* The last block is taken in whole words (`lz16encode.h:242`): of an input of odd
  length the encoder reads, and codes, the byte behind it. `InsideBuffers` states
  the bound as it is: the search stays inside, the last block reads up to
  `inlen + inlen % 2`; the decoder cuts the byte off (`BlockLossless`).

`LosslessWithRoom` is the contract under which calls are lossless in spite of these:
a clear buffer of at least 1024 and at least `2.5 * inlen + 90` bytes, kept as a whole
(the 90 bytes cover the head and the 8 bytes more that each section gets,
of which a block never fills the last). Dropping any of the conditions makes TLC
find a counterexample. With so much room the encoder takes the larger layout at once, so
that the retry does not occur under this contract (the retry itself is what `lossless`
shows to go wrong). And the contract is about calls that return: where the packing
divides by zero (`sections_empty`), or a null pointer is used at level 4, it says
nothing.

The passing runs are to be read with these in mind: `JobConservation` counts a
job given up as `dropped` and holds where only one thread writes to `Qwrite`;
`JobsSettle` says that again and again all jobs submitted so far are settled, and admits
a dropped job (a worker gives its result up when `Qread` stays full, line 432); it is
checked without exit orders; `DestroyAfterExit` is said of pools in which only exit notices can
be in `Qmonitor` (`OnlyExitNotices`), because `myqueuedestroy` counts requests and
failure notices as exits too.

## 4. Proofs

Everything here holds for every value of the constants that the named assumptions
admit, not only for the instances of section 3. A property that a run checks and a
theorem states is the same definition in both.

| Theorem | States | Module |
|---|---|---|
| `RingInvariant`, `RingTypes` | `IndexInv`, `TypeOK` | `RingQueueProofs` |
| `RingImplementsFifo` | `ImplementsFifo` | `RingQueueProofs` |
| `TypeCorrect`, `ThreadLenIsExact` | `TypeOK`, `ThreadLenCounts` | `ThreadPoolProofs` |
| `JobsConserved` | `JobConservation` | `ThreadPoolProofs` |
| `PoolImplementsJobPool` | `ImplementsJobPool` | `ThreadPoolProofs` |
| `DestroyWaits` | `DestroyAfterExit` | `ThreadPoolProofs` |
| `DivisionExact`, `StatesNormalised`, `DecodesMessage` | `ReciprocalExact`, `Normalised`, `RoundTrip` | `RansProofs` |
| `StealFindsGiver`, `TableIsSound`, `TablesAgree` | `StealSucceeds`, `TableSound`, `SameTable` | `NormalizeProofs` |
| `TokensAreReadBack`, `SharesAreKept` | `TokensReadBack`, `SectionsKeepShare` | `CodecProofs` |
| `TablesStayBehind`, `StaysInside`, `RestoresBlock` | `TablesBehind`, `InsideBuffers`, `BlockLossless` | `Lz16Proofs` |
| `StaysInBuffer`, `RestoresInput` | `EncoderInBuffer`, `LosslessWithRoom` | `InterfaceProofs` |
| `PackingIsSafe`, `FindsSections` | `NothingOverwritten`, `SectionsFound` | `InterfaceProofs` |

**`RingQueueProofs`**, for every `maxlen > 0` and every set of items: the invariant is
inductive as it stands; the refinement follows from it and a lemma that slot
numbers modulo `maxlen` are different within one lap, so a write changes none of
the queued items.

**`ThreadPoolProofs`**, for every finite set of workers, every set of jobs and all
limits, from the inductive invariant

    PoolInv == TypeOK /\ ThreadLenCounts /\ IncRoom /\ Held

`ThreadLenCounts` bounds `ThreadLen` from below (a cardinality is not negative)
and `IncRoom` from above: the unlocked test `ThreadLen < TP_MAX_COUNT` is still
true when `inc_workthread_end` counts, because only the monitor adds. `Held` is
needed for the types of what is copied: exit orders never reach `Qread` or the
application, and a thread that writes holds an item. The induction has one
lemma per action; `CountSame` and `CountLess` carry the cardinality argument.
The assumptions are those of `ThreadPool`: the threads are distinct, the set of
workers finite, the limits natural numbers, `StartCount <= TP_MAX_COUNT`. That workers
and jobs are numbers (`NumberAssumption`) is used by no proof.

Its second part, about the jobs, first classifies the steps by what they do with jobs (a step moves
none, takes one from a queue, puts one there, gives one up, ...), and then shows

    JobInv == PoolInv /\ SideInv /\ Divided

for these few moves instead of for every action. `Divided` says in whose hands
each submitted job is; `SideInv` what makes that true: no exit order is in sight,
the application is the only writer of `Qwrite` and the only reader of `Qread`, so the
counter that it looks at after its unlock is its own. That is false once the
monitor writes exit orders (section 3, `write_queue`), so `JobsConserved` and
`PoolImplementsJobPool` assume `"DEC" \notin Updates`, a pool that nobody asks to
shrink; workers may still retire in automatic mode. The invariant is therefore
proved in the form `QuietInv == PoolInv /\ (NeverDec => JobInv)`, which needs no
assumption. The refinement maps each move to one step of `JobPool` or to none.

`DestroyWaits` needs no assumption of its own; its property already says of which
pools it speaks. `ExitInv` counts: the notices in `Qmonitor`, the one in the monitor's
hands and those `myqueuedestroy` has counted are together not more than the workers
that have gone, so when all are counted, all have gone.

**`RansProofs`**, for every precision, every table and every message. The step:
`DivisionExact` is the reciprocal with its rounding error below one unit, frequency
1 with its bias included, in the steps of pairs and of an odd last byte; the decoder's step is the inverse of the encoder's, and
renormalisation moves exactly one word or none. The stream: the decoder reads
backwards what the encoder wrote, so no relation between the present states
alone is inductive. `CoderInv` says that there is a trace, the pairs of states and
the words left at each position of the message, each entry the encoder's step
from the one before it; while coding, the present state is the trace's last entry,
while decoding, the entry that belongs to what is decoded so far.
`WidthAssumption` are the relations between the widths, `PowersAssumption` says that
shifting reaches every frequency.

**`NormalizeProofs`**, for every alphabet, all counts, and every `target_total` from
the size of the alphabet to 65535. The upper limit is the code's: a three-byte
entry of the table keeps 16 bits of its value only (the code has 16384).
`NormInv` has a part for each phase: the cumulative table as far as it is summed;
while units are stolen, that the table ends at `target_total` and the symbols passed
have their share (`StealInv`; a count of units then shows that one of the others
has two); the entries that stand in memory from the current one on (`WriteInv`,
`ReadInv`, with the memory behind each entry as a witness); and the second
normalisation, which finds its result already there. What
holds for every symbol of a table is proved by a smallest symbol for which it
fails (`Least`, from the library's `WFMin`), since the library's induction theorems take
an operator.

**`TokenProofs`, `CodecProofs`**, for tokens of any lengths and all distances below
`MYMATCHOFFSET_MAX`, in both formats (`TokensAssumption`: the first token has a literal,
the last block has four words). `Holds(s, n, w)` says that `w` stands in section `s` behind
`n` units; for every kind of field there is a lemma that a reader that stands there
returns what was written and stops behind it, and that later writing does not
disturb it. `CodecInv` says that there is a path, the reader before each token, along
which the codes of the tokens stand; the decoder is always on it. The shares
follow from a bound on what one token takes for the words it stands for.

**`Lz16Proofs`**, for every input of more than 8 bytes, every level, every hash
function and every size of the hash table, and every `MYMATCHOFFSET_MAX` up to 2^20,
the distances that the token format has room for. The search is free to find what
it finds, so the invariant says what a token means rather than how it was found:
`Tells` says that the words of the input behind a token are its literals and a
repetition at its distance, and that 8 bytes of the input are left behind it.
While the encoder searches, there is a list of tokens that tells the input up to
`pi`, stands along a path of the sections (as in `CodecProofs`), and has the literals
not yet in a token behind it (`Told`); while the decoder runs, it stands at a position
of that list, with the words before it restored (`Decoding`). `TablesBehind` makes the distances
positive; the 8 bytes are what the decoder stores ahead. `StaysInside` keeps the
search apart from the last block: as long as the search goes on nothing behind the
input has been read, and afterwards at most the second half of its last word.
For the copies, `QuadsCopied` goes through the fours one by one, `SampleCopied`
rests on the period of the words (`Period`), and `PairCopied` on the order of the two
stores. Induction is by a smallest counterexample, as above; that the recursive
function of `CopyQuads` exists is proved in the same way (`StepsExist`).

**`InterfaceProofs`**, for every input length, every buffer and all section lengths
that tokens can lead to (`Feasible`, which `SharesAreKept` justifies) and all lengths
of coded sections within `IsEncodedLength`. `IfInv` has the arguments (`CallInv`), what the
layout leaves as room (`RoomInv`), what the block holds (`BlockInv`), and where the
packing stands: what is packed ends before what is still to be read (`PackInv`).

Only model-checked: `JobsSettle` (liveness is out of the prover's reach), and the four
runs that end in a violation. Every invariant and action property of the passing
runs is a theorem.

## 5. Not modelled

* The vendored compressors under `other/` (zstd, lz4, lzfse), which the test program
  compares speeds with: third-party code, and more than nine tenths of the
  repository's lines, so the map can cover only a small share of the whole. The
  library's own code, `lib/` and `tests/`, has about 3000 lines.
* `tests/common.*` and most of `tests/main.c`: files, random data, timing, printing.
* The per-thread-count statistics of the pool, but for the range of their index.
* Tests of the head fields (`flag`, `index`, `inlen`) in the decoders: a block that
  the library wrote passes them, and other input is no subject of these models.
* What the C library makes of `memcpy` with overlapping arguments
  (`lz16encode.h:267`), and what follows a null pointer (`lz16encode.c:169`).
* `Rans64DecAdvanceStep` and its relatives, which nothing calls.

## 6. Plan

Every passing property but the liveness property is proved. What would add to that:

1. the section lengths of the blocks that `Lz16` writes, so that `Feasible`, the
   assumption of `Lz16Interface` about them, follows from the search itself and not
   from tokens in general (`SharesAreKept`);
2. what is left of `JobConservation` when `UpdateThreads(DEC)` is used: a job may then
   be in `Qwrite` twice, but none is lost.
