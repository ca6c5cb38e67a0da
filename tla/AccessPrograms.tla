---------------------------- MODULE AccessPrograms ----------------------------
(***************************************************************************)
(* The instruction sequences of the timed tests: the functions of common.c *)
(* that latency_tasks lists (and those that its commented-out longer table *)
(* lists), the passes of read_after_write_job, and cachefence.             *)
(*                                                                         *)
(* Of an instruction the memory it touches and its line of 64 bytes are    *)
(* kept; register moves and the nops of CLEAR_PIPELINE are left out.       *)
(* "region" is the tested memory, "results" and "index" are parts of the   *)
(* ReportFS device.                                                        *)
(***************************************************************************)
EXTENDS Naturals, Sequences, SequencesExt

Plain(op) == <<[op |-> op, mem |-> "none", line |-> 0]>>
Access(op, mem, byte) == <<[op |-> op, mem |-> mem, line |-> byte \div 64]>>

Mfence == Plain("mfence")
Lfence == Plain("lfence")
Sfence == Plain("sfence")
Rdtsc == Plain("rdtsc")
Rdtscp == Plain("rdtscp")

Load(byte) == Access("load", "region", byte)
Store(byte) == Access("store", "region", byte)
NtStore(byte) == Access("ntstore", "region", byte)
Flush(op, byte) == Access(op, "region", byte)

\* Part(0), Part(1), .. Part(n - 1), one after the other.
Repeat(n, Part(_)) == FlattenSeq([k \in 1 .. n |-> Part(k - 1)])

-----------------------------------------------------------------------------
(* common.c.  at is the address a function is called with. *)

LoadAddr == Mfence
TimingBeg == Mfence \o Lfence \o Rdtsc
TimingEnd == Rdtscp \o Lfence

\* Mutants: REC_TIME without its last fence, and with the weaker one.
RecTimeOpen == Mfence \o Rdtscp
RecTimeSfence == Sfence \o Rdtscp \o Lfence

RecTime == Mfence \o Rdtscp \o Lfence

Baseline == TimingBeg \o TimingEnd

LoadCacheLine(at) == Repeat(32, LAMBDA k : Load(at + 8 * k)) \o Mfence
FlushCacheLine(at) == Repeat(4, LAMBDA k : Flush("clflush", at + 64 * k)) \o Mfence

\* Mutant: with the sfence that the comment at common.c:133 warns of.
StoreHelpSfence(at, instructions, prefetch) ==
  LoadAddr \o (IF prefetch THEN LoadCacheLine(at) ELSE <<>>)
  \o TimingBeg \o instructions \o Sfence \o TimingEnd

StoreHelp(at, instructions, prefetch) ==
  LoadAddr \o (IF prefetch THEN LoadCacheLine(at) ELSE <<>>)
  \o TimingBeg \o instructions \o Mfence \o TimingEnd

LoadHelp(at, instructions) ==
  LoadAddr \o FlushCacheLine(at) \o TimingBeg \o instructions \o Lfence \o TimingEnd

\* size bytes in accesses of width bytes; with a flush, one after each line.
StoreSize(at, size, width) == Repeat(size \div width, LAMBDA k : Store(at + width * k))
StoreNt(at, size) == Repeat(size \div 32, LAMBDA k : NtStore(at + 32 * k))

\* Mutant: each flush is that of the first line.
StoreFlushFirst(at, size, width, flush) ==
  Repeat(size \div 64, LAMBDA l : StoreSize(at + 64 * l, 64, width) \o Flush(flush, at))

StoreFlush(at, size, width, flush) ==
  Repeat(size \div 64, LAMBDA l : StoreSize(at + 64 * l, 64, width) \o Flush(flush, at + 64 * l))
LoadSize(at, size, width) == Repeat(size \div width, LAMBDA k : Load(at + width * k))

\* store_4_clwb .. store_32_clwb: parts of a line; r10 is at's line.
StoreClwb(at, size, width) == StoreSize(at, size, width) \o Flush("clwb", at - (at % 64))

\* The functions with a time stamp after each access.  The flush is always
\* that of the line at rsi.
Steps(n, Step(_)) ==
  LoadAddr \o RecTime \o Repeat(n, LAMBDA k : Step(k) \o RecTime)

Read8Clwb(at) == Steps(8, LAMBDA k : Load(at + 8 * k) \o Flush("clwb", at))
Store8ClwbRead(at) ==
  Steps(8, LAMBDA k : (IF k = 0 THEN Store(at) ELSE Load(at + 8 * k)) \o Flush("clwb", at))
Store8ClwbRead1(at) ==
  Steps(2, LAMBDA k : (IF k = 0 THEN Store(at) ELSE Load(at + 32)) \o Flush("clwb", at))
StoreSkip(at, n, skip) == Steps(n, LAMBDA k : Store(at + skip * k) \o Flush("clwb", at))

\* The functions in latency_tasks, by name, and the results of a call.
BenchFunc(f, at) ==
  CASE f = "baseline" -> Baseline
    [] f = "read_8_clwb" -> Read8Clwb(at)
    [] f = "store_8_clwb_read" -> Store8ClwbRead(at)
    [] f = "store_8_clwb_read_1" -> Store8ClwbRead1(at)
    [] f = "store_8_skip_8_no_prefetch" -> StoreSkip(at, 8, 8)
    [] f = "store_8_skip_16_no_prefetch" -> StoreSkip(at, 4, 16)
    [] f = "store_8_skip_32_no_prefetch" -> StoreSkip(at, 2, 32)
    [] f = "store_8_clwb_no_prefetch" -> StoreHelp(at, StoreClwb(at, 8, 8), FALSE)

ResultCnt(f) ==
  CASE f \in {"baseline", "store_8_clwb_no_prefetch"} -> 1
    [] f \in {"store_8_clwb_read_1", "store_8_skip_32_no_prefetch"} -> 2
    [] f = "store_8_skip_16_no_prefetch" -> 4
    [] OTHER -> 8

AdvancingFuncs == {"read_8_clwb", "store_8_clwb_read", "store_8_clwb_read_1",
  "store_8_skip_8_no_prefetch", "store_8_skip_16_no_prefetch",
  "store_8_skip_32_no_prefetch", "store_8_clwb_no_prefetch"}
LatencyTasks == {<<"baseline", 0>>} \cup (AdvancingFuncs \X {0, 64, 128})

\* latency_job: each result goes to rbuf before the next call.
WriteResults(n, j) == Repeat(n, LAMBDA k : Access("store", "results", 8 * (j + k)))

SequentialLoop(f, skip, calls) ==
  Repeat(calls, LAMBDA c :
    BenchFunc(f, c * skip) \o WriteResults(ResultCnt(f), c * ResultCnt(f)))

\* The place of a random access is read from the report device.
RandomLoop(f, places) ==
  Repeat(Len(places), LAMBDA c :
    Access("load", "results", 0) \o BenchFunc(f, places[c + 1])
    \o WriteResults(ResultCnt(f), c * ResultCnt(f)))

\* The functions of the commented-out table.
StoreWhole(size) ==
  {StoreHelp(0, instructions, prefetch) : prefetch \in BOOLEAN,
     instructions \in {StoreSize(0, size, 8), StoreSize(0, size, 32), StoreNt(0, size),
                       StoreFlush(0, size, 32, "clwb"), StoreFlush(0, size, 32, "clflushopt"),
                       StoreFlush(0, size, 32, "clflush"), StoreFlush(0, size, 8, "clflush")}}
StorePart(size) ==
  LET w == IF size = 4 THEN 4 ELSE 8 IN
  {StoreHelp(0, StoreSize(0, size, w), FALSE), StoreHelp(0, StoreClwb(0, size, w), FALSE)}
LoadWhole(size) == {LoadHelp(0, LoadSize(0, size, w)) : w \in {8, 32}}

\* overwrite_job: repeat_256byte_ntstore has no fence before TIMING_END.
Repeat256NtStore(at) == LoadAddr \o TimingBeg \o StoreNt(at, 256) \o TimingEnd
OverwriteLoop(calls, skip) ==
  Repeat(calls, LAMBDA c : Repeat256NtStore(c * skip) \o WriteResults(1, c))

-----------------------------------------------------------------------------
(* memaccess.c and read_after_write_job: count blocks of size bytes, one   *)
(* every skip bytes.                                                       *)

Blocks(size, skip, count, Block(_)) == Repeat(count, LAMBDA b : Block(skip * b))
Lines(at, size, Line(_)) == Repeat(size \div 64, LAMBDA l : Line(at + 64 * l))

StoreFlushLine(byte) == Store(byte) \o Flush("clwb", byte)

StrideStoreclwb(size, skip, count) ==
  Blocks(size, skip, count, LAMBDA at : Lines(at, size, StoreFlushLine))
StrideNt(size, skip, count) ==
  Blocks(size, skip, count, LAMBDA at : Lines(at, size, NtStore))

\* What its label calls LDNT are the stores of SIZEBTNT_64_AVX512.
StrideReadAfterWrite(size, skip, count) ==
  Blocks(size, skip, count, LAMBDA at :
    Lines(at, size, StoreFlushLine) \o Mfence \o Lines(at, size, NtStore) \o Mfence)

\* init_chasing_index writes a link for each line of a block, both passes
\* follow the links; the cycle they follow here is 0, 1, 2, ..
InitChasingIndex(size) ==
  Repeat(size \div 64, LAMBDA l : Access("store", "index", 8 * l))
ChasingStoreclwb(size, skip, count) ==
  Blocks(size, skip, count, LAMBDA at :
    Lines(at, size, LAMBDA byte :
      Access("load", "index", (byte - at) \div 8) \o StoreFlushLine(byte)))
ChasingLoadnt(size, skip, count) ==
  Blocks(size, skip, count, LAMBDA at : Lines(at, size, Load))

RawStamp == Rdtscp \o Lfence

RawPasses(writes, reads) ==
  RawStamp \o writes \o Mfence \o RawStamp \o reads \o Mfence \o RawStamp

ReadAfterWriteJob(size, skip, count) ==
  RawPasses(StrideStoreclwb(size, skip, count), StrideNt(size, skip, count))
  \o RawStamp \o RawStamp \o StrideReadAfterWrite(size, skip, count) \o Mfence \o RawStamp
  \o InitChasingIndex(size)
  \o RawPasses(ChasingStoreclwb(size, skip, count), ChasingLoadnt(size, skip, count))

\* cachefence: of size bytes, cache bytes are stored and then flushed, and
\* every fence bytes there is an sfence; the rates divide each other.

\* Mutant: the flushes begin where the stores have ended.
FlushRangeLate(from, to) ==
  Repeat((to - from) \div 64, LAMBDA l : Flush("clwb", to + 64 * l))

FlushRange(from, to) == Repeat((to - from) \div 64, LAMBDA l : Flush("clwb", from + 64 * l))
CacheFence(size, cache, fence) ==
  Repeat(size \div fence, LAMBDA f :
    Repeat(fence \div cache, LAMBDA c :
      LET from == f * fence + c * cache IN
      Lines(from, cache, Store) \o FlushRange(from, from + cache))
    \o Sfence)
=============================================================================
