# TLA+ models of frisbee: the image codec core and the event client

This directory holds TLA+ specifications of three parts of frisbee:
- the hash-map delta engine and the life of the signature it builds, in `src/src/imagezip/hashmap/hashmap.c`;
- the relocation table of libndz, in `src/imagezip/libndz/reloc.c`;
- the event-server client of the frisbee server, in `src/frisbee.redux/event.c`.

It also holds the TLC configurations that model-check the specifications, and TLAPS proofs of their central invariants. `PROJECT.json` lists:
- every component;
- every run;
- the mutant that shows each property can fail;
- the source lines each definition translates;
- the findings and the hazards.

## The system and how its parts interact

imagezip captures the allocated sectors of a disk into chunks. When a signature of a previous image exists, it first calls `hashmap_compute_delta`. That function walks two ordered lists together:
- the allocated ranges of the current disk (`curranges`);
- the hash regions of the previous signature (`readhashinfo`).

It produces two outputs:
- the ranges whose contents changed (`*nranges`), which go into the image;
- optionally, a new signature (the static `nhinfo`), which `hashmap_update_chunk` and `hashmap_write_hashfile` later finish and write.

To hash what the image will contain, `hash_range` applies the pending *fixups* to the buffer it has read. Fixups are edits the filesystem code wants made to the image, and applying them consumes them. So the walk saves the fixup list first and restores it on every return (`savefixups` and `restorefixups`).

After the delta, the chunk writer (not under `src/`; spec 4.3) cuts the image data into chunks. For each chunk it calls `hashmap_update_chunk(ssect, lsect, chunkno)`, which gives each new-signature region the number of the chunk it starts in. A region that reaches past the chunk gets the span bit (`HASH_CHUNKSETSPAN`), and the next chunk asserts that it was marked (line 712). At the end `hashmap_write_hashfile` subtracts the partition offset from every region, narrows the signature to the 32-bit V2 format when the image version allows, and writes it.

libndz keeps one relocation table per image file:
- `ndz_reloc_get` appends the relocation records of each chunk header it reads.
- A chunk writer sizes a header's relocation area with `ndz_reloc_inrange`.
- The writer then fills that area with `ndz_reloc_put`.
- `ndz_reloc_copy` clones a table into another file.
- `ndz_reloc_free` drops the records.
- `ndz_reloc_init` resets the table.

The frisbee server reports client status to an event server through `event.c`. It holds three statics: the registration `ehandle`, the address `tuple`, and the server name `eserver`. `EventInit` keeps the name and calls `EventReinit`, which registers and allocates the tuple. `EventSendClientReport` reconnects when disconnected, fills the tuple and notifies. A failed notify disconnects (`EventDeinit`), so the next report reconnects.

## Modules

| Module | Models | State and actions |
|---|---|---|
| `HashBlocks` | `struct range` and the hash-block grid of `add_to_hashmap` | `Pieces(rstart, rsize)`: the closed form of how a range is cut at block boundaries measured from the partition start `SSect` |
| `Hashmap` | one call of `hashmap_compute_delta`, from entry to return (lines 731-1286), with `hash_range`, `hash_and_cmp`, `add_to_range`, `addhash` and `add_to_hashmap` | see below |
| `HashChunk` | the `while` loop of `add_to_hashmap` (623-672), one iteration per step | checked, and proved for all constants, against `Pieces`, which `Hashmap` uses in the loop's place |
| `Reloc` | `ndz_reloc_init/get/copy/free` as actions, `ndz_reloc_put/inrange` as queries | per file `reloc32`, `data` (records with their sector and stored width), `reloclo`, `relochi`; `failed` records an `assert()` that aborted |
| `HashSig` | `hashmap_update_chunk` (688-724), `hashmap_write_hashfile` (415-577), and a further `hashmap_compute_delta` call, composed with `Hashmap` (EXTENDS) and the chunk writer of spec 4.3 | see below |
| `Event` | `event.c`: `EventInit`, `EventReinit`, `EventDeinit`, `EventSendClientReport` | `conn` (handle, tuple, and what the event library has handed out), `eserver`, `inited`, `delivered`, `sends`, `crashed` |
| `EventSession` | what the event client promises, without handles or tuples | `server`, `session`, `delivered` |
| `MC_Hashmap`, `MC_HashSig`, `MC_Reloc` | the TLC instances | the input sets and constants |
| `HashmapProofs` | TLAPS proofs about `Hashmap` | |
| `HashmapDeltaProofs` | the TLAPS proofs of `Hashmap`'s delta exactness and append-only output | |
| `RelocProofs` | TLAPS proofs about `Reloc` | |
| `EventProofs` | TLAPS proofs about `Event`, including its refinement of `EventSession` | |

### Hashmap: correspondence with the code

`pc` is where the function is: `idle`, `drain`, `decide`, `covered`, `trail`, `done` or `error`.

**Variables.**
- `hreg` is an index into `hinfo`.
- `drange` is the `tmprange` copy made by `COPYRANGE`, and `di` is the index in `curranges` it was copied from.
- `changed` is the verdict on the current hash region.
- `nranges` is the output list after `dummy_head`.
- `nhinfo` and `nhstate` are the new signature and its pointer, which is "null", "live" or "freed".
- `fixups` and `saved` are the fixup list and the copy `savefixups` takes.

**Actions**, each one a whole handler of the code:
- `Call` (731-832): readhashinfo's result or failure, `savefixups`, the first `COPYRANGE`, then the loop head.
- `Drain` (846-870): a range before the hash region is emitted, both `add_to_range` and `add_to_hashmap`.
- `DrangeExhausted` (871): the ranges ran out.
- `SkipHreg` (887-892): the region was deallocated.
- `HeadSplit` (894-939): emit the part before the region and narrow `drange`.
- `Decide` (963-1015): `hash_free`/single-cover compare, fixup overlap (`changed = 3`), `hash_and_cmp`, the new signature entry, or the gap case (`changed = 2`).
- `DecideFails`: the read in `hash_and_cmp` or the allocation in `addhash` fails.
- `CoverStep` (1033-1117): one range inside the region: split at the region end, emit unless unchanged, per-range hashes when `changed > 1`, bump unless split.
- `CoverDone` (1118-1214): next region, or leave the loop.
- `Trail` (1215-1237): ranges after the last region.
- `Finish` (1238-1268): set up the new signature, `restorefixups(1)`.
- `Fail` (1270-1286): the `error:` label, with `restorefixups(0)`, `free(nhinfo)` without clearing it, and `freeranges`. Every `goto error` of the code is a disjunct that ends in `Fail`; its guard is when that call can fail (`EmitCanFail`).

**Data abstraction.**
- A sector's content is "old", "new" (modified since the previous image) or "fixed" (a fixup was applied in the buffer).
- A hash is the function from the sectors it covers to their contents. It is ideal: equal exactly when the contents are.
- The fixup subsystem is not under `src/`, so the fixup list is a set of sectors. `hash_range` consumes those it reads.
- Statistics, FOLLOW output and the hash algorithm choice are left out.

### Reloc: correspondence with the code

- **`Get(f)`** models `ndz_reloc_get` (64-125):
  - the width is locked by the first chunk, and later chunks are asserted to match it;
  - a `malloc`/`realloc` failure frees the table;
  - per record: set `reloclo` if it is unset, `assert(reloclo <= rsector)`, raise `relochi`, append.
- **`Copy(from, to)`** models `ndz_reloc_copy` (231-251). It copies the records, the count and the bounds, and not `reloc32`.
- **`Free`** models `ndz_reloc_free`. It does not reset the bounds or the width.
- **`Reinit`** models `ndz_reloc_init`.
- **`PutSel`** models what `ndz_reloc_put` copies. It compares with the `uint32_t` header fields `firstsect`/`lastsect`, so `% Wrap` stands for the 32-bit truncation.
- **`Inrange`** models what `ndz_reloc_inrange` counts, including its break at the first record past the range.
- A record's width is kept in the model, so the model can say which layout it was written in.

### HashSig: correspondence with the code

`HashSig` EXTENDS `Hashmap`: while `phase = "delta"` the delta walk runs unchanged, and when it has returned the image writer takes over. `phase` is `"chunking"` from then on.

**Variables.**
- `ccur` and `csplit` are the chunk writer's position and whether the last chunk split a range.
- `windows` records the `(ssect, lsect)` of each `hashmap_update_chunk` call.
- `afail` records an `assert()` that aborted: `"span"` (line 712) or `"start"` (line 431).
- `before` is `nhinfo` as the first `hashmap_write_hashfile` found it.
- `sigfile` is the signature file, with its state, version and regions.
- `writes` counts the write attempts.

**Operations.**
- `UpdateChunk(ssect, lsect, chunkno)` is the whole of `hashmap_update_chunk`, with these cases:
  - the `nhinfo == NULL` return;
  - `lsect--`;
  - the `uint32_t` copies `hrssect` and `hrlsect` (`Hrs` and `Hrl`, `% Word`);
  - skipping regions wholly before the window, and the `break` at the first region wholly after;
  - the assert on regions that start before `ssect`;
  - the chunk number, with the span bit for a region that ends past `lsect` (`NewChunkNo`).
- `BeginChunks` and `WriteChunk` are the chunk writer, modelled from spec 4.3. A chunk's `firstsect` is its first data sector, or the previous `lastsect` when a range was split. Its `lastsect` ends the data, or credits free space up to the next data. Every cut TLC can choose is allowed.
- `WriteHashfile` is `hashmap_write_hashfile`. Its steps, in the code's order:
  - the rebase `hreg->start -= poffset` with its assert (`Rebase`);
  - the open, which can fail;
  - the V2 narrowing (`Narrows`): image version below 5, no SHA-256, every start below 2^32, and the `malloc`; otherwise V3;
  - the write, which can be short.
  A failure returns -1 with the regions already rebased. The caller may call again, up to `MaxWrites` attempts.

**Constants.** `Word` stands for 2^32 and `SpanBit` for `HASH_CHUNKSETSPAN`'s bit. TLC's integers are 32-bit, so both are small.

### Event: correspondence with the code

`conn` is a record: `eh` and `tu` are `ehandle` and `tuple` (`"null"` or `"live"`), and `regs` and `tuples` count the registrations and tuples the event library has handed out and not had back.

- `Register`, `TupleAlloc` and `TupleNull` are `event_register` and `address_tuple_alloc` succeeding or returning NULL.
- `Reinit(c, srv)` is the set of outcomes `[rv, c]` of `EventReinit` (53-76): 0 when already registered; 1 without a name; 1 when `event_register` fails; 0 with a tuple; 1 after `EventDeinit` when the tuple allocation fails.
- `EventInit` (78-95): a NULL server returns 1; otherwise `strdup` keeps the name (or fails, leaving `eserver` NULL), then `EventReinit`. frisbee's server calls it once (`inited`).
- `EventDeinit` (97-108): free the tuple and unregister, when registered.
- `EventSendClientReport` (110-178): it reconnects only when `ehandle == NULL`. It then writes through `tuple`; a NULL tuple sets `crashed`. The notification allocation may fail, and so may `event_notify`, after which it disconnects. Report contents are left out. `MaxSends` bounds the calls.

`EventSession` is the abstract client. The server name is learned once, and at most one session is open. A report is delivered only over a session, which is opened on demand when the name is known and closed by a lost report. `Event` maps onto it through `Session == INSTANCE EventSession WITH server <- ..., session <- ...`, where the session is open exactly when `ehandle` is live.

## Runs

| Run | Configuration | What it shows |
|---|---|---|
| `hashmap_free` | `MC_Hashmap.cfg` (hash_free = 1) | the delta and the signature are exact, the output only grows in disk order, fixups are restored, the asserts hold, the call returns |
| `hashmap_nofree` | `MC_Hashmap_NoFree.cfg` (hash_free = 0, the default build) | the same for the build that never compares a region with a gap |
| `hashchunk` | `HashChunk.cfg` | `add_to_hashmap`'s loop cuts exactly as `Pieces` says |
| `reloc` | `MC_Reloc.cfg` | with chunks read in order, bounds are exact and `put` copies what `inrange` counts |
| `reloc_unordered` | `MC_Reloc_Unordered.cfg` | bounds stay exact even for chunks read out of order |
| `event` | `MC_Event.cfg` | the client never writes through a NULL tuple, leaks no registration or tuple, and implements `EventSession` |
| `hashsig` | `MC_HashSig.cfg` (default build) | for every cut of the image into chunks, `update_chunk`'s assert holds, chunk numbers are exact, and the written signature reads back as `nhinfo` was |
| `hashsig_faults` | `MC_HashSig_Faults.cfg` (hash_free, a retried write) | the chunk numbers are still exact, and a retry that meets rebased starts trips assert 431 |
| `hashsig_hashfree` | violation of `SpanAssertHolds` | with `hash_free`, a region starting in free space before its chunk's data trips the assert at 712 |
| `hashsig_wrap` | violation of `ChunkAnnotated` | the `uint32_t hrssect` misnumbers regions past 2^32 sectors |
| `hashsig_retry` | violation of `SigRoundTrip` | a retried write rebases the regions twice |
| `reloc_copy_width` | violation of `WidthAgrees` | `ndz_reloc_copy` does not copy `reloc32` |

**Hashmap properties.**
- `DeltaExact`: on success, the output ranges are exactly the allocated sectors that no compared, fixup-free, still-matching hash region shows unchanged. They are also ascending and never adjacent (`add_to_range` coalesces).
- `NewSignatureExact`: every new region is at most a block and inside one block. The regions are ordered, and each carries the hash of its sectors as on disk with the fixups applied. Together they cover the allocated sectors plus every compared, fixup-free region.
- `FixupsRestored`: on either return, the fixup list is the one the call started with.
- `Assertions`: the code's `assert()`s.
- `OutputAppendOnly` (action property): until an error, no step removes a sector from the output ranges. Every sector a step adds lies past all sectors already there, so `add_to_range`, the only writer of the list, builds it in disk order. The mutant `AddToRangeOverwrite` sets the tail's size where the code adds to it. It breaks this property at the first coalescing step, long before `done`.
- `Termination`: `(pc # "idle") ~> (pc \in {"done","error"})`.

**HashSig properties.**
- `SpanAssertHolds`: the assert of `hashmap_update_chunk` at line 712 never fails.
- `ChunkAnnotated` (spec 8): once every chunk has been passed to `hashmap_update_chunk`, every region holding image data starts in some chunk. It carries that chunk's number, with the span bit exactly when it reaches past the chunk's `lastsect`.
- `SigRoundTrip` (spec 8 and 4.5): the file written, read back with the partition offset added, gives the regions `hashmap_write_hashfile` was called with.

**Event properties.**
- `NoNullTuple`: `EventSendClientReport` never writes through a NULL tuple; a live `ehandle` always has a tuple.
- `NoLeak`: the library has handed out exactly the handle and tuple the statics hold.
- `ImplementsSession`: `Session!ASpec`, the refinement.

**Reloc properties.**
- `BoundsExact`: spec section 8, `reloclo` and `relochi` are the least and greatest sector stored.
- `PutMatchesInrange`: for every chunk window, the count `inrange` reports equals the number of records `put` writes. It is checked for in-order reads, the order spec 3 requires: out of order, `inrange`'s early break undercounts. It is also checked only for sectors below `Wrap`: past 2^32 sectors, `put`'s 32-bit header comparison selects another chunk's records. Both edges are hazards in `PROJECT.json`.
- `WidthAgrees`: every record is stored in the width the table reads it with.

Each property of a passing run has a mutant in `PROJECT.json`: a plausible bug in the mapped code that TLC catches. Examples are bumping `drange` after a split, the `<` instead of `<=` in the deallocation test, and a copy that forgets the bounds.

## Bounds, and why they are enough

**Hashmap** uses a partition of 4 sectors from sector 1, with blocks of 2 sectors. Its inputs are:
- every non-empty range list over the partition;
- every signature this code writes (block-aligned regions);
- at most one modified sector;
- at most one pending fixup;
- with or without a new signature;
- with every I/O failure.

These inputs cover all the cases of the walk:
- ranges before, inside, straddling and after regions;
- regions with gaps;
- a range crossing a region end;
- deallocated regions;
- fixup overlap;
- failures at every `goto error`.

One run has about 515,000 distinct states. `MC_Hashmap` gives TLC finite hash sets through `Hashes <- MCHashes`.

**HashChunk** takes blocks of 4 from sector 3, starts 3..14 and sizes up to 11. That covers every offset in a block and ranges of one to four blocks.

**HashSig** reuses the Hashmap partition: 4 sectors from sector 1, blocks of 2, every range list and signature, and I/O failures. It has no fixups, since their effect on the signature is Hashmap's concern. `Word = 16` is above every sector, so only the wrap run (`Word = 4`) truncates. `SpanBit = 64` is above every chunk number. These bounds give:
- chunks that end ranges and chunks that split them;
- regions spanning two or three chunks;
- every outcome of the write: open failure, short write, V2 and V3.

The faults run adds `hash_free` and two write attempts (about 237,000 states).

**Event** explores 8 calls of `EventSendClientReport`. That is enough for two full cycles of register, lose a notify, and reconnect, around every failure of `EventReinit`.

**Reloc** uses two files, sectors 0..3, up to 2 records per chunk and 3 per table, with V3 and V5 headers.

## Fairness

The walk is single-threaded straight-line code, so once called it runs to completion. `Spec` therefore has weak fairness on `Walk` (every action except `Call`). Nothing obliges the caller to call, so `Call` has no fairness. The Reloc, HashSig and Event models have no liveness property. Their operations are caller-driven: nothing in the code obliges the image writer to write another chunk or the server to send another report. Their runs do not check deadlock (`CHECK_DEADLOCK FALSE` in the HashSig configurations), because a run that aborted on an assert, or wrote its signature, really stops. The Event run checks deadlock: the bound `MaxSends` ends every behaviour, and `EventDeinit` is always enabled.

## Proofs (`HashmapProofs.tla`, `HashmapDeltaProofs.tla`, `HashChunkProofs.tla`, `HashSigProofs.tla`, `RelocProofs.tla`, `EventProofs.tla`, checked by `tlapm`)

**`TypeCorrect`** proves `Spec => []TypeOK` for every value of the constants, from the assumptions `BlocksAssumption`, `ConstantsAssumption` and `InputsAssumption`.
- `TypeOK` is not inductive alone: `H = hinfo[hreg]` is only meaningful when `hreg` is a valid index.
- The strengthening adds `HregOK`: in `drain`, `decide` and `covered`, `hreg \in 1..Len(hinfo)`.
- It rests on lemmas about the helpers:
  - `Pieces` yields a sequence of extents;
  - `DiskHash` is a hash;
  - `AddToRange` keeps a list of extents.

**`FixupsAlwaysRestored`** proves `Spec => []FixupsRestored`. Its inductive invariant `FixInv` says three things:
- without a new signature, the fixup list is never touched;
- with one, while the walk runs, the saved copy equals the list at the call;
- at `done` or `error`, the list equals it again.

Each action preserves `FixInv`:
- `Fail` and `Finish` restore the saved copy;
- `AddToHashmap` only consumes fixups while the saved copy is intact.

TLC checked `FixInv` as an invariant before it was proved.

**`AssertionsHold`** proves `Spec => []Assertions`: no `assert` of the walk fires, for every partition, block size and input.
- `Assertions` is not inductive alone. Whether a later step's assert holds depends on where `drange` stands against the current range and hash region, and `Assertions` does not record that.
- The inductive invariant is `TypeOK /\ HregOK /\ WalkInv`. `WalkInv` says:
  - while the walk runs, its inputs are well formed (ordered ranges of positive size, regions of positive size);
  - in `drain`, `decide`, `covered` and `trail`, a non-null `drange` is a non-empty tail of the current range: same end, positive size;
  - in `decide`, `drange` starts inside the hash region `H`; in `covered`, it starts at or after `H`'s start;
  - in `trail`, a non-null `drange` means the regions are exhausted.
- One lemma per action shows it preserves `WalkInv`. `HeadSplit` and `CoverStep` carry the arithmetic: the split and the cut keep the end and shrink the start into the region.
- TLC checked `WalkInv` on the `hashmap_free` configuration (514,865 states) before it was proved.

**`ChunkingAlwaysAgrees`** (`HashChunkProofs.tla`) proves `Spec => []ChunkingAgrees` for every block size, partition base and range. So the loop of `add_to_hashmap` cuts exactly the pieces of the closed form `Pieces`, which the Hashmap model uses in place of the loop.
- The inductive invariant `IInv` is `ChunkingAgrees` with the types of the loop variables.
- The argument is one lemma per case of an iteration:
  - `HsizeFirst`: once `offset` is the offset of `rstart` in its block, the loop's `if`/`else if` chain picks `FirstSize`, the distance to the block end or the rest of the range.
  - `PiecesOne`: a range that fits in what is left of its block is one piece.
  - `PiecesHead`: otherwise the closed form is the first piece followed by the closed form of the rest, which starts on a block boundary. So `offset' = 0` is right.
- These rest on arithmetic lemmas about `\div` and `%`: `DivModUnique`, `DivModSplit` and `DivMono`, the last being that block indices do not decrease.
- TLC checked `IInv` on the `hashchunk` configuration before it was proved.

**`SigFirstWriteRoundTrip`** (`HashSigProofs.tla`) proves `SigSpec => [](writes <= 1 => SigRoundTrip)`. A signature file written at the first attempt reads back, through `readhashinfo`, as the regions the write was called with. This holds for every partition, block size and word width, V2-narrowed or not.
- The restriction to `writes <= 1` is not a convenience. A retried write does break the round trip, because the first attempt left the starts rebased; the `hashsig_retry` run is that finding. The theorem states what does hold.
- The inductive invariant `SigInv` says:
  - nothing is written before the first write;
  - after one write, the file's regions, read back, are `before`.
- It rests on `RegionRoundTrip` (rebasing a start and adding `SSect` back is the identity) and on type lemmas for each signature operation.
- TLC checked `SigInv` on the `hashsig` and `hashsig_retry` configurations before it was proved.

**`BoundsAlwaysExact`** (`RelocProofs.tla`) proves `Spec => []BoundsExact` for every set of files, header versions, sector range, batch bound and wrap.
- The assumptions are `RelocAssumption` and `~Reuse`. `~Reuse` means a freed table is used again only after `ndz_reloc_init`; every run makes the same assumption.
- The inductive invariant `IInv` is `TypeOK`, the exactness of each table (`ExactAt`), and `FreshBounds`.
- `FreshBounds` says an open, empty table has `reloclo = HIADDR` and `relochi = LOADDR`. `BoundsExact` alone is not inductive: it says nothing about the bounds of an empty table, yet the first chunk's `reloclo == NDZ_HIADDR` test and its `relochi` maximum depend on them.
- `ndz_reloc_free` leaves stale bounds. That is harmless only because the table is not reused before `ndz_reloc_init`.
- The lemmas cover three things:
  - `NewHi` is the maximum of the old bound and the batch;
  - concatenation unions the sector sets;
  - each action preserves `IInv`. For `Get`, the order assert is what keeps `reloclo` the least sector.

`RelocTypeCorrect` follows from the same invariant. TLC checked `IInv` as an invariant of both passing Reloc runs before it was proved.

**`EventSafety`** (`EventProofs.tla`) proves `Spec => [](TypeOK /\ NoNullTuple /\ NoLeak)` for every `MaxSends`, from `EventAssumption`.
- The invariants are not inductive as they stand: a tuple held without a registration satisfies both, and yet the next `EventReinit` would allocate a second tuple over it.
- The inductive invariant `IInv` therefore says:
  - the statics are `Good`: a tuple exactly when a registration, each handed out once;
  - a registration implies a server name;
  - before `EventInit` there is neither;
  - `crashed` is false, and `delivered <= sends <= MaxSends`.
- It rests on the lemmas `DeinitGood` and `ReinitGood`, which say what `EventDeinit` and `EventReinit` return from good statics.
- `SendStep` proves that a report keeps `IInv`.
- TLC checked `IInv` as an invariant before it was proved.
- `EventNoLeak` and `EventTypeCorrect` are the two conjuncts as theorems of their own, the invariants the `event` run names.

**`EventRefinesSession`** proves `Spec => ImplementsSession`, where `ImplementsSession` is `Session!ASpec`, the abstract client under the refinement mapping. Each step of `Event` maps to one step of `EventSession` or to a stutter (`StepRefines`), given `IInv`:
- `EventInit` maps to `AStart`, or to a stutter for a NULL server;
- `EventDeinit` maps to `AClose`;
- a report maps to `AReport` when it is delivered, to `ANoReport` when the registration is kept, and to `AClose` when it is lost.

**`DeltaAlwaysExact`** (`HashmapDeltaProofs.tla`) proves `Spec => []DeltaExact` for every partition, block size, `hash_free` setting and input, from the same assumptions as `TypeCorrect`. On success, the output is exactly the allocated sectors less those a compared, fixup-free, matching region shows unchanged, and the output ranges are non-empty and never adjacent.
- `DeltaExact` speaks only of `done`, so it is not inductive. The strengthening `DeltaInv` relates the output built so far to the part of the walk already done. `Processed` is the allocated sectors below `drange`'s start, or all of them once the ranges ran out. While the walk runs, `DeltaInv` says:
  - the output covers `Processed \ ShownUnchanged` and is ordered;
  - the fixups hashed away lie in the output, and none were added;
  - `drange` is a tail of `curranges[di]` and lies past every region already left;
  - what is processed lies before `H` in `drain` and `decide`, and before `H`'s end in `covered`;
  - in `covered`, `changed = 0` exactly when `H` is shown unchanged;
  - the walk is `done` only once the ranges ran out.
- The key step is `Decide`, with two lemmas:
  - `CompareIffCompared`: the code's test (`hash_free`, or `drange` starting at `H` and covering it) agrees with the spec's "one allocated range covers the region". Nothing before `H.start` is left unprocessed, so a range covering `H` is `drange`'s own.
  - `FixupIff`: the fixup list being walked and the list at the call agree on `H`, because every fixup consumed lies in the output, before `H`.
- The other lemmas are about the operators:
  - `AddToRangeFacts`: `add_to_range` grows the cover by the range and keeps it ordered, whether it coalesces or appends.
  - `AllocWithin`, `AllocNext`, `AllocFirst`: how `Processed` grows as `drange` narrows, splits or advances.
  - `NotShown`, `RegionShown`: which sectors the ordered hash regions show unchanged.
- `IsRangeList` is stated pairwise (each extent ends before every later one begins) rather than for neighbours only. This is the same set of lists, and it is the form these lemmas need.
- TLC checked `DeltaInv` on both Hashmap configurations (514,865 and 512,857 states) before it was proved.

**`OutputAlwaysAppends`** (`HashmapDeltaProofs.tla`) proves `Spec => OutputAppendOnly`, from the same invariant.
- The invariant is `AInv == IInv /\ IdleEmpty`, where `IdleEmpty` says the output is empty before the call.
- `AppendStepHolds` checks every action:
  - The actions that write the output are `Drain`, `Trail`, the head emission of `HeadSplit`, and `CoverStep` with `changed # 0`.
  - Each of them calls `add_to_range` on a piece that starts at `drange`'s start (`AppendEmit`).
  - By `DeltaInv`, the output so far lies in `Processed`, which is below that start.
  - By `AddToRangeFacts`, the cover grows by exactly the piece.
  - Every other action leaves the output alone or ends in `error`.

**What stays with TLC.**
- Liveness (`Termination`), because the prover does not handle fairness or ENABLED.
- `NewSignatureExact`. It needs `DeltaInv` extended to the new signature being built: the regions added so far must be related to the pieces of every processed range, and that means reasoning about how `Pieces` concatenates. This has not been done.
- The HashSig properties `SpanAssertHolds` and `ChunkAnnotated`, and `SigRoundTrip` after a retried write (where it fails). `ChunkAnnotated` relates the regions to every chunk window written so far; a proof would need `DeltaInv` carried through the chunk writer, which has not been done.
- The Reloc properties `PutMatchesInrange` and `WidthAgrees`. `PutMatchesInrange` compares a filter (`SelectSeq`) with a counting loop that stops early. Proving that equality needs induction over the sequence, which is beyond the installed provers.

## Findings

The violation runs record four disagreements between the code and its spec, comments or assertions (details in `PROJECT.json`). Three come from HashSig:
- `hashsig_hashfree`: with `hash_free`, the assert of `hashmap_update_chunk` (712) can fail although the chunk writer skipped nothing. The spec says only a skipped range makes it fail.
- `hashsig_wrap`: `uint32_t hrssect` (699) truncates 64-bit region starts.
- `hashsig_retry`: `hashmap_write_hashfile` never restores the starts it rebased (433), unlike what spec 4.5 says, so a retried write is wrong.

The fourth, `reloc_copy_width`, is described under Runs.

## Not modelled

- **The chunk writer itself**: it is not under `src/`, so it is modelled from spec 4.3 as the set of all cuts it can make.
- **File naming, the `/tmp` fallback name, the mtime copy and messages in `hashmap_write_hashfile`**: I/O with no effect on the regions written.
- **`hashmap_dump_stats`**: it formats counters.
- **The file parsing in `readhashinfo`**: its result is an input.
- **`nhinfo` across calls of `hashmap_compute_delta`**: imagezip calls it once per run, so one call is modelled. The static `nhinfo` is never reset (1246), so a second call would append to the first call's signature, against the idempotence spec 8 states. After an error it is left dangling (1283); the caller aborts then (spec 4.4).
- **`nhinfo` after a V2 write**: it then points to the 32-bit structure (528). Nothing reads it afterwards; the model stops writing once a file is written.
- **Report contents and the event library's internals** in `event.c`: the library is the environment, and each of its calls may fail.
- **`imagedump`**: a reporting CLI over chunk headers. It keeps no state beyond its counters and output (spec 1 puts reporting out of scope).
- **The 32-bit wrap in the covered loop** of `hashmap_compute_delta` and in `add_to_range` (1037, 805): listed as hazards. The Hashmap models use small sectors; the wrap of `hashmap_update_chunk` is modelled in HashSig.
