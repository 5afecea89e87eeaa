# Verification of the reclamation schemes of wfsmr

The repository holds a benchmark of concurrent data structures ("rideables")
over interchangeable schemes that decide when a block that was taken out of a
structure may be freed ("trackers"): Crystalline-L and -W, Hyaline, hazard
pointers, hazard eras, epochs and intervals. The trackers are the core of the
code, and what can go wrong in them is a matter of interleavings: a block that
is freed while a thread still reads it, freed twice, or never. This directory
holds TLA+ models of them, configurations that check the models with TLC, and
proofs that TLAPS checks.

## 1. Inventory

Paths are relative to `src/`; `T/` is `benchmark/src/trackers/`, `R/` is
`benchmark/src/rideables/`, `P/` is `benchmark/ext/parharness/`.

### Trackers

All trackers implement `BaseTracker<T>` (`T/BaseTracker.hpp`): `alloc`,
`start_op`, `end_op`, `read`, `reserve_slot`, `clear_all`, `retire`, `reclaim`.
`MemoryTracker` (`T/MemoryTracker.hpp`) creates the tracker named on the command
line and passes calls on. A rideable calls them from many threads at once; the
threads share only the atomics of the tracker and of the structure.

| component | state | operations | hard | correct when |
|---|---|---|---|---|
| Crystalline-L, `T/HRTracker.hpp` | global epoch; per thread and slot a list head and an epoch; per thread a batch of retired nodes; per batch a reference counter | `alloc`, `read`, `reserve_slot`, `clear_all`, `retire`/`try_retire` | retirers push on the slots of others while the owners detach, walk and republish them; counters pass below zero | a node is freed once, by the last holder, never under a protected reader; a stalled thread keeps only old batches; every batch is freed |
| hazard eras, `T/HETracker.hpp` | global epoch; per slot an epoch; per block birth and retirement; per thread a list | same, with `empty` | `empty` decides on old copies of the slots | a block read through a slot outlives it |
| RCU and QSBR, `T/RCUTracker.hpp` | global epoch; per thread an announced epoch; per thread a list | `start_op`, `end_op`, `alloc`, `retire`/`empty` | announcements made while `empty` scans; epochs loaded before they are announced | a block read in an operation outlives it |
| hazard pointers, `T/HazardTracker.hpp` | per slot a pointer; per thread a list | `read`, `reserve_slot`, `clear_all`, `retire`/`empty` | blocks reused between the two loads of a cell; copied slots | a validated pointer outlives its slot; lists are bounded |
| WFE, `T/WFETracker.hpp` | hazard eras, and per slot a request and a result of a slow read | the same, with `slow_path` and `help_read` | two threads finish one read; helpers arrive late | as hazard eras, and every read ends |
| Crystalline-W, `T/WFRTracker.hpp` | Crystalline-L, and the same requests, tagged pairs (`dcas.hpp`) and parents of helped reads | the same, with `slow_path`, `help_thread` | hand-off of references between helper and helped thread | as Crystalline-L, and every read ends |
| intervals, `T/IntervalTracker.hpp`, `T/RangeTracker*.hpp`, `T/biptr.hpp` | per thread one or two announced epochs; life of a block | `start_op`, `end_op`, `read`, `retire`/`empty` | the order in which the two epochs are written and read | as hazard eras, for operations |
| Hyaline and Hyaline-S, `T/Hyaline*Tracker*.hpp` over `hyaline/` | slots of head and counter, in Hyaline-S with an epoch and a count of unacknowledged nodes; batches; reference counters that wrap | `enter`, `leave`, `trim`, `deref`, `retire` | counters are adjusted after the fact, modulo 2^w; threads share slots | a batch is freed once, when all who entered before its retirement have left; in Hyaline-S a stalled thread keeps only old batches |
| platform layer of Hyaline, `hyaline/bits/{mips,ppc,gcc_x86,llvm_x86,c11,lf,config}.h` | a pair of counter and pointer | `__lfref_load`, `link`, `cmpxchgptr`, `cmpxchgref` (weak and strong), `fetch_add` | LL/SC of one word stands for a compare-and-swap of two; loads of a pair are torn | each operation is atomic on the pair, and tells whether it happened |

### Rideables

`SortedUnorderedMap` and `LinkList` (Michael's list with marked pointers),
`NatarajanTree` (external search tree with flagged and tagged edges), `SkipList`,
`BonsaiTree` (copy on write behind one root pointer), `CRTurnQueue` (a wait-free
queue in which threads help each other in turn) and `SGLUnorderedMap` (one lock).
Their state is a graph of nodes; they promise linearizable maps and queues, and
to the trackers that a node is retired by one thread, once, after it was
unlinked.

### Harness

`ParallelLaunch` starts the threads, with barriers and an alarm; `BlockPool`
keeps blocks in groups that threads exchange; `ConcurrentPrimitives.hpp` has the
counted pointer and padded atomics; `TestConfig`, `Recorder`, the tests and
`main` configure, run and report. Not protocols, but for the first two.

PROJECT.json lists each component with its status, and under `hazards` what is
hard to test, at its line.

## 2. Modules

| module | models |
|---|---|
| `Reclamation` | what every tracker promises to the rideables (abstract specification over the life of blocks and the references that threads hold) |
| `Client` | what the trackers see of a rideable: a cell per atomic pointer; allocate, link, unlink by compare-and-swap, discard |
| `HRTracker` (extends `Client`) | Crystalline-L |
| `RetireList` (extends `Client`) | the per-thread list of retired blocks, shared by the next four |
| `HETracker`, `RCUTracker`, `HazardTracker` (extend `RetireList`) | the three plain trackers that scan |
| `WFETracker` (extends `RetireList`) | WFE: hazard eras with the slow path, the helpers and the second look of `empty` |
| `Hyaline` (extends `Client`) | Hyaline and Hyaline-S, what the variants share: batches, counters, the walk, `trim`, `retire`, epochs (`lfsmr_common.h`, `lfbsmr_common.h`) |
| `Hyaline2`, `Hyaline1` (extend `Hyaline`) | `enter`, `leave`, the push of `retire` and `access` for heads of two words (`*_cas2.h`) and of one (`*_cas1.h`) |
| `LfSmr` (extends both) | the library under the trackers: next-state relation and properties |
| `AtomicRef` | what Hyaline takes for granted of the head of a slot (abstract specification of an atomic pair) |
| `LfRef` (extends `AtomicRef`) | the platform headers, one step per machine access |
| `MC*` | instances for TLC: symmetry of the blocks, a `VIEW` that hides what a dead header still holds, and, for WFE, what the clients do |
| `HRProofs`, `HEProofs`, `RCUProofs`, `HazardProofs`, `WFEProofs`, `LfSmrProofs`, `LfRefProofs` | the theorems, each module about the one it extends |
| `LfSmrBooks` (extends `LfSmrProofs`) | the theorems about the batches, counters and epochs of Hyaline, and its refinement of `Reclamation` |

**How state and actions correspond to the code.** Every module has one variable
per field of the class, per thread where the code indexes by `tid`, and one
variable per local that lives across a shared access; `pc[t]` is the place in the
call. An action is the code from one access to a shared atomic to the next, in the
order of the source; a call that the rideable makes is an action of its own that
starts where `pc[t] = "idle"`. Reads and writes of data that only one thread
touches (`batches[tid]`, `retired[tid]`, counters) belong to the step next to them.
The choices that differ from a literal reading:

* Accesses are sequentially consistent. The code asks for acquire and release in
  most places and for `seq_cst` where it publishes an epoch; weak memory is not
  modelled. `compare_exchange_weak` does not fail spuriously: it would only go
  round the same loop with the same value.
* `read` and `reserve_slot` keep `prev_epoch` in a local. It always equals the
  thread's own slot, which no other thread writes, so the model reads the slot.
* `traverse` is two steps for each node: the load of the successor, kept in `rd.succ`, and
  the `fetch_sub`. `batch_link`, loaded in between, does not change while the batch has a
  reference.
* In `do_update` the test for an empty list and the exchange are one step: only
  the owner makes the head null, so a head that is not null stays so.
* `try_retire` stores the slot of a node in the node (`slot` shares its word with
  `next`) and `retire` keeps `batch_next` in the word of `refs`. The model has a
  sequence of pairs for the first and the sequence `batch` for the second. That
  `refs` is 0 when a batch is freed, so that the chain of `batch_next` ends
  there, is `FreedOnce`.
* A retirement list is a set: its order decides nothing. So is `batches[t].list`.
* Counters that the code only takes modulo a frequency are kept modulo it.
  `EpochFreq` stands for `epochFreq * task_num`.
* `collect` is TRUE (it is false only in builds with `NGC`). `retire(nullptr)` and
  an `empty` of an empty list, which return at once, do not occur: `retire` calls
  `empty` with at least one block on the list.
* `HazardTracker::read` masks the mark bits of a pointer before it stores it;
  cells hold unmarked pointers here.
* A rideable that replaces a node with one compare-and-swap unlinks and links in
  one step; here these are two steps with the cell empty in between, which the
  trackers cannot tell apart, as they never read a cell on their own account.
* `free` makes a block reusable at once, at the same address: the allocator is
  the most hostile one.
* `held[t]` records what `read` returned to the rideable and `resv[t]` what
  passed the check after `reserve_slot`. They are ghosts: no step looks at
  them. A reference is given up when its slot is reused, at the call of
  `clear_all`, or at `end_op`.

For `WFETracker` also:

* A slot is a pair that the code changes with a 16-byte compare-and-swap on `full`
  or by halves: `reservations` is `pair[0]`, `tag` is `pair[1]`, and `SlotIs`
  compares both.
* The look of `help_read` at a request and the load of the same word at the start of
  `help_thread` are one step: the first only saves a call. The two loads of a result
  that is answered are one step: after the answer only its owner writes it.
* A slow read picks its parent among the nodes the thread itself holds by
  another slot (`held`). Nodes that came from an answer are kept apart
  in `helped`, as less is true of them (violation 3).
* `asked` is a ghost: the requests that were pending when a helper began its round.
* `empty` goes through the list in any order.
* `Attempts` stands for the 16 rounds of the fast path.

For `Hyaline` and its extensions also:

* `build` is a variable that never changes: the library (`lfsmr` or `lfbsmr`), heads
  of two words or of one, a compare-and-swap that writes both words or one
  (`__LFREF_CMPXCHG_FULL`), and the order. One run covers several builds.
* A head is a record of a counter and a pointer, loaded in one step although
  most platforms load it in two. No decision mixes the two words: the
  counter alone decides whether `retire` passes a slot by, the pointer alone which
  node `leave` looks at, and the compare-and-swap compares both again.
  `LfRef` has the torn loads; its refinement is what makes the single step right.
* The union of `refs` and `batch_next` (in the last node: the counter, in the others: the
  chain) is `refs` for last nodes and the sequences `batch` and `rt.todo`;
  that the counter node is never pushed, so that the two never mix, is
  `CounterNodeSpared`. `refs` is a number modulo `CounterMod`.
* Recursion of `traverse` (a walk in `trim` that leaves in the middle) is a stack of
  segments, `wk.segs`. The local list of batches to free is a set of last nodes.
* The unlinking compare-and-swap of the rideable and the call of `retire` are one
  step up to the first shared access of `__retire`.
* The counter of a slot is an integer that may go below zero for a while; the code
  casts it to a signed number where it looks at it.
* `check` is `LF_DONTCHECK` in every caller, so its error paths do not exist.

For `LfRef`: `resv[t]` is the reservation of a load-linked; a store to either word of
the pair ends it, as the pair is aligned to its size and both CPUs reserve at least
that much, and a store-conditional may fail for no reason. Operations
that a header leaves to C11 are one step. Weak memory is left out
here, too: the barriers around the loops are not modelled.

**Bounds.** `MaxEpoch` caps the epoch: an `alloc` that would advance it further
does not happen. That also bounds the number of allocations, as one in
`EpochFreq` advances the epoch. In `WFETracker` the allocations that help before they
advance count as advanced already, and `MaxTag` caps the slow reads of a slot; after
these its reads end on the fast path. `MaxAdvance` caps the epoch in the same way in
`Hyaline`. The larger runs also restrict what the clients do, as said with each.
Nothing else is cut off; deadlock is checked in every run (a thread can always
clear its slots, read or end its operation).

## 3. Runs

| run | instance | checks |
|---|---|---|
| `HR_ops` | 2 threads that update, one of them also reads and reserves; 2 slots each; 3 blocks, 2 epochs; batches tried at every retirement, cache of 1 | `TypeOK`, `SlotProtects`, `RefsExact`, `WalkSafe`, `FreedOnce`, `StallBounded` |
| `HR_reclaim` | one reader, one updater, 1 slot each, fair, no symmetry | `Reclaimed`, `Refines` |
| `HR_read_violation` | one reader, one updater | `HeldNeverFreed` is violated |
| `HE_ops` | a reader that also reserves, an updater; 2 slots each; 2 blocks, 3 epochs | `TypeOK`, `HeldNeverFreed`, `Refines` |
| `RCU_ops` | 2 threads that read and update; 3 blocks; 3 advances of the epoch; both types | `TypeOK`, `AnnouncedNeverFreed`, `Refines` |
| `HP_ops` | a thread that reads, reserves and updates, another that updates; 2 slots each; 4 blocks | `TypeOK`, `HeldNeverFreed`, `GarbageBounded`, `Refines` |
| `WFE_ops` | a reader that also unlinks or reserves, an updater, in two ways of using the two slots; 2 blocks, 4 epochs, 2 slow reads per slot; 1 round of the fast path | `TypeOK`, `OwnReadsSafe`, `ParentSafe`, `HelpBeforeAdvance`, `LateHelpHarmless`, `Refines` |
| `WFE_helped_violation` | 3 threads: a reader, a helper, an updater; 1 slot | `HeldNeverFreed` is violated |
| `Hyaline_ops` | 2 threads; 4 blocks; 6 builds: one slot (Hyaline with whole and half compare-and-swap, Hyaline-S), two slots (both with heads of one word, Hyaline-S); the epoch wraps | `HyalineTypeOK`, `WalkSafe`, `RefsExact`, `QueuedUntouched`, `NothingLost`, `EraCovers`, `StallBounded`, `Refines` |
| `Hyaline_slots` | 3 threads, 6 blocks; two slots (Hyaline, Hyaline-S) and four slots (Hyaline-S; also Hyaline with heads of one word, with 8 blocks); one thread updates, one enters, trims and leaves, one stalls | `WalkSafe`, `RefsExact`, `NothingLost`, `CounterNodeSpared`, `AckExact` |
| `LfRef_ops` | 2 threads, any operation with any arguments; counters modulo 2, 2 pointers; 8 builds, all with the byte order declared | `LfRefTypeOK`, `Coherent`, `Refines` |
| `LfRef_link_violation` | 1 thread; GCC for x86 as it is | `LinkReadsPointer` is violated |

*Crystalline-L.* `SlotProtects`: what `read` returned under an active slot is not
freed. `RefsExact` relates the counter of a batch to the nodes of it that are in
slots or in detached lists, less what the retirer still has to add.
`WalkSafe`: no list leads to a freed node, also between the load of a successor and the
`fetch_sub` of `traverse`, whose order matters: after it the next holder may free the node. `FreedOnce`: a batch is queued to be
freed by exactly one thread when its counter is zero, and by none before. `StallBounded`:
a stalled slot only holds batches with a node born at or before the slot's
epoch, the promise of robustness. `Reclaimed`: every block of a batch that was
handed over is freed at last.

Three blocks are the least that let a batch hold two nodes and leave one for the
cell, or let a batch of one be freed and its block be used again while another
is read. Two slots put two nodes of a batch in the lists of one thread. Two
epochs (and 0, for a slot never used) put the epoch of a slot before or in the life
of a block. A third thread would only add slots and lists of a kind that is there already. In `HR_ops` the
first thread either uses its second slot or makes nodes of its own (`Bounds` of
`MCHRTracker`): with one slot both threads meet in every role, and the second slot
matters only to the reader.

*WFE.* `OwnReadsSafe`: what a thread validated itself, on either path, outlives its
slot, whatever helpers do to the slot meanwhile. `ParentSafe`: a helper reads
fields only of nodes that are not freed, though the reader may have moved on.
`HelpBeforeAdvance`: no thread advances the epoch before every request that was
pending when it began to help is answered or withdrawn; so a slow read, which
repeats only when the epoch moves, repeats at most once for every thread that
was already past its round of help. `LateHelpHarmless`: a slot changes by
another thread's hand only while its owner is in the slow path with that slot.
`Refines` takes the references of own reads as guards.

`MCWFETracker` restricts what the clients do, by a variable `client` that never changes.
In *path* the reader reads roots through slot 1 and fields of the node in slot 1
through slot 2, or reserves slot 2 with that node, once on the slow path each, and unlinks
and retires, while the other
thread allocates and links: the parent slot and the reader's own retirement of
the parent are in play. In *poll* the reader reads and reserves one slot
again and again, so that tags are used twice and a late helper meets the next request.
In *race* (the violation) one thread updates, one only helps and one reads. Two
threads suffice for a late helper, as the owner may end the read alone; two
helpers of one request need three, and occur only in `WFE_helped_violation`.

*Fairness* (`HR_reclaim`). `WF_vars(Step(t))`: the scheduler runs every thread,
and no call blocks. `SF_vars(Clear(t))`: every operation of the rideables reads finitely often
and ends with `clear_all` (`R/SortedUnorderedMap.hpp:125`, 166, 197, 228). Nothing is
assumed of `alloc` or `retire`: batches that were not handed over may stay for
ever, as in the code.

*Hyaline.* `RefsExact`: the counter of a batch is, modulo 2^w, the number of references
that threads have still to drop, less the adjustments that are on their way and the
addends of the slots where the batch is at the head or may still be pushed.
`WalkSafe`: whatever `leave`, `trim`, `traverse` and `retire` will still read is not freed,
the rest of a batch that `retire` is pushing included (`lfsmr_cas2.h:160` reads a
node after others could have dropped it). `QueuedUntouched`: a batch on its way to
`free` is with one thread, and no other will touch its nodes. `NothingLost`: no
retired batch is forgotten; some thread will come past it. With half a
compare-and-swap the list of an empty slot is taken in a second step, by one
of the threads that found it empty; a thread that enters in between keeps it.
`EraCovers`, `StallBounded`: in Hyaline-S the epoch of a slot covers what its
threads have read, and a stalled thread holds back only batches with a node born
before the last `deref` in its slot. `AckExact`: the count of a slot, by which
`enter` avoids stalled threads, is what its threads have still to acknowledge, but
for what a `retire` has pushed and not counted yet. `CounterNodeSpared`: see section 2;
where there are more slots than threads the batch has just one node per
slot, and the property needs that a thread moves to another slot only when nodes of its
own are still to be acknowledged, which is what `AckExact` gives. `Refines`: Hyaline is a
reclamation scheme, the guards being all that a thread has read since it entered.

In the builds with one slot the lists of both threads are one, and a batch of two
nodes is the least. The client bounds (`OpsBounds`): two threads make batches in
the build with half compare-and-swap only; with epochs no node is discarded. Counters
are modulo 16 in `Hyaline_ops` and modulo 64 in `Hyaline_slots`, so that the addends of one, two
and four slots wrap and an addend still exceeds what the threads can owe
(`CountersAssumption`); epochs modulo 8, beginning at 7. In `Hyaline_slots` (`SlotsBounds`) the stalled thread shares the slot of the one that
comes and goes, which finds the slot stalled (`StallLimit` 1) and moves on. Heads of one word
need 8 blocks for two batches of four in one list, so that a `trim` leaves in the
middle of its walk. With them, and in Hyaline-S, an operation reads one node. The epoch
stands still there.

*Platform layer.* Two threads suffice for a pair changed between any two accesses of a
call, and counters modulo 2 for one that comes back. `Coherent`: from a load-linked to a
store-conditional that can succeed the words read are those of the pair. `Refines`: each
call takes effect at one instant or not at all, says which, and returns words that
were in the pair during the call. The builds of this run define `__LITTLE_ENDIAN__` where
the pointer has the lower address (`Declared`), as Clang does. GCC for x86 does
not: that build is in `LfRef_link_violation`.

*Garbage* (`HP_ops`). A list never exceeds one block per slot in use and those
retired since the last `empty`, however long a reader stalls.

### What the violations show

1. `HR_read_violation`. `clear_all` (`T/HRTracker.hpp:215`) makes a slot inactive
   but leaves its epoch. The next `read` at the same global epoch finds the epoch
   unchanged (194-196) and returns without activating the slot; `try_retire`
   skips the slot (238) and the node is freed under the reader. `WFRTracker`
   does the same (521-533). All that Crystalline-L does promise is therefore
   stated for references under active slots (`SlotProtects`, `Refines`).
2. `WFE_helped_violation`. `empty` copies the slots (`T/WFETracker.hpp:356-363`) before
   it loads `counter_end` (367). A slow read that is pending while its slot is copied,
   and answered and ended before that load, is missed twice: the copy is from before the
   answer, and the counters agree, so the slots are not looked at again
   (369-375). A block that was born after the copied epoch is freed while the
   reader holds it. With `counter_end` loaded before the copies a variant of this
   module passes the same instance.
3. `LfRef_link_violation`. GCC, which `hyaline/README.md:24` names as supported, takes
   `gcc_x86.h` (`lf.h:57-59`) and does not predefine `__LITTLE_ENDIAN__`. `lf.h:80-84` then makes
   `__LFREF_LINK` 1, `__lfref_link` (`gcc_x86.h:155`) returns the counter, and `trim`
   (`lfbsmr_common.h:175`) takes it for a list. `benchmark/src/Makefile` builds with Clang,
   which defines the macro. `__lfref_link` is the only operation that goes wrong
   (`LfRefProofs!ImplementsButLink`).

With `type_QSBR` a thread announces nothing before its first `end_op`, and
`start_op` does nothing (`T/RCUTracker.hpp:87-93`): the first operation of each thread is not
protected. No run asks for it; `AnnouncedNeverFreed` leaves that operation out.

What no tracker with epochs promises, and no run asks: `reserve_slot` of eras ignores
the pointer (`T/HETracker.hpp:122-133`, `T/HRTracker.hpp:203-213`). A caller that loads a
cell, reserves, and finds the pointer still in the cell (`R/CRTurnQueue.hpp:126-140`)
may hold a block that was freed and allocated again, with a later birth than the
epoch it published. `ReservedNeverFreed` of `HETracker` states the expectation that the
comment there has. With hazard pointers the same use is safe: `HazardTracker`
counts such references in `held`.

## 4. Proofs

For every number of threads, slots, blocks, cells and epochs, from the
assumptions that the modules state on their constants (positive sizes,
`NULL` is no block and `HR_INVPTR` no pointer; for Crystalline-L and Hyaline also that the
allocator has finitely many blocks, as their counters count nodes; for Hyaline that
the widths of a counter and of an epoch are enough: `CountersAssumption` and
`EpochsAssumption`, below):

| theorem | says |
|---|---|
| `HRProofs!TypeCorrect`, `SlotsProtect`, `RefsAreExact`, `WalksAreSafe`, `EachBatchFreedOnce`, `StallIsBounded`, `Implementation` | types; `SlotProtects`; `RefsExact`; `WalkSafe`; `FreedOnce`; `StallBounded`; `Spec => Refines` |
| `HEProofs!TypeCorrect`, `ReadSafe`, `NothingLost`, `Implementation` | types; `HeldNeverFreed`; a retired block is on exactly one list until it is freed (`RetiredOnce`); `Spec => Refines` |
| `RCUProofs!TypeCorrect`, `ReadSafe`, `NothingLost`, `Implementation` | types; `AnnouncedNeverFreed`; `RetiredOnce`; `Spec => Refines` |
| `HazardProofs!TypeCorrect`, `ReadSafe`, `Bounded`, `Implementation` | types; `HeldNeverFreed`; `GarbageBounded`; `Spec => Refines` |
| `WFEProofs!TypeCorrect`, `ReadsEnd`, `HelpersLate`, `OwnReads`, `Parents`, `NothingLost`, `Implementation` | types; `HelpBeforeAdvance`; `LateHelpHarmless`; `OwnReadsSafe`; `ParentSafe`; `RetiredOnce`; `Spec => Refines` |
| `LfSmrProofs!TypeCorrect`, `HeadsAreExact` | `HyalineTypeOK`; the counter in a head is the number of threads inside the slot (`HeadsCount`) |
| `LfSmrBooks!CounterSpared`, `AcksAreExact`, `WalksAreSafe`, `CountersAreExact`, `FreedOnce`, `NoneLost`, `SlotsCover`, `StallsAreBounded`, `Implementation` | `CounterNodeSpared`; `AckExact`; `WalkSafe`; `RefsExact`; `QueuedUntouched`; `NothingLost`; `EraCovers`; `StallBounded`; `Spec => Refines` |
| `LfRefProofs!TypeInvariance`, `CoherentInvariance`, `ImplementsButLink`, `Implements` | types; `Coherent`; in every build each step is one of `AtomicRef` or the load of `__lfref_link` with the byte order not declared (`StepOrLink`); `LfRefSpec /\ Declared => Refines` |

The argument is the same for the three trackers that scan. `HeldNeverFreed` is not
inductive: `empty` frees by a copy of the slots it made earlier. The strengthening
says of every held block that it is *protected*:

* hazard eras (`HEProofs!Protects`): the slot holds an epoch not before the birth
  of the block; if the block is retired, not after its retirement; and every thread that has the
  block on its list and has already copied the slot has that epoch in its copy.
  It needs `Clock` (no stamp and no slot is ahead of the global epoch), and `Checking`:
  while `read` is between its load of the cell and its load of the epoch, the block
  it loaded is protected if the epoch has not moved.
* RCU (`RCUProofs!Protects`): the announcement is not after the retirement of the
  block, and a thread that has the block on its list and has passed this one in its
  scan has a minimum not above the announcement.
* hazard pointers (`HazardProofs!Protects`): the slot holds the block, and so does
  the copy of every thread that has the block on its list and has copied the slot.

`GarbageBounded` rests on no protection (`HazardProofs!GarbageInv`): threads that
neither read nor reserve keep their slots empty, so the copies name at most one block
per slot in use, and a sweep keeps only blocks that a copy names. Between two
calls of `empty` a list therefore holds at most those and the blocks retired since.

For `HeldNeverFreed` the key step is the same each time (`ProtectsKept`): a block goes on a list only
after it left its cell and only when its new owner has copied nothing; so
copies made before it went on the list do not matter. `Placed` and `RetiredOnce`
(`ListInv`, with the same lemmas in each of the modules) say that a block is in one place
only. The refinement maps a retired or free block to itself, any other to "live",
and the held references to the guards; with the invariant every step is a
step of `Reclamation` or a stutter.

For Crystalline-L the argument has three layers (`HRProofs`), each inductive
relative to those before it:

* `TypeInv`: the types with the control state, `ReadControl` (which locals of `read`
  and `clear_all` are set where, and that a thread that walks has a list to walk)
  and `RetireControl` (a thread in `try_retire` has a batch, its position is a slot,
  it has assigned fewer nodes than the batch has).
* `Accounts`: what is in flight and whose it is. The nodes of the lists are the least set
  closed under `next` that has the heads (`Reach`): a definition without recursion,
  about which lemmas by set reasoning suffice (`ReachClosed`, `ReachLeast`) where
  sequences would need induction. `OnePointer` says that every node in flight hangs
  on exactly one pointer (a head, a detached head, or a successor), so detaching a
  list moves it whole, and the `fetch_sub` of `traverse` removes one node. `BatchesApart`,
  `Assigned` and `WorkControl` say that a batch belongs to one thread and that the
  nodes `try_retire` has yet to push are in no list. So nobody relinks a node that is
  walked, and the successor that `traverse` has loaded stays right (`Loaded`). On this rest `Counted` (the counter is
  the number of nodes in flight less the pending adjustment; while the retirer is
  at work it is not positive, so no walker can mistake it for the last reference;
  afterwards zero means queued) and `Queued` (a queued batch is with one thread and has
  nothing in flight). `RefsExact`, `WalkSafe` and `FreedOnce` follow.
* `Shield`: why a protected node is not freed. A slot guards a node (`Guarded`) when
  the node is no younger than the slot and, once retired, its batch is *hooked* to the
  slot (`Hooked`): a node of the batch hangs in the slot, or the retirer has yet to
  look at the slot, or has assigned a node to it that is yet to be pushed. Every
  shortcut of `try_retire` gives a hook up only where nothing is guarded: a slot found
  inactive protects nothing, a slot older than `min_epoch` protects no node of the
  batch (`MinEpochs`), and at the end a batch without nodes in flight is hooked to no slot.
  `HeldGuarded` says it of what `read` returned and of what it is about to return (the
  pointer loaded, as long as the epoch has not moved: `Clock`). `SlotProtects` and,
  with `OldEnough` for what hangs in a slot, `StallBounded` follow, and the
  refinement: the guards are the references under active slots, so
  `do_update` and `clear_all` release nothing that they have not released before.

`Accounts` and `Shield` were model-checked on the instance of `HR_ops` before they
were proved.

For wait-free eras (`WFEProofs!Inv`) the types need to know who may move a tag or
count: the tag of a slot is that of its owner's slow path, or one more once the
owner has closed its request (`Tagged`); a request that is open is that of a
thread waiting for its answer (`Requested`); the counters of started and ended slow
paths differ by the threads in between, and the allocations that will advance the
epoch fit under its bound (`Counted`). Two facts never go back: a
request that was made stays made, and one that is not open any more is not
opened again, as its tag is used up. With them a helper works on a request that was
made, and past its loop on one that is closed (`Served`); so its last
compare-and-swap, which compares the tag, fails on a slot whose owner left
(`LateHelpHarmless`). A helper that has passed a slot leaves no request open there
of those it found as it began (`Attended`), also when it saw equal counters and
looked at no slot; at the advance it has passed them all (`HelpBeforeAdvance`).

Why nothing is freed that such a read returned is a second layer
(`WFEProofs!Shield`, inductive relative to `Inv`; it was model-checked on the instance
of `WFE_ops` before). A slot guards a block (`Guarded`) when its epoch lies in the life
of the block, and every thread that has the block on its list and has copied the slot is
`Sheltered`: *some* copy it has made keeps the block. For hazard eras the copy of the
same slot does; here it may be another's, and that is what helping needs:

* a slot may be written by its owner and by helpers. Nothing is held through a slot
  that its owner's call writes (`CallHolds`), nor through one that a helper may still
  move (`LateHelp`: a helper past its answer, with the request the last of the slot,
  finds the owner in `slow_path`, and the owner can no longer take its request back).
  Until a request is answered no helper touches the slot (`CallOwns`), so the pointer that
  the owner loaded is guarded while the epoch stands (`LoadGuarded`).
* the parent slot gets the birth of the node from the request, and the node's name from
  it too (`CallNames`, `HelpCopies`): if the tag has not changed, both are of one
  request whose owner holds the node in another slot. `empty` copies the slots for reads
  before the parent slots (`ParentLater`), so whoever has copied the parent slot without
  the birth in it copied the owner's slot before, and is sheltered by it
  (`ParentTakesOver`): the guard moves from the owner's slot to the helper's
  (`ParentGuarded`), and stays when the owner clears its own.

What a helper's *answer* gives its reader is not safe, as the run
`WFE_helped_violation` shows, and no theorem says so.

For Hyaline (`LfSmrProofs!Sound`, model-checked as an invariant of both Hyaline runs
before) the types alone are not inductive: that `trav` has a list to walk
(`Control`), that a thread in a call of `leave` or `trim` works on its own slot
(`Homely`), that a head with a thread inside never counts below one (`HeadsCount`) and is not
taken away while a thread still has a handle in it (`Anchored`) are needed with them.
`Enough` adds the length of what `retire` has yet to push: the batch has as many
nodes as there are slots to come. `retire` passes by slots that no thread
is in, and without stall avoidance thread t stays in slot (t-1) mod 2^order, so
at most `TaskNum` slots are ever pushed to and the node with the counter is left. Hyaline-S
with more slots than threads needs more (`Lonely`, below). `HyalineAssumption` says that a
power of two is a positive number (the prover does not compute powers) and that the
stall threshold is positive (`__LFBSMR_STALL_THRESHOLD`, `bits/lfbsmr_cas2.h:32`).

Why a batch of Hyaline is freed once, and not before, is a second invariant
(`LfSmrProofs!Books`, inductive relative to `Sound`; `LfSmrBooks` takes the steps one by
one). `RefsExact` speaks of what is in lists that are walked from both ends of their life, so
its parts are about lists, places, batches and numbers:

* lists (`Walked`). What a thread has still to walk is a set, `Trail`: the nodes on
  the way along the successors to an end. It is *straight* when the successors do not
  come back; then dropping the first node, pushing one before it and cutting it
  are set operations (`TrailPop`, `TrailPush`, `TrailSplit`), proved by well-founded
  induction over the stages of the trail instead of over sequences. The segments of a
  walk are laid apart from each other and from the list of the slot (`Laid`).
* places (`Places`). A node is at one head at most; with heads of two words a node at
  a head is owed by nobody yet, nor is its adjustment due, and between the push that buries
  it and that adjustment at most as many threads owe it as the adjustment says
  (`LateBy`); with heads of one word a node is owed by one thread only.
* batches (`Struct`). Which node is the last of which batch, that a batch which
  grows is in nobody's way (`Grows`), that a taken one has left all places and is with
  one thread (`Queued`), and that no retired node is without a batch (`Known`).
  `AllPushes` says it of what `retire` has still to push.
* numbers. `Counted` is `RefsExact` for every batch in play, not only for those
  somebody looks at. `AllAmounts`: the adjustments are multiples of the addend, as
  many as slots were passed by. `AllHolds`: from the moment `retire` has passed the thread's own
  slot its batch has a reference that the thread itself owes, or a missing addend,
  so nobody finds it at zero while it is pushed. `Room`: the debts of a batch never exceed
  threads times nodes, which is below the addend.

The arithmetic comes in where a counter is compared with zero. Modulo 2^w the counter
says nothing by itself; with `Room` the number of debts and the number of missing
addends can both be read from it (`ZeroWide`, `ZeroNarrow`), so that it is zero exactly
when nothing is owed and nothing is missing (`Zeros`, `Nulls`): the thread whose step makes it
zero takes the batch, and it is the only one. `CountersAssumption` is what this needs of the
width: the addend is greater than threads times slots, with 2^(w-order) for the addend.
(`size_t` on every platform of the headers.) With heads of one word there are no addends, and
the final adjustment alone keeps the counter from zero.

Why a block that a thread holds is not in such a batch is the third invariant of Hyaline
(`LfSmrBooks!Shield`, inductive relative to `Books`; its parts were model-checked on the
instance of `Hyaline_ops` before):

* `HeldGuarded`. A thread holds references only where it is inside (`Holding`), and every
  block that it holds, or that `deref` is about to return (`Loaded`), is `Guarded`: it is linked, or
  still collected by its retirer, or in a batch that is `Hooked` to the thread, either by a node in
  the thread's list or by a retirer that has the thread's slot still before it (`Ahead`).
  In Hyaline-S it is also born no later than the epoch of the slot says. A hook is given up
  where `retire` passes a slot by: with nobody inside there is nobody to guard, and a slot
  older than `min_epoch` covers no node of the batch. Entering is where the references begin, so
  the list since the handle is enough.
* `Clock`. No birth, slot or batch is ahead of the global epoch, and what `deref` has read of
  its slot is not ahead of the slot. So when `deref` finds the global epoch in the slot, the
  pointer that it loaded before is of a block that the slot covers.
* `Youngest` and `Stalls`, for Hyaline-S: `min_epoch` is the least epoch of the nodes of
  the batch that grows or is pushed, and whatever hangs in a slot was pushed there for a node of
  its batch which the slot covers.

Epochs are compared by the sign of their difference. `EpochsAssumption` says that a run does
not advance the epoch by half of its range or more, so that the sign is the order in
which the epochs came (`AgeGeq`); the code relies on it too (`lfepoch_t` has 64 bits, on a few platforms 32).
`EraCovers` and `StallBounded` follow, and the refinement with the held references for
the guards: a block that is guarded is linked or retired (`ClaimedAlive`), also after `free`
has given its batches back, so no held block was among them.

What the slots of Hyaline-S count is the fourth (`LfSmrBooks!Acked`). `Behind` is what
a thread has still to acknowledge: the nodes of its slot since its handle, and the
iterations, done and to do, of the one or two segments of its walk. `leave` and `trim` move it from
the list to the walk, `traverse` from the part to do to the part done, `__lfbsmr_ack` takes
off what is done, and a push adds one for every thread inside, as many as the head
counts (`HeadsCount`), which `retire` adds to the counter a step later (`Uncounted`).
The sums over the threads are cardinalities of sets of pairs (`Sum`), so that no
induction over a fold is needed (`SumChange`, `SumGrow`).

With more slots than threads a batch of Hyaline-S has one node per slot and no other. `Lonely`
says that no thread moves then: thread t is the only one in slot t-1, so when it enters
it has nothing to acknowledge there, the counter is not above zero (`NothingToAck`; it can
be below, when a node was acknowledged before it is counted), and the threshold is. So nobody
is in the slots from `TaskNum` on, `retire` passes them by, and the node with the
counter is left (`SparedHolds`). `Books` needs that for its pushes, `Acked` needs `Books`, and
`Lonely` needs `Acked`: the three are inductive together (`Balanced`).

For the platform layer `Coherent` is inductive with the control state: which words a
call has read at which step, that a call before its store-conditional has not taken
effect, and that a store ends all reservations. The refinement needs no mapping, as `LfRef`
has the variables of `AtomicRef`: every step is one of its steps or a stutter, but for that of
`__lfref_link` in a build where `Declared` does not hold (`StepSim`). `LfRefAssumption` admits
these builds; it only says that the macro is not defined where the pointer has the higher
address, and that it is defined on a little-endian PowerPC. As for the other steps,
the outcome of a failed strong compare-and-swap being settled at the load that
found another word.

Only model-checked: liveness (`Reclaimed` and the others under fairness: out of reach
of the prover).

## 5. Not modelled yet, and the plan

In this order, the most important first:

1. `WFRTracker`: the slow path of `WFETracker` and the hand-off of references, on the
   state of `HRTracker`, with the same promise to refine.
2. `RangeTrackerNew` and `IntervalTracker` on `RetireList`, with the order
   of the two reservations, and objects born after `start_op`.
3. `SortedUnorderedMap` with the slots it uses and `MemoryTracker::transfer`: a set
   as the abstract specification; every dereference under a slot that protects
   (`findNode` reuses slots, `R/SortedUnorderedMap.hpp:286`). Then `SkipList`.
4. `CRTurnQueue`: a queue as the abstract specification, turns as liveness.
5. `NatarajanTree`, `BonsaiTree`; `BlockPool`, `ParallelLaunch`.
6. Proofs: the invariants of 1 to 3.

Left out of Hyaline: the initialisation of slots and pairs, the macros
`__lfepoch_*` and `__lfaba_*` of the platform headers (one load, store or increment
each, which `Hyaline` has as steps), the arithmetic that turns words into addresses,
`retire_one` and `batch_empty` (no caller outside `#if 0`), and the batches of 64
nodes of the `TR` trackers (they only have more nodes to spare than
`SMR_NUM + 1`). Barriers and weak memory are left out everywhere.

Left out for good: `TestConfig`, `Recorder`, the tests and `main` (sequential, no
protocol), `optional.hpp` (vendored), measurements and scripts.
