# DeepDiff in TLA+

This directory is a verification development of DeepDiff (`deepdiff/`): TLA+
modules translated from its code, TLC configurations that check them on small
instances, and theorems that the TLAPS proof system checks for every value of
the constants. Line numbers refer to the commit in this tree.

## 1. Inventory of the system

DeepDiff compares two Python objects and reports a tree of differences, from
which a *delta* can be made that turns one object into the other. One root
`DeepDiff` is a single-threaded recursive traversal, but around it there are
worker processes, a timer thread, caches shared by nested `DeepDiff`s, and
files.

| Component | State it keeps | Operations | Talks to |
|---|---|---|---|
| Parallel sections (`_multiprocessing.py`, callers in `diff.py`) | jobs, futures, `results_by_index`, worker statistics | `compute_distances_parallel`, `compute_subtree_diffs_parallel`, `compute_hashes_parallel`, fallback, `_merge_worker_stats` | `ProcessPoolExecutor`; a fresh root `DeepDiff`/`DeepHash` per job |
| Pair selection (`diff.py:1453-1567`) | `most_in_common_pairs`, `used_to_hashes`, `pairs` | one greedy selection per unordered comparison | distances from the cache, the workers or nested `DeepDiff`s |
| Report of unordered iterables (`diff.py:1569-1913`) | `pairs`, `hashes_removed`, `pending_subtree_jobs`, the tree | two loops, `get_other_pair`, `_diff` inline or deferred, `_dispatch_subtree_jobs` | pair selection, workers, `_report_result` |
| Hash tables and `DeepHash` (`diff.py:1212-1332`, `deephash.py`) | `hashes`, shared by every `DeepHash` of the run; a table per iterable | `_hash`, `_add_hash`, worker hashing | path filters, workers |
| Statistics and caches (`diff.py:346-374, 1348-1375, 2048-2082`, `lfucache.py`) | counters, `_distance_cache`, `_ENABLE_CACHE_EVERY_X_DIFF` | `_count_diff`, `_auto_tune_cache`, `_auto_off_cache`, `get`/`set` | every nested `DeepDiff` of the run |
| Progress timer (`helper.py:605-641`) | `is_running`, `_timer` | `start`, `_run`, `stop` | started and stopped by the root `DeepDiff`; reads its counters |
| `deep patch` (`commands.py:126-170`, `serialization.py:584-641`) | the file and its `.bak` | load, apply, save with backup, restore | file system, `Delta` |
| Delta (`delta.py`) | the object being rebuilt, post-process paths, its dictionary and the reverse of it | `__add__` and its `_do_*` steps, verification, subtraction, flat rows | reports of `DeepDiff` |
| In-order diff (`diff.py:866-1143`) | opcodes | matching pairs, difflib opcodes | `Delta` applies the opcodes |
| Dispatcher, dictionaries, objects, filters (`diff.py:483-843, 2102-2212`) | the level, the ids of the parents, the counters | `_diff`, `_diff_dict`, `_diff_obj`, `_skip_this`, `_skip_this_key`, `_report_result` | all of the above |
| Diff tree (`model.py`) | the doubly linked levels, path caches, report sets | `branch_deeper`, `copy`, `path`, `mutual_add_removes_to_become_value_changes`, the views | reports, rebasing of workers' leaves |
| Paths and globs (`path.py`) | none | parse, stringify, follow; match `*` and `**` | filters, Delta, extract |
| Distance, search, summarize, views' text, operators | none or local | pure computations and formatting | - |

What is hard here: workers finish in any order and fail in several ways; a pool
can break; `max_diffs` leaves a function in the middle of its loops; caches are
filled under one filter, counter or question and read under another; the
timer's threads share attributes with `stop` without a lock; a file is renamed
away before its replacement exists; a `Delta` keeps attributes from one use to
the next; objects may refer to themselves; two dozen filters form one chain of
conditions; levels are relinked after their paths were cached. `PROJECT.json`
lists each hazard at its line with the properties that cover it.

What makes each component correct:

- a parallel section answers what the serial loop would, or raises; it counts
  its workers' statistics once; it never leaves workers behind;
- the pairs are symmetrical and one to one, within the cutoff, closest first;
- the report is the one an inline, unlimited run makes, or a part of it that is
  flagged; every pair is consumed once;
- an item is found under its own hash, and equal items under one hash;
- the cache is tuned on whole windows; the distance cache keeps its capacity;
- after `stop` no timer thread lives on;
- `deep patch` never loses the data;
- `t1 + delta` is `t2` and, for a bidirectional delta, `t2 - delta` is `t1`,
  whatever the delta was used for before, and however it was stored;
- the walk ends on any two graphs of objects, reports what the filters select
  and nothing else, and is silent only about equal objects;
- a level answers the path of the place it is at, whatever was asked of it
  before, and that path, written and read back, leads to the item.

## 2. Modules

| Module | Models | Role |
|---|---|---|
| `BatchContract` | the Determinism Contract of `docs/multi_processing.md`, and the docstrings of the `compute_*_parallel` functions | abstract specification of a parallel section |
| `ParallelBatch` | one parallel section: parent, pool, workers | implements `BatchContract` (`MeetsContract`) |
| `Pairing` | what the dictionary of pairs promises its consumer | abstract: used by the three modules that need or make pairs |
| `PairSelection` | the greedy selection | shown to produce a `Pairing` |
| `IgnoreOrderDiff` | the report of two unordered iterables | starts from any `Pairing` |
| `HashTables` | `_create_hashtable`, the shared `hashes`, worker hashing | |
| `CacheTuning`, `RepeatedTimer` | the counters and the cache; the timer | components |
| `RootRun` | a root `DeepDiff` with its timer and its counters | composes the two |
| `PatchFile` | `deep patch` through failing and killed runs | |
| `InOrderDiff` | what a diff of two ordered lists puts into a delta | operators, used by the next two |
| `UnorderedDelta` | the dictionary of a delta made with `ignore_order`, and how a list is rebuilt from it | operators; extends `InOrderDiff` and `Pairing` |
| `DeltaContract` | what a `Delta` promises its user | abstract specification of a delta |
| `ListDelta` | a `Delta` and the objects it is added to and subtracted from | implements `DeltaContract` (`MeetsContract`); starts from what `InOrderDiff` and `UnorderedDelta` make of any pair of lists |
| `GlobPath` | the matcher of `*` and `**`, and what the documentation says a pattern denotes | operators, used by the next |
| `Traversal` | `_diff` and the functions it calls, over graphs of objects, with the filters | |
| `PathText` | the texts of paths: writing, reading, following | operators, used by the next |
| `DiffTree` | levels, their relationships and path caches; workers' leaves; merging; the views' questions | |
| `MC...` | values of the constants for TLC | |
| `...Proofs` | theorems | |

How they fit together: `IgnoreOrderDiff` is the function that `HashTables`
feeds and that calls the selection; it takes its hash tables as inputs and
takes its pairs from `Pairings(...)`, that is any pairing, so that what holds of
it holds whatever the selection does. `PairSelection` is shown to deliver a
pairing (`SelectsAPairing`). `UnorderedDelta`, too, takes any pairing. Each of
the three places where workers may be used (distances, hashes, paired items) is
an instance of `ParallelBatch`; `HashTables`, `IgnoreOrderDiff` and `DiffTree`
use of it only what `BatchContract` promises: the section answers with what the
jobs evaluate to, or the work is done serially, or the run raises. `Traversal`
has the whole control of `_diff` with lists compared position by position; what
else may happen to lists is the matter of `InOrderDiff` and `IgnoreOrderDiff`.
`DiffTree` takes the matching of items as an input and looks at what becomes of
the levels.

### Correspondence with the code

**ParallelBatch.** A job is its index in the serial loop. `Begin*` are the
checks made before the pool exists (`mp_config`, threshold, the first job
pickles); `Submit` is one `executor.submit`; `CollectResult`/`CollectFailure`
are one `future.result()` of the `as_completed` loop; leaving the `with` block
waits for the pool (`"draining"`), then `HandleFailure` is the `except` clause;
`SerialJob`/`SerialReturn` are the caller's serial loop. What an item does to
the machinery (`kind`) is chosen in `Init`: its worker returns, its worker raises
one of the classes the `except` clause names or another one, or the item does
not pickle with such an exception. `TakeJob`, `FinishJob` and `PoolBreaks` stand
for `concurrent.futures`, from its documented behaviour. A value that a job has
in a worker is taken to be the value it has in the parent: that this is so for
hashes and paired items is what `HashTables` and `IgnoreOrderDiff` look at, where
it is not always so.

**PairSelection.** `Measure` is the nested loop over added and removed hashes
and the grouping by distance; `PopFrom`, `PopTo` and `DropFrom` are the two
`while` loops; `Invert` completes the dictionary. `SetOrdered.pop` is any
element.

**IgnoreOrderDiff.** `Begin` computes the added and removed hashes, decides
whether to pair, and pairs; `VisitAdded` and `VisitRemoved` are one iteration of
a loop, `get_other_pair` included; `DiffInline` is `_diff` of one paired item
(counting, filtering and reporting as `_diff_dict` does); `StopAtLimit` is the
early `return`. With multiprocessing the pairs are deferred to `pending` and
dispatched at the end. A worker's report is computed as the worker does: counts
start at 0, filters see paths that begin at the item; the parent then rebases
and filters leaves again. Paths are sequences of indexes and keys; the prefix
tests on texts that begin with `root` are prefix tests on these.

**HashTables.** `HashNextItem` is one iteration of the loop of
`_create_hashtable`; `HashIterable` hashes the iterable itself, which fills
`hashes` further (`HashAll`, the loop of `_prep_iterable`); `HashInWorkers` is a parallel section that answered. The key
of an item in `hashes` is what `_make_hash_key` makes, as Python compares it
(`1 == 1.0`, `(1,) == (1.0,)`), or the `id`. `Hidden` is `_skip_this` with both
kinds of paths: where there are include paths they alone decide, below the root.

**RootRun.** `CountDiff` is `_count_diff` and the tuning that follows;
`Measure`, `Hit` and `Measured` are the phases of
`_get_rough_distance_of_hashed_objs`, between which nested diffs count and turn
the cache on or off. The timer is split at each read or write of an attribute
that two threads share.

**PatchFile.** A complete file is the number of deltas applied to the original.
`Load`, `Apply`, `MoveToBackup`, `Open`, `Write`, `Restore`, `CleanUp` are the
system calls of one run in order; every one of them may fail where Python can
raise, the renaming that undoes a failed save (`not_undone`) and the removal of
the backup (`not_removed`) included, and `Kill` ends the process between any two.
`cutShort` remembers that a run was killed or not undone. A truncated file loads
as damaged data in some formats (`lenient`). Renaming replaces an existing file,
as on POSIX.

**InOrderDiff.** `DiffTrees` is `_diff_iterable_in_order`: the levels of the
difflib pass or of the pairwise pass, whichever is shorter, and the opcodes when
they are kept. Which of the maximal alignments difflib finds is left open, so the
properties hold for all of them. `DeltaDict` turns the levels into the dictionary
of a delta, through `mutual_add_removes_to_become_value_changes` and the swapping
of paths below a moved item.

**UnorderedDelta.** `UnorderedDeltas` is the dictionary `Delta` gets from a run
with `ignore_order` and `report_repetition`, for any pairing of the hashes only
one list has: changed items at the places of t1, added and removed items by
place, and the new places of repeated items. `Rebuilt` is what
`_do_ignore_order` does: it rebuilds the list from the old items that stay and the
places of the added ones.

**ListDelta.** `Add` and `Subtract` begin `__add__` and `__rsub__`; each `_do_*`
step that a delta of lists can take is an action, and a fold over the entries of
its dictionary in the order the code sorts them; `PostProcess` restores tuples,
returns, and swaps the dictionaries back. An exception ends the call where it
is raised and leaves every attribute as it is then. `Reload` stands for
`to_flat_rows` followed by `Delta(flat_rows_list=...)`: the rows are written
from the dictionary as it is by then, and the options go with them. Paths are an
index and the whole item or a key of it. All 84768 single uses that one call
allows have been compared with the program itself, with the same outcome each
time.

**Traversal.** The recursion is made explicit: `pending` is the level `_diff` is
about to be called with, `stack` the containers whose loops are running.
`DiffRefused`, `DiffNothing`, `DiffLeaf`, `DiffDict` and `DiffIterable` are the
outcomes of one call; `ReportItem`, `GoDeeper`, `StopContainer`, `NextLoop` and
`Return` are the loops of `_diff_dict` and of the lists. The counter is asked
once in each iteration and once in each call, as in the code. An object is its
identity, so that loops are possible. `SkipThis` is the chain of `elif`s in its
order; `SkipThisKey`, `SkipReportForIncludeGlob` and `TooDifferent` are the
other places that ask the filters. All 664 calls of the run have been compared with
the program itself, with the same report each time.

**DiffTree.** A line is the chain of levels from the root to a change. What
`copy` copies and what it shares matters here: the nodes of a copied line are
its own, the dictionaries of their caches (`dict`) are those of the original.
`Diff`, `ReportItem`, `GoDeeper`, `ReportMove` are the walk and the paths it asks
for as it filters; `Defer`, `StartJob`, `EndJob`, `Rebase` the way of a pair
through a worker; the views ask for paths in the order and with the arguments of
`TextResult`, `DeltaResult` and the pretty form. Each question that `path()` is
asked goes through the cache with its key, `CacheKey`. `Mutual` pairs removed and
added items as the code does, by the text of their paths (`TextAt`), of which
several keys can have one.

**GlobPath, PathText.** Recursive functions for `_match_segments` and
`_could_match_descendant`, with the documentation's meaning of `*` and `**`
beside them (`Denotes`); `PathToElements` is the character loop of
`_path_to_elements` as a fold. Characters that no function looks at are two
letters.

## 3. Runs

| Run | Shows | Bounds | Distinct states |
|---|---|---|---|
| `batch` | the six properties of a section | 3 jobs of every kind; 1, 2 or 3 workers; threshold met and not met | 94453 |
| `pairs` | selection is a pairing, closest first, exhaustive, ends | 2 added, 3 removed items, distances 0..2, cutoff 2 | 75260 |
| `ignore_order` | reports are right or flagged; pairs are consumed once | up to 3 items a side, `max_diffs` 0..9 and none, `max_passes` 0 and 1, both values of `report_repetition` and multiprocessing, path filters | 217208 |
| `ignore_order_filters` | *finding*: worker reports differ under path filters | no limits, one filter | |
| `hashtables` | sharing `hashes` is harmless unless keys are shared | 2 items a side of 5 kinds, 12 filters, exclude paths below include paths among them | 277002 |
| `patch` | no data is lost | 4 runs, each failing or killed anywhere, undoing and cleaning up included | 1935 |
| `root_run` | tuning windows; timer threads | sample 2, 22 diffs, cache of 0 or 1, one nested measurement, 2 timers | 361147 |
| `list_delta` | a delta keeps its contract; verification, placeholders, removals | 3 uses of a delta, written out at any time; lists of up to 4 items, five ways to compare them, lists and tuples, with and without `bidirectional` and `raise_errors` | 2268994 |
| `list_delta_subtraction` | *finding*: moved and changed items are not restored | 1 use, lists matched by id | |
| `list_delta_tuples` | *finding*: an item cannot be added inside a tuple | 1 use, tuples without repeated items | |
| `traversal` | the walk ends and reports what is selected; patterns denote what the documentation says | ten graphs of up to three objects against each other, seven of them with loops; two trees of depth 4 with 14 paths and all patterns of up to 3 elements as filters, limits 0..12 | 38452 |
| `levels` | paths are fresh and lead back; nothing is lost in merging or rebasing | 5 matchings of moves, 12 without order, with and without workers, an iterable that is no sequence, all keys of up to 2 characters of 9, two lists at paths with one text | 32372 |

Why the bounds are enough to meet the interesting cases. Three jobs and two
workers allow a job to be queued, one to run and one to be done at the same
time, and any order of completion. Two added and three removed items allow ties,
a from-hash that is dropped because it was used at a shorter distance, and the
overwriting of a pair. The tables of `ignore_order` give pairs with one and two
indexes on each side, two pairs at once, pairing switched off by
`cutoff_intersection_for_pairs`, and repetition changes; `max_diffs` covers every
point at which a run of these sizes can stop. 22 diffs at a sample size of 2 go
past the 20th, at which the cache is turned on again and its interval grows.
Four runs of `deep patch` are enough for a kill, a run that meets what it left,
and two more. Lists of
three or four items are needed for opcodes to be kept (the difflib pass must be
shorter than the pairwise one and have more than one entry), for a change
whose index differs in the two lists, and for an item that keeps its place
between repeated ones; two for every other case. Three uses allow
a delta to be changed by one (the moved items are put into its dictionary, which
its reverse shares) and used in both directions after, or written out between
two. Two trees of depth 4 have a filter above, at and below every kind of
container; patterns of three elements have `**` at either end, in the middle and
twice; loops of one and two objects against each other close at different
depths. Keys of two characters have a quote of either kind, a bracket or a dot
at each place, doubled and next to each other. For two paths with one text there
is a key that is written as two others are, with lists below both.
Where a theorem exists (section 5) the bounds do not matter.

`MaxMeasured` bounds the `_diff` calls made while measuring distances,
`MaxDiffs`, `MaxHits`, `MaxDepth`, `MaxTimers`, `MaxRuns` and `MaxCalls` bound the counters of
their modules.

### Fairness

- `ParallelBatch`: weak fairness of the parent (it runs until it blocks), of the
  pool's queue, and of each worker: every job function is a finite diff or hash.
  `SectionEnds` needs no more.
- `PairSelection`, `Traversal`: weak fairness of the next step: a single thread
  that waits for nothing. `Terminates` says that its steps come to an end, the
  graphs being what they may.
- `RootRun`: weak fairness of `stop` and of each timer thread, which the
  interpreter schedules; none on the diff, which need not end. `ThreadsEnd` does
  not need it to.

### Findings

1. *Workers and path filters* (`ignore_order_filters`). A worker filters paths
   that begin at its item, and the parent filters leaves only once they are
   rebased. `exclude_paths=["root[0]['e']"]` leaks the descendants of the excluded
   dictionary; `include_paths=["root[1]"]` loses every change below it.
2. *Subtraction of moves* (`list_delta_subtraction`). With an
   `iterable_compare_func`, `t2 - delta` does not give `t1` when an item has both
   moved and changed: the reverse takes the path of the change for that of the
   other list and keeps the new value of the moved item.
3. *Insertion into tuples* (`list_delta_tuples`).
   `(1, 2) + Delta(DeepDiff((1, 2), (3, 1, 2)))` ends in an `AttributeError`:
   `insert` is called before the tuple has been made a list.

`PROJECT.json` quotes the lines that state otherwise.

### Other defects met

The passing runs except each of these by name, or do not reach it; the ones that
can be met in more than one way are among the hazards of `PROJECT.json`.

Workers and unordered comparison:

- A `TypeError` or `AttributeError` of a worker function is taken for a pickling
  failure and answered by the serial loop (`_multiprocessing.py:260`), where the
  documentation promises that it propagates.
- A repeated added item with a partner is compared at the partner's indexes only
  (`diff.py:1780-1790`): `[x]` against `[u, u]` with `report_repetition` gives a
  delta that yields `[u]` (`UnevenPairs` in `ListDelta`).
- Containers of equal numbers of different types share a key of `hashes`
  (`deephash.py:625`): `DeepDiff([(1,), 3], [(1.0,), 3], ignore_order=True)` is
  empty (`HashesAreOwnUnlessShared` excepts shared keys).
- The second `if` of `DeepHash._skip_this` overwrites the first (`deephash.py:476`;
  `Hidden`), so what is excluded below an included path is hashed, although
  "exclusion takes precedence" (`docstrings/exclude_paths.rst:100`):
  `DeepDiff([(1, 2), 5], [(1, 3), 6], ignore_order=True,
  exclude_paths=["root[0][1]"], include_paths=["root[0]"],
  cutoff_intersection_for_pairs=0)` reports `root[0]` as changed.

Deltas:

- A delta that has raised stays turned round, or turns the next list into a
  tuple (`UseAfterError = TRUE` shows it).
- With an `iterable_compare_func` and repeated ids, an added item that equals a
  matched one is lost (`diff.py:943`).
- Making a directed delta deletes the key `old_value` from added items, in `t2`
  itself (`serialization.py:306`).
- The reverse of a repetition change does not restore the repetitions of t1, nor
  the reverse of a change of a repeated item (`RepetitionsChange`,
  `RepeatedPairs`).
- Flat rows do not say that an `iterable_compare_func` was used, and the argument
  that is to restore it is not read where changes of moved items need it
  (`delta.py:558`; `MovedItemsChanged`). Outside the model, the rows of an added
  dictionary item that is a container of one thing lose that container, change
  the action of the rows after them, and empty the set of the delta itself
  (`delta.py:1207-1225`).

Filters and paths:

- `include_paths` ends `exclude_types`, `exclude_regex_paths` and the callbacks;
  an `include_obj_callback` that accepts takes back `exclude_paths`, and, of an
  object that `include_paths` does not name either, both of them: they are one
  chain of `elif` (`diff.py:593-629`). The second was met in proving
  `ReportsAreSelected`, and is the last disjunct of `IsSelected`.
- `include_paths` names no integer key and no attribute: `_skip_this_key` quotes
  every key (`diff.py:637`; `WellKeyed`).
- What is below a path that an include pattern names is skipped (`diff.py:604`),
  though the documentation includes it; a dictionary above it that is too
  different is dropped as a whole.
- `t1 = {'x': t1}` and `t2 = {'x': 5}` give an empty report: the guard against
  loops knows the objects of t1 only (`UnevenLoop`).
- Keys with quotes of both kinds are written without escape and not read back,
  and can have the text of several keys: an item removed below the key `a'"]["b'`
  and one added below `a'` and `b'` are merged into one change (`model.py:72`), and
  of two reports at one text a view keeps one (`IsUnmistakable`).
- `__x` attributes are dropped when a path is read (`path.py`).
- Iterables that cannot be subscripted have no path: their added and removed
  items are merged across iterables, and index 0 has none even if one is faked
  (`model.py:79`).

## 4. Properties worth reading

- `BatchContract` and `ParallelBatch!MeetsContract`: completion order, number of
  workers and fallback are invisible to the caller.
- `StatsAllOrNothing`: a batch that fails after some jobs succeeded is not
  counted, although the serial loop runs every job again.
- `ClosestFirst`: an added item is denied a closer removed item only when that
  one was taken for an item at least as near. It does *not* say that a used
  removed item ends up paired: the loop goes on after a match and can replace
  the pair it has just made.
- `CompleteUnlessFlagged` and `ReportsAreExpected`: the report of any mode
  (inline, deferred, workers without path filters, stopped by `max_diffs`)
  compared with the report of an unlimited inline run.
- `HashesAreOwnUnlessShared`: it names exactly when the shared dictionary may
  change a hash: an item with the same key, hashed elsewhere with another result
  or filtered there.
- `WindowIsOneSample`: also the reason why the ratio of `_auto_off_cache` never
  divides by zero.
- `SilentAfterStop`, `ThreadsEnd`: conditional on `stop` meeting no timer that
  is re-arming. Without the condition they fail: the timer that a running
  callback makes is cancelled by nobody.
- `CompleteCopyExists`: conditional on formats that refuse truncated files, once
  a run was killed or its failure could not be undone. Without it a third run
  moves damaged data over the backup. `FailureRestores` says for each way to fail
  where the old version is.
- `DeltaContract` and `ListDelta!MeetsContract`: nothing of a use, of a failure
  to apply or of the way it was stored can be seen in the next use. Its
  exceptions (`Excepted`) are the defects above, each of them needed: without any
  one of them TLC finds a use that breaks the contract.
- `RemovesWhatItNames`, `NoPlaceholderIsLeft`, `ChangesAreVerified`: what a delta
  may do to an object it does not fit.
- `NestingIsBounded`: no object of t1 is entered inside itself, which is why the
  walk ends; `SilentMeansSame`: an empty report against the bisimulation of the
  two graphs, computed as for the states of automata.
- `OnlySelectedIsReported`, `SelectedIsReported`: the chain of filters against
  what the documentation says of each of them, with the exceptions by name.
- `AnswersAreFresh`: although levels are relinked and marked, and copies share
  caches whose key leaves out one of the arguments, no order of questions that
  the program asks meets a stale path. `PathsLeadBack` follows the path, as it is
  written and read, to the item.
- `MergedAtOnePlace`, `NoReportIsLost`: an added and a removed item become one
  change only if they are at one place, and each item is in a report still. Both
  are about texts, and hold where texts tell paths apart.

## 5. Proofs

All leaves are checked by TLAPS. The assumptions are the named ASSUMEs of each
module: types of the constants, distinctness of the markers, that heaps, cases
and tables are finite and refer to what they hold. TLC evaluates them in the
runs, and each inductive invariant below was checked by TLC on the instance of
its run before it was proved.

| Module | Theorems | Argument |
|---|---|---|
| `ParallelBatchProofs` | `TypeCorrect`, `AnswerCorrect`, `StatsCorrect`, `PoolIsLeftIdle`, `ContractMet` | The answer is serial because results are stored under the job's index, and complete because only a full `collected` returns. The invariant relates `collected` to `results` (every collected job has its serial value), `collected` to `finished` without repetition, `finished` to `submitted`, and each phase to what may still run. The refinement maps every step to a step or a stutter of `BatchContract`, with `fault` mapped to "some job fails or the pool broke". |
| `PairSelectionProofs` | `SelectionTypes`, `SelectionIsPairing`, `SelectionIsExhaustive`, `ClosestAreFirst` | Symmetry holds only at the end. Before, the dictionary is one to one because a to-hash is taken only while unused and is marked then. That no near pair is overlooked needs to know, for every near pair, where it still waits: in both groupings, or in hand. `ClosestFirst` needs to know when a hash was taken: distances are visited in ascending order, so what was used before the distance in hand was used nearer. |
| `IgnoreOrderDiffProofs` | `PartnersAreThere`, `NoPairIsMetTwice`, `ReportsAreRight`, `ReportIsWhole` | The pairs that are left are a pairing of hashes the first loop has still to visit, because `get_other_pair` removes both directions; when that loop ends none is left. Every member of `Pairings` is such a pairing, since the inverse completes a one-to-one choice (`InverseIsPairing`, which `PairSelectionProofs` has for its own end). A report is one that an unlimited inline run makes, because a comparison visits the nodes of its pair in their order and reports each as that run does. And none is missed: each part of what the report should say is in it, waits in `pending` or in the comparison under way, or belongs to a hash a loop has still to visit, unless the run is flagged. |
| `HashTablesProofs` | `TablesAreOwn`, `OneKeyOneHash` | Whatever is in the shared dictionary was entered for an item of the two iterables at its path, and what is under the key of a hashable item is never replaced; an index is under one hash. `HashAll` is unfolded item by item. |
| `RootRunProofs` | `WindowsAreWhole`, `TuningMeetsEdges`, `OneTimerIsLive`, `StopSilences` | The counters of a window stand in a fixed relation to the diffs since its edge, also when a nested diff has tuned the cache between the phases of a measurement. Of the timers, the right to re-arm is passed on like a baton: the timer in `_timer`, or the one thread that is about to replace it, and no other can start one. |
| `PatchFileProofs` | `PatchTypes`, `DataIsNeverLost`, `FailureIsUndone`, `SavedIsPatched` | `Progress` says, phase by phase, where the version the run began with is, also after a failed undoing; `Sources` says why it is complete: no run was cut short, or the format refuses what such a run leaves. |
| `TraversalProofs` | `NestingEnds`, `PatternsAsDocumented`, `ReportsAreSelected`, `NothingSelectedIsLost`, `SilenceIsSameness` | *Nesting*: the parents of a level are one more than its path is long, since none is entered twice, and the depth of a level is that of the stack. *Patterns*: a pattern denotes a path if the path can be cut into what its elements stand for; both recursive functions are unfolded along the cuts. *Selection*: a level is entered only if the chain of filters lets it go on (`Going`), and so are those above it (`OpenAbove`). *Loss*: a difference that the options select is reported, pending, or due in a loop that runs, unless the counter has refused. *Silence*: the pairs of objects the reference tells apart are numbered by the round that does so; of two objects that are met and told apart, the least round leads to a report, and parents that close a loop are met themselves (`ParentsAreMet`). |
| `DiffTreeProofs` | `AnswersAreAlwaysFresh`, `MergesAreAtOnePlace`, `LinesAlwaysHangTogether` | Copies of a level share the dictionary of its paths, so a fresh answer is no fact about one line. The invariant `Inv` says there is a ledger of all dictionaries ever made: each is for one depth, one list of relationships above, one pair of objects and one role (the end of a move or not), and every level that holds it, on whatever line, agrees (`Conforms`). What a dictionary has under a key is the answer to the question with that key that such a level may be asked (`ViewCache`). Two questions share a key, the forced path as it is and for the report of a move; a level is asked the one or the other, by its role and by whether its parent is looked up for the opcodes (`MayAsk`), and `DeltaResult` asks the parents of added and removed items before those of moves (`ParentsFirst`). Marking a level as moved is harmless because the levels whose paths are known by then are its own copies, for which it is the last one. Merging: two lines from one root with one path lead through one pair of containers, step by step, because every item is matched at most once (`SamePlace`). What is merged has one text only; that it has one path is `OneTextOnePath`: what is written from one position on is one element (`OneElement`), as a name ends at a bracket or dot, an index at its bracket, and a key at the first quote of the kind it does not contain. |

`IsSelected` (`OnlySelectedIsReported`) got its exception for
`include_obj_callback` from the attempt to prove it without.

Recursive functions are unfolded: the provers know them as a CHOOSE, for which a
solution has to be shown first, and what they compute is proved by taking a
least number for which it would not hold (lemmas `Least`, `Recursion`), since
the library's induction theorems take an operator as a parameter, which no
installed prover can instantiate.

The questions of `DeltaResult` to the level above a move share their key with
another question and may get its answer; `AnswersAreFresh` excepts them, in the
run and in the theorem. What the theorem needs of the code's order became
visible in the proof only: had `DeltaResult` looked up the parents of moves
first, the forced path of a container could have been the one for moves.

Only model-checked: the properties of `ListDelta` (the folds over the entries of
a dictionary, and the contract that rests on what difflib and the rebuilding
compute); `PathsLeadBack` and `NoReportIsLost`, which say what the fold of
`PathText` makes of the text of a path, for every text an induction over data.
(That different paths are written differently is proved; that they are read back
is not.)
Liveness (`SectionEnds`, `SelectionEnds`, `ThreadsEnd`, `Terminates`) is out of
the prover's reach and stays with TLC.

## 6. Not modelled

- Distances as numbers (`distance.py`): floating point; a distance is an input.
- The pairs cache (`diff.py:1474-1481`) and the choice among precalculated,
  parallel and cached distances.
- Sets in the walk, custom operators, `group_by`, the comparison of strings,
  numbers and dates with their options (precision, case, types ignored): a
  scalar is a type and a value.
- numpy, pandas, polars, pydantic and other types: dispatch to the same cases.
- Of `Delta`: sets, attributes, type changes, dictionary items, numpy, nested
  paths, `force`, `fill`, `mutate`, and the pickled form, which keeps everything
  that flat rows lose. Of the ordered diff: the fallback after `CannotCompare`,
  which is the pairwise pass again.
- Of the tree: `PrettyOrderedSet`, reports of sets, repetitions and custom
  operators. Of paths: bytes and f-string literals, keys that are neither strings
  nor integers, `_get_nested_obj_and_force`.
- The text of views, colours, summaries, command-line options: formatting.
- Search and extract: traversals without state.

## 7. Plan

Done: the parallel sections, pair selection, the report of unordered iterables,
hash tables, the run with its timer and caches, `deep patch`, the walk with its
filters, glob patterns, and the tree with its paths (all with proofs); deltas of
lists against a contract.

What is left, in order of importance:

1. The data-free part of `ListDelta`: which dictionary is in place when, and that
   tuples are restored; `ChangesAreVerified` and `NoPlaceholderIsLeft` from
   lemmas about one round; the lemmas of `UnorderedDelta` on what is rebuilt.
2. Deltas at nested paths with dictionary items, attributes and sets; `mutate`.
