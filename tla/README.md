# Formal model of the openGauss exporter

This directory contains TLA+ models of the exporter under `src/`, the TLC
configurations that check them, and TLAPS proofs about them. The exporter
answers a Prometheus pull. Its `/metrics` route (`promhttp.Handler`,
`part_005:316`) gathers the node collector, which runs each registered
per-definition collector's `Update`. Each `Update` looks up its query
definition in `config.MetricMap` and calls `getMetric` (`part_001:66`). That
runs the definition's SQL statements, concatenates their rows and turns each row
into samples with `procRows`, `newMetric` and `decode`. Those in turn use the
conversions of `collector/utils/utils.go`.

## Inventory

| Part | Source | State and operations | Hard behaviour |
|---|---|---|---|
| Type coercion | `utils.go` 165-242 | pure: `DbToFloat64`, `DbToString`, `RecoverErr` | NULL is NaN/""; text parses or fails; `%v` prints ints and floats alike |
| Charset decoding | `utils.go` 244-281 | pure: `GetMapCharset`, `DecodeByte` | an unknown charset errors; the UTF-8 decoder never errors, it replaces bytes |
| Row processor | `part_001` 115-222 | per row: db name, labels, then one step per column | index panics; `MustNewConstMetric` panics recovered into errors; `decode` degrades to "" |
| Query executor | `part_001` 66-114 | statement loop, rows loop, `columnNames`, `list` | failed statements skipped; `rows.Err` never checked; column list of the last statement |
| Collectors | `part_000`..`part_003`, `collector/opengauss/*.go` | `Update`: lookup, `Check`, `getMetric`, send | `context.TODO()`, with no deadline; `pg` sets `pg_up = 1` unconditionally and writes `p.version` |
| Config loader | `config/gaussdb.go` 50-134, `part_004` | `InitConfig` sets the global `MetricMap` | directory merge: later file overwrites, priority `100+configCount` |
| DB registry | `config/gaussdb.go` 37-48, 140-166 | `DBMap` lookups | nothing in `src` fills `DBMap` |
| Main | `part_005` | flags, routes, `/reload`, signals | `Reload` locks and does nothing |

The node collector framework and `QueryInstance` (`Check`, `GetColumn`) are not
in `src`. What the model needs of them comes from the spec: `GetColumn`, the
descriptor record and the statement record.

## Modules

- **Coercion**: Go values are abstracted to a kind (int64, float64, time, bytes,
  string, bool, nil, other), a content number and, for text, a form:
  - `numeric`: spells a float;
  - `word`: other well-formed text;
  - `invalid`: not well-formed UTF-8.

  Result strings are a format plus the content number, so two results are equal
  exactly when Go's strings would be. It holds `DbToFloat64`, `DbToString`,
  `GetMapCharset` and `DecodeByte`. `Transcode` is what a decoder does to
  ill-formed text: it replaces the bad bytes by U+FFFD. Two texts that differ
  only in those bytes therefore decode alike. Content numbers 2k and 2k+1
  stand for such a pair (`Replaced`).
- **RowProcessor** (constants `ColNames`, `LabelNames`, `DBNameLabel`,
  `Columns`) holds:
  - `ColumnIdx`: the `columnIdx` map; the last position of a repeated name wins,
    and a missing name is Go's zero index, here 1;
  - `Decode`, `DbName` and `LabelValues`;
  - `LabelsPanic`: an index outside the row;
  - `NewMetricResult`: none, error or metric, including the recovered
    `MustNewConstMetric` panic on a label value that is not valid UTF-8;
  - `ConstMetric`.
- **GetMetric** (adds constants `Queries`, `ColValues`, `MaxRows`,
  `NextMayFail`) is one collector's scrape as a state machine.
  - `pc` is the place in the code, `db` the answer each statement got, and
    `stmt`/`fetched` the loop positions. `columnNames`, `list`, `row`, `col`,
    `labels`, `metrics` and `errs` are getMetric's and procRows' locals.
  - The database is the environment. `QueryOK` picks any result set of at most
    `MaxRows` rows allowed by `ColValues` and, when `NextMayFail`, a point where
    `rows.Next` stops on an error.
  - The actions are `Collect`, `SkipDisabled`, `QueryFailed`, `QueryOK`,
    `FetchRow`, `RowsDone`, `StartProc`, `StartRow`, `ProcColumn`, `EndRow` and
    `Emit`. They follow the code's loops one iteration per step, with its
    guards. A `Scan` error cannot happen: every destination is an
    `*interface{}`. A nil `rows` with a nil error cannot happen in
    `database/sql`. Both branches are therefore left out.
- **ScrapeSpec**: what one scrape promises (spec 4.4, 4.5), in one step:
  - the samples of the rows of every enabled statement that ran without error,
    in order, read with the last executed statement's columns;
  - one error per rejected column.
  It has no recursion. The rows read are the positions `<<statement, row>>`
  of the contributing statements, ordered by `Before` (lexicographic); `Nth`
  picks the k-th position, and `RowsAt` lists the rows at a set of positions.
  The samples are listed the same way over the cells `<<row, column>>`
  whose `newMetric` answer is a metric, and the error count is the number of
  cells whose answer is an error. On the `getmetric` and the midstream
  instances TLC found these equal, state by state, to an earlier form that
  concatenated the rows with `FlattenSeq`.
- **MCGetMetric**: a `pg_stat_user_tables`-like definition.
  - `datname` is the database-name label and has no descriptor.
  - `relname` is a label checked for UTF-8.
  - `size` is a gauge held in text, and `hist` is a histogram column.
  - There are three statements, the middle one disabled.
  - The mapping of GetMetric onto ScrapeSpec is in GetMetric (`Abs`, an
    `INSTANCE ... WITH`): the samples and the error count are visible only
    when `pc = "idle"`. `ImplementsScrapeSpec == Abs!Spec`.

- **Exporter** (constants `Collectors`, `PG`, `OwnDB`, `DBMap`, `MonitKey`,
  `MetricMap`, `Scrapes`, `DbMayHang`) is the process around the collectors:
  - `proc`: `main`'s progress (`StartUp` loads the configuration or exits,
    `NewExporter`, `ListenFailed`, `Terminate` on SIGTERM/SIGINT,
    `ShutdownDone` when `srv.Shutdown` returns, `Kill` on a second signal);
  - `req[s]`, `st[s][c]`, `out[s]`: each HTTP scrape, the stage of the
    goroutine `NodeCollector.Collect` starts for each collector, and the
    samples sent so far.
  - A goroutine's `Update` is split at its blocking points: `Lookup`
    (MetricMap lookup and `Check`), `Query` (`getMetric`: nothing, samples, a
    panic on a nil `*sql.DB`, or a hang when `DbMayHang`), and for `pg` the
    unconditional `SendUp` and the `SendVersion` that fails on an empty
    version. `Report` is `execute`'s success/failure sample, and `Respond`
    writes the answer once every goroutine is done (`wg.Wait`).
  - Configurations are abstracted to "invalid" (Check fails), "disabled" and
    "enabled"; samples to (collector, kind). `DBMap` is a constant: nothing in
    `src` writes it, so `MCExporter` leaves it empty, as the program does.
  - `MonitDBHandle`/`DbHandle` are the constructors' `db` field: `pg_database`
    opens its own pool, every other collector takes `GetDBConnection`.
- **ConfigLoader** (constant `Paths`): a configuration path is a tree of file
  and directory entries (name, `.yaml` suffix, readability, malformed YAML,
  content; for a directory its entries in `ReadDir` order). `LoadConfig` and
  its directory loop `MergeDir` are recursive operators following the code:
  non-`.yaml` files are filtered out, a failing entry is skipped, a loaded one
  increments `configCount`, its priority-0 queries get `100 + configCount`,
  and `@@` lets it overwrite earlier names. `ParseConfig` models the YAML
  result: an error, a panic on a nil query (an empty key), or the queries with
  `Path` and default `Name`; Go's random map order decides between a panic and
  a `Check` error (`nullFirst`). `InitConfig` is the one action. `part_004` is
  a byte-for-byte copy of the same loader.
- **ParamParsing**: `parseConstLabels` and `parseCSV` over strings that are
  sequences of characters, `strings.TrimSpace` and `strings.Split` written by
  what they do (n separators give n + 1 pieces), one loop iteration per
  step. `labels[key] = value` is `Put` on the map. Neither function is called
  anywhere in `src`; the model checks them against a declarative reference.
  The reference gives a key the value of its greatest well-formed position,
  and gives the tags by the rank of their positions. The parameters are
  strings (`InputsAssumption`). The same run also fires `ParseVersion`
  (`ParseVersionSem`, `utils.go` 104-111) and `BaseInfo` (`GetBaseInfo`,
  `gaussdb.go` 140-166, with Ping failing, the query failing, or the query
  answering the string). `BaseInfo` picks the database's answer with `\E`.
- **VersionProbe**: the pure functions behind those two actions.
  - A `version()` string is a sequence of symbols. A word the patterns spell
    out, such as `GaussDB`, `Kernel`, `openGauss` or `Vastbase`, is one symbol.
  - The four regular expressions of `utils.go` 114-117 return the span of
    their leftmost match. Go's regexp is leftmost-first with greedy
    quantifiers, so each group is taken as long as the rest of the pattern
    allows (`RunEnd`, `TripleEnd`, `PairEnd`).
  - `parseVersion` tries the patterns in source order. The three sub-parsers
    follow; the GaussDB one converts `V500R002C10` with `Atoi` and `Decimal`.
  - `semver.ParseTolerant` (blang/semver, outside the repository) is written
    from its documented behaviour. It trims the string and drops a leading
    "v". It cuts at the first two dots and pads a short version with "0"; a
    short version whose last part has "+" or "-" is an error. Each part must
    be digits with no leading zero.
  - Every call returns a `(version, err)` record, as the Go pair does.

## Runs

| Run | Checks | Shows |
|---|---|---|
| `getmetric` (pass) | `TypeOK`, `NoDuplicateSeries`, `ImplementsScrapeSpec` | getMetric refines the abstract scrape when statements succeed or fail whole; distinct rows give distinct series; an ill-formed unchecked label takes `newMetric`'s recovered panic; 716,673 states |
| `getmetric_midstream` (violation) | `ImplementsScrapeSpec` | rows read before a mid-result error are emitted (`rows.Err` unchecked) |
| `getmetric_mixed` (violation) | `NoPanic` | a narrower statement before a wider one makes procRows index past the row and panic |
| `getmetric_duplicate` (violation) | `NoDuplicateSeries` | two different ill-formed labels with a NULL database name both become "", one series twice, so Gather fails with HTTP 500 |
| `configloader` (pass) | `MetricMapIsLastDefinition` | over 1,465 paths (3,308 states), the loaded map is the depth-first last-file-wins merge, with default priorities counted per directory |
| `configloader_priority` (violation) | `MergeByPriority` | a subdirectory restarts `configCount`, so a 101 overwrites a 102; the priority does not order the merge |
| `configloader_null` (violation) | `NoStartupCrash` | an empty query key panics the process at start-up instead of the file being skipped |
| `exporter` (pass) | `SuccessReported`, `ScrapeAnswered`, `ShutdownCompletes` | two overlapping scrapes of four collectors, with a database that answers every statement. Each answered scrape reports every collector, with success exactly when its `Update` returned nil. A statement error that `getMetric` drops still counts as success. Every scrape is answered and shutdown completes. 320,799 states |
| `exporter_hang_scrape` (violation) | `ScrapeAnswered` | a statement that never returns holds its scrape forever: `context.TODO()` is never cancelled |
| `exporter_nildb` (violation) | `NoCollectorPanic` | with `DBMap` empty, `QueryContext` on a nil `*sql.DB` panics the process on the first scrape |
| `exporter_hang` (violation) | `ShutdownCompletes` | a hung statement (`context.TODO()`) blocks its scrape, and `srv.Shutdown(context.Background())` waits for it forever |
| `paramparsing` (pass) | `ParsesAsReference`, `VersionAsAnnounced` | every string of up to 7 characters over `" ,=ab"`: both parsers return the reference result. Over 432 `version()` strings of every announced form, `ParseVersionSem` returns the announced version, or an error when none is announced. The forms are GaussDB/MogDB `Kernel V500R00xC10[SPC100]`, `GaussDB Kernel x.y.z`, openGauss/MogDB `x.y.z` and Vastbase `G100 Vx.y`, each with and without the PostgreSQL prefix and the build suffix. `GetBaseInfo` errs only on a failed Ping and otherwise falls back to 0.0.0. 1,047,480 states |

Why the bounds are enough:
- `MaxRows = 2` gives two rows per statement and four rows per scrape, enough
  for two rows to collide, for a stale label to be reused and for a partial
  result.
- Each column has a well-formed value and bad ones. `datname` may be NULL or
  ill-formed, `relname` ill-formed and `size` non-numeric. `datname` is an
  unchecked label, so an ill-formed one takes `newMetric`'s recovered panic.
  `relname` is checked, so an ill-formed one goes through `decode`'s
  replacement: to "" when `datname` is NULL, through `DecodeByte` otherwise.
  Every `newMetric` result and every `DbToFloat64` case of text occurs. So does
  every branch of `decode` but its error branch: `DecodeByte` with "UTF8"
  never errs, so that branch is dead in the code as well.
- Three statements cover disabled, failing and succeeding statements around each
  other.

- The configuration trees have two query names, files that share one, a
  file with a user priority, a failing `Check`, malformed YAML, an unreadable
  file and directory, a non-`.yaml` file, a missing path and nested
  directories, in every order of up to three entries: every branch of
  `LoadConfig` and `ParseConfig`, and the overwrite and `configCount` cases.
- Two scrapes over four collectors: `pg` (statements disabled), `pg_database`
  (own database, enabled), `pg_stat_bgwriter` (failing `Check`) and
  `pg_connections` (not configured; configured and enabled in the runs with a
  panic). Together they give overlapping requests, every `Update` path, and
  a shutdown while a scrape is in flight.
- Seven characters is the shortest string with two well-formed parts for one
  key and a malformed one ("a=a,a=b" and the like), so the overwrite, the
  skips and the nil results all occur.

Fairness. Run `exporter` has `DbMayHang = FALSE`: every statement returns.
The runs with `DbMayHang = TRUE` show what a statement that never returns
does to a scrape (`exporter_hang_scrape`) and to shutdown (`exporter_hang`).
`Exporter` assumes weak fairness of each collector goroutine's
next step (`UpdateStep`, `Report`), of `Respond` and of `ShutdownDone`: each
is a goroutine that, once it can run, stays able to run until it does (Go's
scheduler runs every runnable goroutine). New requests, signals and `Kill`
are the environment and get no fairness. A hung statement is a stage with
no step out of it, which is what `context.TODO()` gives. The other modules
check safety only.

## Proofs

`GetMetricProofs` proves `THEOREM TypeCorrect == Spec => []TypeOK` for all
constants that satisfy the assumptions `RowProcessorAssumption` and
`GetMetricAssumption`.

`TypeOK` is not inductive. Its bound `Len(list) <= N * MaxRows` is only reached
through the statement loop. The strengthening `IInv` adds two facts:
- every recorded answer has at most `MaxRows` rows;
- inside the loop, the list holds at most `(stmt - 1) * MaxRows` rows, plus
  `fetched` while reading a result set.

The proof proceeds in three steps:
1. `Init => IInv`.
2. `IInv /\ [Next]_vars => IInv'`, with one step per action. It rests on
   lemmas about the operators: `DbToString`, `Decode`, `LabelValues` and
   `ConstMetric` return values of the right type, and `Results` gives answers
   with at most `MaxRows` rows. In `StartRow`, the label values are only typed
   because the panic guard `LabelsPanic` ensures every index is inside the row.
3. `PTL` combines the two steps.


`GetMetricSeriesProofs` proves `THEOREM NoDuplicates`: under three
conditions on the query definition and the data, `Spec => []NoDuplicateSeries`.
A finished scrape then holds no two samples of one series unless the database
returned two rows with the same label columns. Each condition is one the
code really depends on:
- `DistinctColumns`: no statement returns two columns of the same name.
  `procRows` emits one sample per column, so a repeated name gives two
  samples of one series from a single row.
- `LabelsAligned`: each label column sits at the same position in every
  statement. `getMetric` reads every row with the column positions of the last
  statement, so otherwise a label is read from another column.
- `LabelColumnsTyped`: each label column holds non-NULL values of one SQL
  type (int64, float64, time, bytes or string). Ill-formed text may appear
  only where no UTF-8 check is declared. int64 3 and float64 3 both print
  "3", and NULL prints like ''. `decode` turns two ill-formed texts into one
  text when they differ only in replaced bytes, and any two when the row has
  no database name. Run `getmetric_duplicate` shows the violation this causes.

The lemma `DecodeApart` derives from the last two that `decode` keeps the
labels of rows with different label columns apart. It has three steps:
- `AlignedValue`: a label read from any row with any statement's columns is
  a value of that label's own column.
- `DecodeIsRendering`: on such a column, `decode` is the plain rendering.
- `RenderApart`: two values of one type that render alike are equal.

`NoDuplicateSeries` is not inductive. It speaks only of the idle state, and
a scrape builds its samples across many steps. The strengthening `SInv` adds:
- samples are empty during the statement loop;
- while a row is processed, `labels` are that row's label values;
- `Origin`: every sample was made from a row already read, or from an
  earlier column of the current row;
- if the rows read so far have distinct label columns, so do the samples.

`NewSampleIsNew` is the core step. The sample of the current column differs
from every earlier sample. It differs in name from the samples of its own row,
because column names are distinct. It differs in labels from the samples of
earlier rows, because decode keeps those rows apart.

TLC checked `SInv` and `NoDuplicateSeries` as invariants, and the three
conditions as assumptions, on an instance that meets the conditions. It has
`MCGetMetric`'s statements with failing `rows.Next`, and well-formed labels
of every text form (7,463,155 states). `MCGetMetric` itself breaks
`LabelColumnsTyped`: its `datname` may be NULL and its checked `relname`
ill-formed. So the theorem does not cover that instance; run `getmetric`
checks it.

`GetMetricRefinement` proves
`THEOREM Implements == NextMayFail = FALSE => (Spec => ImplementsScrapeSpec)`,
the refinement that run `getmetric` checks, for every query definition,
column values and row bound. The hypothesis is needed: with `rows.Next`
failing mid-result, run `getmetric_midstream` shows the refinement fails.
The mapping keeps `db`. `out` and `nerr` are `metrics` and `errs` at idle,
and empty otherwise. So every step that does not return to idle maps to
`Query`, and `Emit` maps to `Publish`. The work is to show that at `Emit`,
`metrics` and `errs` are `Samples(db)` and `Errors(db)`. The inductive
invariant `RInv` adds to `IInv`:
- no answer has a failure point, and in the statement loop the statements
  from `stmt` on (after `stmt` while fetching) have no answer yet;
- `columnNames` is `ColumnsRead(db)`: the columns of the latest executed
  statement;
- `list` is `RowsAt(db, ReadSoFar)`. `ReadSoFar` holds the positions of the
  contributing statements' rows, cut at `fetched` in the current one;
- during row processing, `metrics` is `SamplesAt` and `errs` is the count of
  the cells already processed (`DoneCells`, by `Processed`);
- `labels` are the current row's label values.

There is one lemma per action (`StepQueryOK`, `StepFetchRow`,
`StepProcColumn`, ...). Each step adds a position after all earlier ones.
The lemmas on the order carry this: `NthOld`, `NthNew` and `NthIsMember`,
through a rank `PosRank` and `FS_Injection`. With them, `RowsAppend` and
`SamplesAppend` show that such a position appends one element to the list.
`AbsRowProcessor` identifies the operators `ScrapeSpec` reaches through the
instance with those of `RowProcessor`. TLC checked `RInv` as an invariant on
`MCGetMetric` (716,673 states).

`ExporterProofs` proves, for every set of collectors and requests and every
configuration satisfying `ExporterAssumption`:
- `ExporterTypeCorrect == Spec => []TypeOK`;
- `SuccessReflectsUpdate == Spec => []SuccessReported`: an answered scrape
  carries, for each collector, the success sample exactly when its `Update`
  returned nil, and the failure sample exactly when it returned an error
  (`UpdateFails`). This holds with hung statements and crashes too.

`TypeOK` is not inductive, because a late goroutine could write to an
answered scrape. Its strengthening is `IInv == TypeOK /\ Settled`. `Settled`
says an answered scrape has only finished goroutines, which is what
`wg.Wait` gives. `StepIInv` checks `IInv` action by action, with the lemma
`GoingStep` for every goroutine step.

`SuccessReported` needs more: `RInv == IInv /\ Reported`. `Reported` ties
each goroutine's stage to what `Update` has done so far:
- a goroutine past `Lookup` has a valid definition;
- only `pg` reaches `SendUp` or `SendVersion`;
- `ok` means `Update` succeeds and `failed` means it fails;
- a goroutine that is not done has sent neither sample;
- a done goroutine has sent exactly the one its outcome calls for;
- a scrape not yet requested has no samples and idle goroutines.

`GoingRep` shows that any goroutine step of scrape `s` and collector `c`
keeps `Reported`. Its hypotheses are packed in the action `GoodStep(s, c)`.
`StepRInv` applies it to each action. `RInv` was checked with TLC first, on
four instances: `MCExporter`; the hang instance; every definition valid with
hangs; and a filled `DBMap` with a `pg` version. The largest had 2,360,335
states.

`VersionProbeProofs` proves `BaseInfoErrOnlyOnPing`, for every database answer
and every string: if `GetBaseInfo` returns an error, then Ping failed. Both
recovery paths return `ParseTolerant("0.0.0")`. The lemma `ZeroTextShape`
computes what that call sees: the trimmed text, the dots at 2 and 4, and the
three parts "0". It uses `SubSeqProperties`, `SeqEqual` and `SubSeqFull` of
`SequenceTheorems`, and `FS_Singleton` and `FS_AddElement` for
`Cardinality({2, 4}) = 2`. `ZeroParses` then pushes the text through
`SemverText`, `SplitDots`, `PadParts` and `IsNumeric`. That `ParseVersionSem`
finds the announced version is checked by TLC only: `parseVersion` is defined
over every string, and the claim needs induction over the string.

`ParamParsingProofs` proves `ParsesLikeReference == Spec => []ParsesAsReference`
for every set of parameter strings. `parseConstLabels` returns the map that
gives each key of a well-formed part the value of its last such part.
`parseCSV` returns the trimmed non-empty parts, in order. Each returns nil
when that result is empty.

The property only speaks of finished calls, so it is not inductive. The loop
invariant `PInv` adds:
- `parts` is the split of the trimmed argument;
- `i` is at most one past its end;
- `acc` is `LabelsOf(parts, Good(i - 1))` or `TagsOf(parts, Kept(i - 1))`:
  the result of the reference on the parts before `i`.

Two lemmas carry the loop body:
- `PutLabels`: putting the part at `i` into the map of earlier positions
  gives the map of both. Since `i` is greater than every earlier position,
  the new value is the key's last one.
- `AppendTags`: appending the part at `i` gives the tags of both, because `i`
  ranks last. This uses `FS_AddElement` and `FS_Subset`.

These facts keep the reference's `CHOOSE`s meaningful:
- `TrimSpaceType`: `TrimSpace` returns a string. Its `Least` and `Greatest`
  exist, through `WFMin` and `NatLessThanWellFounded` of
  `WellFoundedInduction`.
- `SplitIsSeq`: `Split` returns a list.

This is induction over the steps of the loop, not over the data, and no
operator of the module is recursive. So the reference is written with
`Greatest`, `Rank` and `Cardinality`, not with `SequencesExt`'s `Max` or with
`SelectSeq`. TLC checked `PInv` as an invariant on the run's instance before
the proof.

Only TLC checks these:
- the refinement of `ScrapeSpec` by `GetMetric` when `rows.Next` may fail
  mid-result (it does not hold: `getmetric_midstream`), and the violations;
- `NoDuplicateSeries` on data outside the three conditions, such as
  `MCGetMetric`'s NULL or ill-formed labels: run `getmetric` checks it
  there, and `getmetric_duplicate` shows it fails with two ill-formed texts;
- `ConfigLoader`, for the same reason: it recurses over the directory tree.
  `MetricMapIsLastDefinition` also needs induction over a list of files of
  any length, which the provers cannot instantiate;
- `VersionAsAnnounced`: `parseVersion` scans a string of any length, and the
  claim needs induction over the string;
- the liveness properties `ScrapeAnswered` and `ShutdownCompletes`, which rest
  on fairness and are outside the prover's reach.

## Findings

- `config.DBMap` is never filled in `src`: every collector but `pg_database`
  holds a nil `*sql.DB` and the first scrape of an enabled statement panics
  the process (`exporter_nildb`). `pg_version` is never sent for the same
  reason.
- `pg_up` is set to 1 and sent whatever getMetric retrieved (`pg.go:38`); the
  model reproduces it (`SendUp` follows `Query` unconditionally).
- A hung statement is never cancelled. It holds its scrape forever
  (`exporter_hang_scrape`) and blocks graceful shutdown (`exporter_hang`).
- The merge keeps the last loaded file, not the highest priority, and
  `configCount` restarts in a subdirectory (`configloader_priority`). `main`
  loads the fixed file `./default_all.yml`, so the directory merge only
  matters if that path is a directory.
- An empty query key crashes start-up (`configloader_null`).
- `GetBaseInfo` replaces a parse error by the nil error of
  `ParseTolerant("0.0.0")` (`gaussdb.go:161`). A caller sees version 0.0.0
  and success for a string it could not read (`VersionAsAnnounced`,
  `BaseInfoErrOnlyOnPing`). Nothing in `src` calls it.
- The getMetric findings are above (`getmetric_*`).

## Not modelled, and why

- `Contains`, `SafeDereference`: pure helpers with no caller in the scrape.
- Flag parsing, logging, the other HTTP routes; `/reload` and SIGHUP call
  `Reload`, which takes a lock and does nothing, so it is a stutter.
- The database driver and the network: the database is the environment of
  `GetMetric` and `Exporter`.
