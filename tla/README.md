# A TLA+ model of fs2a

fs2a is a C++20 library of utilities: synchronisation and sharing (semaphore,
connection pool, observer pattern, singleton, logger, I/O context), processes
(child, run), and data (CSV, tables, dates, times, encodings, enumerations).
This directory models it: TLA+ modules translated from `hdr/fs2a` and `src`,
TLC configurations that check them on small instances, and proofs that TLAPS
checks for every instance. `PROJECT.json` maps each definition to the lines it
models, and lists the runs, the mutants that show each property can fail, the
hazards and the theorems.

Run a check with `tlc -config <Run>.cfg <MCModule>.tla`, a proof with
`tlapm <Module>Proofs.tla` (of `Semaphore`, and of all that `Utilities` uses, `UtilitiesProofs.tla`).

## 1. Inventory

The library has no main program. Its components are independent classes; the
programs that use them (and the tests in `chk/`) are the environment, and in
the models the environment calls any operation at any time the class allows.
Components interact in two ways: by use (most log through `Logger`, `Logger`
is itself a `Singleton`, `HeaderedTable` is a `Table`, `readCSV` fills one,
`Child` and `run` log), and by callbacks (`Observable` calls `Observer`s, which
may call back).

| Component | State | Operations | What is hard about it |
|---|---|---|---|
| Semaphore | `uint16_t` counter, destruction flag, mutex, condition variable | `dec`, `inc`, `try_dec`, `count`, destructor | lost and spurious wakeups, permits stolen between notify and wakeup, destruction with threads inside, wrap-around |
| ConnPool | map from connection string to map from thread id to `shared_ptr` | `get`, `purge`, destructor; users copy and drop handles | `use_count()` read while handles are dropped, failing connects under the mutex, hand-over of handles between threads |
| Observable, Observer | value, list of weak pointers, mutex | `addObserver`, `removeObserver`, `set`, `get`, `observers` | notification runs unlocked on a copy of the list: concurrent and nested `set()`, registration changes, observers that expire |
| Logger | destination (`FILE*` or syslog), filter, strip length, mutex | `stream`, `syslog`, `log`, `maxlevel`, `stderror`, macros | the destination is read outside the mutex it is changed under; filtered messages yield a null string |
| Singleton | instance pointer, mutex | `instance`, `close`, `is_constructed`, `atexit` | construction and destruction under the lock, re-construction at exit |
| IOctxtWrapper | io_context, work guard, threads, recursive mutex | `runHere`, `runThreads`, `stop` | joining while holding the mutex, a context that is stopped and never restarted |
| Child, run | command, environment, pipe, child process | `command`, `addEnv`, `capture`, `run` | failures of `pipe`, `fork`, `execvpe`, `waitpid`; descriptors inherited by concurrent children; an environment that the first `run()` reads, perhaps in part |
| CsvWriter | destination, column and line counters, quoting mode | `destination`, `field`, `fields`, `header`, `headers`, `endRow` | partial rows, forced headers, quoting |
| readCSV | quoting state, current row | one pass over a stream | end of input inside or after a quoted field, short rows |
| Table, HeaderedTable | cells, `uint32_t` sizes, header cache | `cell` by number and by name, `rows`, `columns` | 32-bit products and successors, stale cache, partial renames |
| NaiveDate, NaiveTime, timespecops | calendar fields, clock fields | setters, ISO conversion, arithmetic, comparison | month lengths, leap years, normalisation |
| Base64, roman, Tokenize | none | conversions | padding, cut and broken texts, round trips |
| functions | the length of the longest entity code, computed on first use | `join`, `htmlCharEntRefCodes2ascii`, `epoch2iso8601` | first use by two threads |
| CoolEnum | two static maps filled on first use | a name's key, a key's name | first use by two threads, memory that runs out in it |
| runchecks, Tracer, template_main | none | start-up glue | not modelled |

For each component the properties that make it correct, as stated by its
header, its tests and the code:

- **Semaphore**: calls are atomic; a permit and a thread waiting for it never
  coexist at rest; destruction ends all waits.
- **ConnPool**: a connection is used by one thread unless it was handed over;
  connections in use are never forgotten; nothing is opened while something is
  idle; a purge is complete; the mutex is always released.
- **Observable**: no observer twice; every observer registered at a change
  learns the last value; every call returns, also one made from a callback.
- **Logger**: what was configured is where the message goes; logging never
  fails because somebody else reconfigures.
- **Singleton**: at most one instance; none after exit.
- **IOctxtWrapper**: handlers posted are run; `stop()` ends all threads and
  returns.
- **Child/run**: the exit status and the output are the child's; no descriptor is
  left open and no child unreaped; calls return though children inherit pipes.
- **CsvWriter/readCSV**: what is written is read back.
- **Table**: cells survive growth; sizes and contents agree; headers are unique.
- **Dates, times, encodings**: the functions equal their definitions, and what
  one writes its counterpart reads.
- **What a first use computes** (CoolEnum's maps, the longest entity code, a
  child's environment) is right for every later use.

## 2. Plan

In order of importance; concurrency first, because that is what tests in
`chk/` reach least.

| Step | Modules | State |
|---|---|---|
| 1 | `Semaphore` refining `CountingSemaphore`, proofs | done |
| 2 | `ConnPool`, proofs | done |
| 3 | `Observable` | done, with proofs of both |
| 4 | `Logger`, proofs; `Singleton` | done, with proofs of both |
| 5 | `IOctxtWrapper`, proofs | done |
| 6 | `Child`: `Child::run()` and `run()`, proofs; `ChildEnv`: what prepares them | done, with proofs of both |
| 7 | `CsvWriter`, `ReadCSV`, `Table`, `HeaderedTable`, composed by `CsvTable`, proofs | done, with proofs |
| 8 | `NaiveDate`, `NaiveTime`, `Timespec` | done, with proofs; what is written and read back is checked |
| 9 | `Base64`, `Roman`, `Tokens`, `Entities`, against reference definitions | `Roman` and `Entities` with proofs; `Base64` and `Tokens` checked |
| 10 | `CoolEnum`'s maps filled on first use | done, with proofs |
| 11 | `Utilities`, a program that uses one of the parts of steps 8 to 10 or a `ChildEnv` | done, with proofs of all but `ReadBack` |

Abstract specifications: the counting semaphore (done), a pool as a set of
leases. Theorems worth proving beyond those there are: that dates, times,
Base64 texts and joined items are read back (`ReadBack`).

## 3. The modules

Every module takes its parameters as `CONSTANTS` with a named assumption; an
`MC` module and a `.cfg` give them small values. Names of variables and actions
are those of the code where they are not more than abbreviations of it. A
thread is in a call at a program counter (`pc`, or the top of a `stack` where
calls nest), and a step is cut exactly where another thread can make a
difference: at every acquisition of a mutex, at every read or write that no
mutex protects, and at every call of foreign code. Operators named "Mutant of
..." are plausible mistakes in the code; nothing refers to them except the
mutants of `PROJECT.json`.

### CountingSemaphore, Semaphore

`Semaphore` has the five members of `src/Semaphore.cpp`: `count` (modulo
`Modulus`, 2^16 in the code), `destructing_a` (as `dtor`), `mux_a` (as `owner`),
and the condition variable (as the set of threads `Asleep`). `dec()` is
`CheckFlag`, `Lock`, `DecTest`, `DecWait`, `DecTake`; the other functions are
`CheckFlag`, `Lock` and a body. The destructor is `SetFlag` and `NotifyAll`, neither
of which takes the mutex. `notify_one()` wakes any sleeper, `SpuriousWake` any
at any time. The abstract `CountingSemaphore` has permits, requests and
results, and each operation takes effect in one step: `Semaphore` refines it
(`AbsSpec`), which is what "thread safe" promises of the class.

### ConnPool

The map of maps is `pool[params][thread id]`, `NoConn` for an absent key. The
code asks `use_count() == 1` of a `shared_ptr`; the model has the handles
themselves (`held`) and computes `Idle`. `get()` is `LockGet`, then `GetOwn`, or one
`ScanBusy` or `TakeIdle` for each entry in key order, then `Connect` or
`ConnectFails`; `purge()` is `LockPurge`, `PurgePool` for each pool, `PurgeTest` for
each entry, `PurgeErase`, `PurgeDone`. Between any two of these other threads
copy and drop handles (`HandOver`, `Release`), which take no mutex. Conn names
are reused when a connection is closed (`Fresh`), so that the model is finite
though the program may open connections for ever.

### Observable

Every call begins by waiting for the mutex: the program makes it (`CallOnList`,
`CallSet`), and the thread stands in `asks` until the call gets `mux_` (`Gets`). A
callback's own call waits in the same way, on top of the `set()` that called it, so
that a mutex held over the callbacks would be a deadlock one sees.
`set()` assigns and copies the list under the mutex (`Set`), unlocks (`Unlock`),
and calls observer after observer (`Skip`, `Notify`, `Tell`, `Told`), then sweeps what
had expired (`Sweep`, `Finish`). A callback may do anything a thread may, also call
`set()`: each thread has a stack of the calls it is in. That an observer stays
alive while it is called (`spo`), or while a call with it waits (`psp`), is part of
`Alive`. The program deregisters and drops only the observers in `Transient`. The value is handed over
by reference and read by the callback (`Tell`), possibly after another `set()`.

### Logger

`stream()` and `syslog()` change four fields one after another under the mutex,
`log()` reads them one after another without it; so does the model. The history
variables `config` and `during` record which configuration was completed last
and which ones a call of `log()` overlaps. `Destroy` and
`Construct` are the logger's destruction and construction as a singleton. What becomes of an entry, the
exception and undefined behaviour included, is `out`; `FCET` and its relatives
are the flag `throws`.

### Singleton

Several classes at once, each with its instance pointer and mutex. A
constructor or destructor may ask for other singletons (`CtorUses`, `DtorUses`),
which puts another call on the stack. `atexit()` and `exit()` are modelled as in
glibc: last registered first, and handlers registered by handlers run too.
`Programs` says which kinds of program are considered: with or without calls of
`close()`, joining or not joining their threads before `exit()`.

### IOctxtWrapper

The members are the state of the io_context (`stopped`, `queue`), the work guard,
the threads and the recursive mutex (`Holds`: a frame past its `lock` on the
stack). `stop()` is `StopIdle`, `Halt`, `Join` or `JoinFails` for each thread, and
`Restore`; `runHere()` and `runThreads()` call it and go on with `RunHere`, or `Resize`
and `Start`. The rest is `boost::asio::io_context`, external, as its documentation
describes it: `run()` returns when the context is stopped, which it is when
it has no work; work is queued and running handlers and the guard.

### Child

`Child::run()` and the function `run()`, on several threads, with what the kernel
does of `pipe`, `fork`, `close`, `read` and `waitpid`. A process inherits every
writing end its parent has open (`w`), which is why end-of-file of one pipe can
depend on another thread's child. Between `fork` and `execve` a child may need
the logger's mutex (`stuck`), leave `run()` by an exception as a second
copy of the program (`copy`), or call `exit(1)`, which runs the program's exit
handlers in the child (`exiting`). `program` says what can fail around a call, and
whether the logger has a destination (`logs`): without one the `log()` of an
interrupted `read()` throws, and the call leaves its pipe open and its child
unreaped (`ReadThrows`). Output is counted in chunks, one kind of which
ends in a NUL, because the output is taken for a C string.

### CsvWriter, ReadCSV, Table, HeaderedTable, CsvTable

Characters are the classes the code tells apart, and a field is a sequence of
them. `CsvWriter` has the counters
and the output, and the history of the rows it was given; exceptions leave
what was written before them. `ReadCSV` is the reader's state machine, one
`ReadOne` for each turn of its loop, ended by the state of the stream as in the
code (`good`, cleared by a look past the end); `After` is what the turns lead to
one after another. A header of too many columns, or rows that can no longer be
numbered, make it throw (`TooMany`; `MaxColumns` is `UINT16_MAX` in the code). `Table` is a vector with a number
of columns, with index arithmetic modulo `Wide`, which the run makes small
enough to look for every row there can be (`CellsKept`). `HeaderedTable` adds the
names: `MadeUnique` and `Cache` are `makeHeadersUnique_()` and `readHeaders_()`;
`to_string` stands for `std::to_string()`, up to the largest number that as many columns as
`readCSV()` takes can need (`MaxNames`).
`CsvTable` composes them: a program writes, reads back, and uses the result.

### Numerals, NaiveDate, NaiveTime, Timespec

The fields of a date and of a time, with one action for each setter, reader
and operator; a call that throws changes nothing and so has no step. Functions
that only compute (`days`, `weekday`, the comparisons) are operators, named as in
the code where they have a name; `>` of dates and times is `<` with its operands
exchanged, as it is in the code line by line (that of timespecs is a complement, `Greater`). Texts are sequences of characters, a digit being
the number it is, for `std::stoi` (`Stoi`) reads what it can and ignores the rest.
`mktime()` and `gmtime()` are external: a count of days, and a zone's offset. The
references, `Exists` and `Zeller`, are written independently of `days` and
`DayNumber`'s weekday.

### Base64, Roman, Tokens

Operators with the names of the functions, one fold for each loop, and a
variable with the data of the program. A letter of the Base64 alphabet is the
sextet it stands for, a Roman numeral its value. Their properties relate a
function to its counterpart (`Base64ReadBack`, `JoinedReadBack`) or to an
independent reading of the result (`RomanIsNumber`).

### Entities, CoolEnum, ChildEnv

Three parts that compute something at the first use and keep it. `Entities` is
`htmlCharEntRefCodes2ascii()` on several threads: the static `maxlen` is computed by
`Compare` and `AssignMaxlen`, one code of the unordered map after another, in an order
that is chosen at the start; then `Replace` is one turn of the loop over the
text. `CoolEnum` is the code its macros generate, cut at every access of the two
maps (`TestEmpty`, `FillK2s`, `FillS2k`, `Find`), with `std::bad_alloc` (`FillFails`). Both
have a history variable that says whether calls overlapped the first one, for
then the code promises nothing: an overlapped map is undefined behaviour, an
overlapped `maxlen` only leaves codes unreplaced. `ChildEnv` is what precedes a
`run()`: the command, the variables the program sets, and the profile, a sequence
of lines of which `readEnv` is the fold.

### Utilities

A program that uses one of the parts above that stand alone. Which one is
chosen at the start (`used`), so that the states of the parts add up instead of
multiplying. `UtilitiesSpec` is that program; `UtilitiesTypeOK`, `FirstUseHolds`, `AsNumbers`
and `ReadBack` put together what the parts promise.

## 4. The runs

| Run | Bounds | Shows |
|---|---|---|
| `semaphore` | 3 threads, counter of 4 values, started at 0, 1 or 3 | calls are atomic (`AbsSpec`), no permit is stranded, sleepers are woken, destruction ends waits |
| `semaphore_destruction` (violated) | 2 threads | a thread between the wait loop's predicate and the wait misses the destructor's `notify_all()` |
| `connpool` | 3 threads, 2 pools, one named "", 2 connections (symmetric) | connections in use stay pooled, exclusive use, no needless connect, complete purges |
| `observable` | 2 threads, 2 observers, one of which stays; 2 values, 2 `set()` under way or waiting | no observer twice, none left with an old value, every call gets its mutex and returns |
| `logger` | 2 threads, 2 streams and syslog, 2 strip lengths, 1 priority | what a call without overlap does, and what one with overlap may do |
| `logger_race` (violated) | 2 threads, 1 stream and syslog | `log()` during `syslog()` finds neither destination |
| `singleton` | 3 threads, 2 classes, one using the other; no more calls once a class was made twice | one instance, none left at exit, exit constructs nothing, calls return |
| `ioctxt` | 2 threads of the program, 2 of the pool, 1 handler waiting; three kinds of program | one generation of threads; in polite programs (threads can be made, handlers do not call the wrapper) the guard is restored and calls return |
| `ioctxt_runhere` (violated) | 2 and 1 threads | `runHere()` comes back at once though told to keep running |
| `child` | 2 threads, 2 forks, 2 chunks, a pipe of 1 chunk; five kinds of surroundings | status and output are the own child's, nothing is left but by a signal or by a `log()` that throws, calls return |
| `csv` | 3 calls of 1 or 2 fields out of 5, 4 settings; tables of up to 3 cells when read and 2 rows; sizes modulo 10, fewer than 4 columns | rows are rectangular, round trip, cells keep what was assigned, names lead to columns |
| `utilities` | 9 years of every kind from 1899 to 65535, all months, 8 days, 8 zones; minutes reached by 7 amounts; seconds of 4 nanoseconds; data of up to 5 bytes of 4 kinds; the numbers 0 to 3999 and 3 more; up to 4 items of 5 kinds; 2 threads converting 6 texts, with 3 orders of 4 codes; 2 threads looking up 2 keys and 2 names in 2 lines; profiles of up to 3 lines of 6 kinds | texts, data and items are read back (31 May not asked); weekdays are right in zones less than 12 hours behind UTC or at most 12 ahead; comparisons (of timespecs `<`, `<=` and `=`), sums, differences and numerals are those of numbers; what the first use computes is right |

**Why these bounds.** Two threads exhibit every race of two calls. The
semaphore needs a third: a waiter, the one that releases, and one that
steals. For the singleton a third makes three ask at once, one of them for the
class another's constructor needs. `Modulus` 4 makes the counter wrap within a
few steps. In the pool one thread can hand over, one purge and one seek; two
connections are one more than the one a mistake would give to two threads. One `set()` more than the
one being notified is the smallest nesting and the smallest overlap. `MaxForks`
2 lets the second child inherit the first one's pipe; a pipe of one chunk
fills. The five kinds of surroundings are `fork()` failing, and `execve()` failing or signals
interrupting, each with and without a destination of the logger; a thread that left
its pipe open makes no other call, as another thread may make it. In `csv`, three fields of one name need two numbers; the inputs hold
each character that is treated specially, and quoting decides the rest field
by field. `CsvTableAssumption` relates the bounds of the table to `Wide`: the
tables a program makes have no more cells than can be counted, and no more columns
than `readCSV()` takes; what an assignment far beyond them does is still asked of
each of them (`CellsKept`). In `utilities`, two threads are the caller of the first conversion or
look-up and one that overlaps it; five bytes end in every place of a group of
three; two lines for one key make the maps differ. The bounds that stand in guards are `MaxSets`, `MaxMade`, `MaxQueue`,
`MaxForks`, `MaxChunks`, `MaxCalls`, `MaxRows`, `MaxCells`, `MaxSeconds`, `MaxBytes` and `MaxItems`; in `IOctxtWrapper`
a handler calls only `stop()`, `stopWhenIdle()` and `post()`. For the semaphore,
the pool, the observable, the logger, the singleton, the `IOctxtWrapper`, `Child`,
the CSV classes, and in `utilities` the first uses and everything that is a number,
the proofs below remove the bounds on everything but liveness;
that handlers call only those functions,
and that the cells of a table can be counted, remains.

`CHECK_DEADLOCK FALSE` stands in `ioctxt`, where a handler that calls back can
block for ever with the thread that joins it (a property of the code), in
`ioctxt_runhere` and in `csv`, where a program may stop. The other models say what
a finished program is (`Gone`, `Ended`, `Quiet`), so that anything else that
stops is an error.

**Fairness.** The specifications with fairness say: a thread inside a call
goes on (weak fairness of its steps). That covers what the code relies on: the
scheduler runs every thread, constructors of `T`, callbacks and handlers
return, commands read, write and end. Nothing is assumed of the program: it
need not call anything, drop a handle, or destroy an object. A mutex is only
weakly fair (one that stays free is got), as `std::mutex` promises no more; a thread can
wait for it for ever if others take it again and again. Therefore liveness is stated for
programs that make finitely many calls of any kind (`<>[][~NewCall]_vars => ...`; for
the observable `NewCall` is `addObserver`, `removeObserver` and `set`, from callbacks too):
then every call returns, because the mutex is taken only finitely often any more. Nothing is assumed of spurious wakeups, failing system calls, signals,
or of a copy of the program that a failed `run()` leaves, and its exit handlers.

## 5. What is proved

TLAPS checks the theorems for any number of threads, connections, observers,
streams, classes, processes and chunks, any width of the counters, any size of a
pipe, any texts and settings, any dates, clocks and numbers, and any codes, enumerations and profiles, from the assumptions on the constants that stand in the modules
(`SemaphoreAssumption`, `ConnPoolAssumption`, `ObservableAssumption`, `LoggerAssumption`,
`SingletonAssumption`, `IOctxtAssumption`, `ChildAssumption`, `TableAssumption`, `CsvAssumption`,
`HeaderedTableAssumption`, `CsvTableAssumption`, `NaiveDateAssumption`, `NaiveTimeAssumption`,
`TimespecAssumption`, `RomanAssumption`, `EntitiesAssumption`, `CoolEnumAssumption`,
`ChildEnvAssumption` and `UtilitiesAssumption`).

- **UtilitiesProofs**, of `Semaphore`. `TypeCorrect`; `NoLostWakeup`: `NoStrandedPermit` is an
  invariant; `ImplementsCountingSemaphore`: every step maps to a step of the
  abstract semaphore or a stutter. The inductive invariant is `TypeOK`, `LockOK`
  (the mutex is held by the thread whose counter says so), `OpOK` (where each
  operation can be), `ReadOK` (in `wait` the count is 0 and in `take` it is not,
  unless the destructor has begun: what was read under the mutex is still
  true), and `NoStrandedPermit`. The last is not inductive without `ReadOK`:
  going to sleep is right only because the count that was read is current.
  The steps compare cardinalities of the set of claimants.
- **ConnPoolProofs.** `UsedIsPooled`, `Exclusive`, `ConnectOnlyIfNoneIdle` and
  `PurgeIsComplete` with `TypeOK`. The inductive invariant adds `OnePlace` (a
  connection stands under one key of one pool), `Control` (one thread at most is past the mutex, and its
  locals belong to it), `KeyedByUser` (a connection in use that was not handed
  over stands under the key of its user), `StillIdle` (what was found idle under the
  mutex can become busy only through the pool, and so does not), `ScanAhead`
  and `PurgeAhead` (what was idle at the lock is still to be visited, or was
  noted).
- **ObservableProofs.** `TypeOK`, `NoDuplicates` and `UpdateOnItsWay`, whose
  conjunction is inductive. What `Erased` leaves of a list is shown for lists of every
  length: the library's induction theorems take an operator, but `WFMin` and
  `NatLessThanWellFounded` speak of sets, and give induction for sets of numbers
  (`SmallestNumber` and `NatInd`); with it `ErasedSteps` shows that the recursive function exists, and
  `ErasedProperties` that it drops the elements of `X` and repeats none.
  `LoopKeeps` is the argument of `UpdateOnItsWay`: a call takes an observer off its
  copy only to call it, and the callback reads what is then the value.
- **LoggerProofs.** `TypeOK`, `Settled`, `ExactIfUndisturbed`,
  `CurrentDestination` and `NothingLost`. The invariant has three parts: the
  shared fields are those of the old configuration, the new one or the stage
  in between that the holder of the mutex is at; each reader's locals are from
  a configuration it overlaps; each result is what those locals lead to. The
  lemma `NearValues` says which values a reader can see at all.
- **SingletonProofs.** `TypeOK` with the lock discipline, `OneInstance` and
  `NoneLeft`, for any relation of which constructor and destructor asks for which
  singleton, cycles included. The invariant says of every call, also of one that waits
  for a constructor it called, what it knows of the pointer (`Knows`): from
  the test of a null pointer to the end of the construction it is null, since the
  mutex is held all the while by this call and no other of the thread (`Locked`).
  `Registered` carries `NoneLeft` through the time before the end: every
  object has its `close()` registered, about to be registered, or running on the
  thread in `exit()`.
  The action property `ExitConstructsNothing` has an invariant of its own, `InOrder`:
  each `close()` is registered once, behind those of the singletons its object's
  constructor used (`Ordered`). Before `exit()` that rests on what the calls in
  progress have asked for (`Asks`), afterwards on what a `close()` that has been
  taken off the list still finds registered (`Finds`). The theorem assumes of the
  classes that a destructor asks for no singleton its constructor did not ask for,
  as `MCUses` does: otherwise the order of registration says nothing of the two,
  and a destructor may construct one that had been destroyed, or never was.

- **IOctxtWrapperProofs.** `TypeOK`, `OneGeneration` and `GuardKept`, for any number of
  threads and entries of `threads_`, and the first two for every nesting of calls out of
  handlers. `GuardKept` is a property of polite programs only: elsewhere `join()` may
  throw out of `stop()`, and the guard is not put back. The invariant says
  which function can be inside which, and where each of them can be (`Shape`); that
  the functions that are past their lock belong to one thread (`Mutex`), which is what
  makes the recursive mutex hold for a whole `stop()` inside `runHere()`;
  that every thread that runs has its entry in `threads_`, and that `threads_` is empty
  from the return of `stop()` to the next start (`Pooled`); and that entries without a
  thread are those that `stop()` has joined or `runThreads()` has still to start
  (`Kept`), so that in a program where threads can be made and handlers do not call
  back (`Polite`) no join throws and the work guard is put back. `FreeWorker` is a
  pigeonhole argument: while an entry is empty there is a thread to be had.
- **ChildProofs.** `TypeOK`, `StatusIsOwn`, `OutputComplete` and `NothingLeft`, in every kind of
  surroundings: with or without signals, failing `fork()`, and copies of the
  program. `StatusIsOwn` rests on `Own` (the pid a thread remembers is that of a process it
  forked) and `Unreaped` (while it has not waited nobody else has, unless a `fork()`
  failed and its -1 made some thread wait for any child). `OutputComplete` needs most of the
  rest: until a child is dead it holds the writing end of its parent's pipe
  (`Attached`), so that end-of-file means that nobody can write any more; no other
  process writes to it, though many may hold it (`OneWriter`); and a child that
  was not killed dies with nothing left to write (`Unwritten`). `Complete` says from
  end-of-file to the return that all was read. `Descriptors` and `Awaited` carry
  `NothingLeft` through the calls; it promises the descriptors where the logger has a
  destination or no signal interrupts, and the children where no signal does, and
  `Descriptors` says of the calls that ended in `ReadThrows` that their reading end is open. `Reserved` says that a thread about to fork
  has its place within `MaxForks`, which the type of `proc` needs.

- **CsvTableProofs.** `TypeOK`, `CellsFound` and `RoundTrip`, for any fields, texts and
  settings, and whatever text is read. The inductive invariant has the writer's part
  (`WriterGood`: what was counted is what was written, and between two calls no
  row is full, so that calls that throw on the way leave rows `Rectangular`; and
  what was written can be read, `ReadsBack`) and
  the table's (`TableGood`: all cells of its rows are there, `Sized`; the cache leads to
  columns, `Leads`; names are those that were given, or begin with them, and the
  cache has them all, `Named`). The recursive functions of the model exist by `Recursion`, an
  induction over sets of numbers as for `Erased`, and `Iterates` says what they are.
  `Reading` is the invariant of `readCSV()`'s loop over any text (`AfterTurns`): columns are
  counted before rows are read, and rows have all their cells as long as cells can
  be counted, of which `ReadTable` says what it returns. `Assigned` is the arithmetic
  of `cell()` modulo `Wide`: a cell has its place (`Place`), no other has it, and rows that
  are added are empty. For the names, `Spelling` and `SpelledApart` say that numbers
  are written, and no two alike; `NewName` that among as many numbers as there are
  columns one makes a new name; `OneRenamed`, `RenamedRow` and `UniqueRow` that the two loops leave all
  names apart, and each as it was or longer (`Extends`). That a name which was given is
  found in its column or one before is part of it (`Keeps`), and needs that a name
  is changed only when an earlier column has it.

  `RoundTrip` is about complete rows of fewer columns than `MaxColumns`, and not inductive: `ReadsBack` says, after any call,
  that whatever the text will be, if only it goes on with what ends a field, the
  reader comes to where the writer is (`Stands`), before the next field of the same
  rows or with the last one in its hands. A state that it `Reaches` is one that some turns of
  its loop lead to, and each of `FieldRead`, `SeparatorRead`, `LineEndRead` and `EndReached` takes it
  over one thing the writer prints. A field is read by an induction over its characters, as it
  is (`PlainRead`) or in quotes with its own doubled (`QuotedRead`, over the places
  `DoubledPlaces` finds them in); `Holds` says which cells the table has by then, and `HoldsCell` and
  `HoldsRow` what one more makes of it. The condition on the rows (`Readable`, that of
  `Legible` for a row that is begun) is part of it, because rows that cannot be
  read may be written, and others after them.

- **UtilitiesProofs**, of `Utilities`. `UtilitiesTypes`, `FirstUseIsRight` and `NumbersAgree`.
  The module holds the semaphore's proofs as well, which it does not use: it
  is about the classes that stand alone. `UtilitiesIInv` has one part for each kind of program.

  What a first use computes. `EnumIInv` follows the maps of an enumeration as lines are
  put into them: unless calls overlapped, one thread fills them (`OneFills`), and what the
  maps hold is what the lines up to the one it is at say (`WellFilled`; `WellBetween` while only the first
  map has a line); after memory ran out they hold some lines, rightly but for an
  empty name (`PartlyFilled`). `EnvIInv` says that the environment is what the program told
  before a profile was read, and afterwards has besides the variables of the
  lines up to a broken one (`ProfileDefines`). `EntIInv` has `CallsKept`: at any
  turn of any conversion there is a set of codes in the original text such that the text is the
  original with these replaced (`Stands`), which needs no more than that a
  conversion looks for an ampersand and then for the next semicolon; and, for the calls that
  overlapped nothing, they are all that are not `Hidden` and begin before the place that
  was reached (`GotTo`). It rests on `OneCounts`: such a call finds `maxlen` 0 and counts alone (`CountsAlone`),
  or finds the length of the longest code (`CountIsDone`).

  Numbers. `DatesCompare`, `TimesCompare` and `TimespecsCompare` say that comparing fields from
  the largest to the smallest compares the numbers; that of dates rests on what a month and a year add
  to `DayNumber` (`MonthEnds`, `YearLength`). `WeekdayIsOwn` compares `weekday()`, by the seconds since
  the epoch, with Zeller's congruence, by whole weeks, in the zones where both count
  the same day. `MinutesAdded` and `TimespecsAdded` are the carries. `RomanRight` is
  about every number a `uint16_t` can be: the walk from M to I has an invariant (`Walked`), that the value of what is written and
  the remainder are the number together, that the text is `Formed`, and that the remainder is too small for
  any larger numeral; below 4000 it has besides `NoFour` alike in a row. One turn writes a numeral as often as it fits
  (`FilledUp`, `FilledCounts`) and then perhaps a pair (`PairCounts`, `PairForm`).

  The folds and recursive functions of these models are understood by `Recursion` (as in
  `CsvTableProofs`) and `SetRecursion`: for a fold over a sequence or a set there is a function of the steps
  it takes (`Iterates`, `GoesThrough`), and an induction over a set of numbers goes along it.

The proofs were laid out after TLC had checked each invariant as such, but for
`ReadsBack`, which is about texts of any length.

**Model-checked only.** Liveness (the prover has no rules for fairness here),
and `ReadBack`, which is about functions that write and read texts character
by character, over bounded inputs.

## 6. Findings

Three runs are expected to end in a violation, each of something the
repository says:

- `semaphore_destruction`: a thread can sleep for ever in `dec()` of a semaphore
  whose destructor has set the flag and notified, because the destructor does
  neither under the mutex.
- `logger_race`: the class has an "internal mutex to be MT safe", but `log()`
  reads outside it. While `syslog()` switches from a stream there is a moment
  with neither, and the entry is lost with an exception, or dereferences null.
- `ioctxt_runhere`: `stopWhenIdle(false)` is to keep the context running for
  ever, but `runHere()` begins with `stop()`, and nothing calls `restart()`.

Further observations that shape the properties, each at its line under
`hazards`: macros that throw dereference a null string when the entry is
filtered; `runHere()` holds the mutex while the context runs, so that `stop()`
of another thread waits for its end; `fork()` returning -1 is passed to
`waitpid()`; a quoted field that ends a file without a line end is lost;
`endRow()` before the first field writes an empty header; a look-up by name in a
table with two empty headers throws for the first and names the second; headers
changed after the first look-up are not found; sizes of tables wrap at 2^32
cells; an observer that was removed may still be called by a `set()` that copied
the list before; a failed command runs the program's exit handlers in the child.

The code and the repository's own words also part where the properties below
say nothing, on purpose: neither what the code does nor what was meant is
promised there.

- May has 30 days in the code, so that `iso8601(text)` refuses 31 May, `valid()` denies it
  and `weekday()` and the comparisons throw, against `NaiveDate.hpp` (lines 91-103 and
  140-142), which excepts only dates that are not valid. `ReadBack` leaves it out.
- `iso8601()` writes any date whose three fields are set, also 31 February, where
  `NaiveDate.hpp` (line 103) announces an exception. `ReadBack` asks only that such a text is
  refused when it is read.
- `weekday()` goes through noon UTC and the local zone, and so is a day off in zones
  twelve hours or more behind UTC, or more than twelve ahead, though a `NaiveDate`
  is to know no zones (`NaiveDate.hpp:38`, `:145`). `OwnWeekday` is about the others.
- Years of five digits are written but cannot be read. `ReadBack` is about four.
- `>`, `>=` and `!=` of timespecs are always true. `AsNumbers` mentions only `<`, `<=` and `=`.
- An interrupted `read()` in a program whose logger has no destination leaves the
  pipe open and the child unreaped; `NothingLeft` excepts it.
- A handler that calls `stop()`, or a thread that cannot be made, lets `join()` throw
  out of `IOctxtWrapper::stop()` before the work guard is put back
  (`IOctxtWrapper.cpp:59` and 69-71); `GuardKept` is about polite programs.

`FirstUseHolds` has these, as exactly as the code has them: two overlapping first
conversions can leave `maxlen` smaller than the longest code, and then no call
ever replaces that one; a code closely behind a lone ampersand is not replaced
(`Hidden`); an enumeration whose first look-up ran out of memory stays incomplete,
and may give an empty name; a line of the profile that ends in its equal sign
makes the first `run()` throw, and later ones pass on the part that was read.
`toRoman()` subtracts from any larger numeral, so that 99 is IC (`RomanIsNumber`).

## 7. What is not modelled

`epoch2iso8601()` only formats a time of the C library (0 stands for now). The
profile of a child is a regular file that is read as it was opened, and the
checks of a command's path are a choice between its being set and nothing.
Line and character numbers of `readCSV` and texts of messages are left out, and so is
the byte 0xFF, which `readCSV` takes for the end of its input where `char` is signed, as
are data races on fields of machine word size: a read sees the old or the new
value. A look-up in an enumeration's maps that another thread is filling may
give anything; that it may also crash or corrupt them for others is beyond
what a state can say. `runchecks`, `Tracer` and `template_main` hold no logic of
their own beyond loops over their input or start-up glue, and `chk/` and `tst.cpp`
are users of the library: what they do is among what the programs of the models
do. Shell scripts and build files are not part of the program.
