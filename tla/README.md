# A TLA+ model of the solenoid optimizer

The repository drives a motor or solenoid from a Raspberry Pi: it sets the
range and duty of a PWM pin, measures the linear acceleration with a BNO055
sensor on a serial line, and searches the setting that maximizes (or minimizes)
it with CMA-ES (a vendored copy of libcmaes). This directory models the control
of both halves: on the Pi the serial protocol, the sampling thread, the motor
program and its signal handler, the PWM registers, the csv file and the Python
reader; of the optimizer the search loop, one generation in detail, restarts,
the front end and its parameters, bounds and scaling, surrogates, and the error
statistics. Numbers the control only compares are abstracted to what the
comparisons tell apart.

## Inventory

| part | state it keeps | operations | used by |
|---|---|---|---|
| `shared/rpi_uart` | tty queue, `is_open`, the locals of `receive_buf` | `open`, `flush_data_buffers`, `write_buf`, `receive_buf`, `read_byte` | driver (calls) |
| `shared/bno055_uart` | `is_open`; page, mode and IDs live in the chip | `open`, `start` (`init_port`, ID checks, `hw_reset`, `awake`), `get_linear_acceleration`, `sleep` | sampling thread (calls, under its mutex) |
| `shared/bno_thread`, `singleton` | `m_x, m_y, m_z`, `m_mutex`, `is_running` | constructor, reader loop, two getters, destructor | motor program (shared memory) |
| motor program `main.cpp` | candidate, averaging window; the pin is outside | `main`, `fsphere`, `set_PWM_*`, `sig_handler` | processes started with `popen`, SIGINT, a callback from libcmaes |
| `set_pwm.cpp` | the setting | `main`, `set_PWM_*`, `sig_handler` | the same pin and commands |
| `canakit_common` | `retBuf`, connection type | `popen_cmd`; relay commands | both PWM programs (only `popen_cmd`) |
| `shared/rpiPWM1` | frequency, resolution, duty, mode; the registers | constructors, setters, destructor | nothing in the repository |
| `shared/csv_reader`, `config_store` | a map and its file | read, add, remove, get, write | nothing in the repository |
| `bno055_uart_interface-python` | serial port, queue, `keep_running` | `UART_thread.run`, the measuring loop | the same sensor, a program of its own |
| libcmaes search (`cmastrategy`, `esostrategy`, `cmasolutions`, `candidate`) | population, best candidates, history, counters | `optimize`, `ask`, `eval`, `tell`, `stop`, elitist restart | motor program; IPOP, BIPOP, surrogates |
| libcmaes stopping criteria | none (reads the solutions) | `stop` | the search |
| libcmaes parameters | flags, budget, targets, derived rates | setters | front end, every strategy |
| libcmaes front end (`cmaes.h`, `surrcmaes.h`) | none | `cmaes`, `surrcmaes` | the user of the library |
| IPOP, BIPOP | best run, budgets, population sizes | `optimize` with restarts | front end |
| bounds, scaling, `genopheno` | a box and a scaling per dimension | `pheno`, `geno`, `remove_dimensions` | the search (every evaluation), error statistics |
| surrogate strategies | training set, model, life length, error | `ask`, `eval`, `tell`, `optimize` | front end |
| error statistics | profiles, contours, the locals of the searches | `profile_likelihood`, `contour_points`, `cross` | the user, after a search |
| covariance updates, sampling | matrices and vectors | numerical | the search |
| timers, scripts, test programs, python binding | none | I/O and forwarding | nothing here |

What makes each part correct, and where it is hard:

* **Serial port and driver.** A reply must be read completely and belong to the
  request it is taken for; the buffer bound must hold whatever length the line
  delivers; `start()` must leave a genuine sensor configured, although its reset
  undoes settings. Hard: `read()` does not block, so every byte may come late;
  nothing has a timeout; error answers come in the middle; an earlier run may
  have left bytes.
* **Sampling thread.** Three doubles that belong together are rewritten in up to
  seven steps by one thread and copied by another; the thread must be stoppable.
  Hard: interleavings, and failed readings that still change the members.
* **Motor program and `set_pwm`.** A measurement belongs to its own setting; the
  pin ends low, at the end and on SIGINT. Hard: SIGINT at any point, inside a
  getter with the mutex held or while a command shell runs; commands that fail.
* **PWM registers.** What the getters say is what the peripheral puts out, to
  within a count. Hard: some setters write all registers and some one, a duty is
  told in percent and written in counts, and some setters refuse half way.
* **csv file.** A restarted process finds what was last written. Hard: the file
  is emptied before it is written, and results of writing are ignored.
* **Python reader.** A read is given its own answer. Hard: the thread cuts the
  answer anywhere and the queue is cleared without the port.
* **CMA-ES search.** The best seen candidate is the best seen, also across
  reinjections and restarts; elitism does what it says; the budget is kept; the
  search ends; the ranking is by value and two-point adaptation reads its own two
  points off it. Hard: NaN comparisons, uninitialized fields, the order of
  reinjection, sorting and recording, ids that move when a gradient is injected.
* **Restarts.** The best run is returned, the budget bounds all runs together,
  the loop ends. Hard: two counters of calls, one of which every run resets.
* **Front end and parameters.** Rates and matrices fit the algorithm asked for.
  Hard: setters scale what earlier setters derived, and objects are used again.
* **Bounds and scaling.** Points are evaluated inside the bounds, and the search
  starts where it was told. Hard: shifts by periods and two quadratic pieces, of
  which `geno` inverts only one branch, and converters and parameters from which
  error statistics remove dimensions in different orders.
* **Surrogates.** A model pre-selects only if trained on its training set, of
  this run; what is recorded as best was really evaluated. Hard: training set,
  model and sorting change in different calls of one generation.
* **Error statistics.** Bounds come from points the searches stored; a contour
  stays a closed curve. Hard: searches that give up half way, an index that moves
  with every insertion.

## Modules

| module | models | notes |
|---|---|---|
| `RpiUart` | `shared/rpi_uart.cpp` | one action per byte taken, as the loop does |
| `Bno055Uart` | `shared/bno055_uart.cpp` over `RpiUart` | plus the external sensor |
| `SampleRegister` | what `bno_thread` promises: one register | abstract specification |
| `BnoThread` | `shared/bno_thread.cpp` | implements `SampleRegister` |
| `MotorDriver` | `main.cpp` over `BnoThread` | plus command shells, pin, SIGINT |
| `PwmRegisters` | `shared/rpiPWM1.cpp` | one action per setter |
| `CsvStore` | `shared/csv_reader.cpp` | one action per operation, and per pair written |
| `UartThread` | `write_read.py`, `mod_common/uart.py` | both threads, byte by byte |
| `PiPrograms` | `set_pwm.cpp`, and the choice of a program | composes the five above |
| `CMAStrategy` | `optimize()` and what it calls | any population may follow |
| `Generation` | one `ask`, `eval`, `tell` | columns of the population |
| `Restarts` | `ipopcmastrategy.cc`, `bipopcmastrategy.cc` | one run of `optimize()` is one step |
| `CMAParameters` | `cmaparameters.h/.cc`, `parameters.h` | operators, one per setter |
| `FrontEnd` | `cmaes.h`, `surrcmaes.h` over `CMAParameters` | the user's calls, then a search |
| `GenoPheno` | `genopheno.h`, `scaling.h`, `pwq_bound_strategy.cc` | one coordinate |
| `Surrogate` | `surrogatestrategy.h/.cc` | both strategies |
| `ProfileLikelihood`, `Contour` | `errstats.cc`, `pli.h`, `contour.h` | the second over the first |
| `Optimizer` | the choice of a part of the library | composes the seven above |
| `*_proofs` | theorems of the module they are named after and of those it extends | eight modules |
| `MC*` | values of constants for TLC | |

**RpiUart, Bno055Uart.** `line` is what the device has sent and the program has
not read; the first `arrived` bytes of it are in the tty's queue. `read()` that
finds nothing leaves `c` at 0. In the header, length and data rounds this changes
nothing and is a stuttering step; in the round for a status byte it decides the
result and is the action `SplitStatus`. `at` is the register operation the driver
is at; an operation goes through `phase` `call`, `wait`, `done`, and `StartStep`,
`LinaccReturn` or `SleepReturn` continues as the C++ callers do. `requests` is
what the sensor has been asked and has not served; it may answer at any time,
with the data, an acknowledgement or an error. `reply` and `split` are history:
the answer sent for the current operation, and whether an answer was ever left
half read. The sensor is not in the repository; it is modelled from what the
code expects of it and marked external.

**SampleRegister, BnoThread.** A value is the number of the reading it comes from
and how often it was divided by 100, because a failed reading divides the old
value once more. The reader stores and divides one axis per step. `published` is
history (the members at the last unlock) and is what `SampleRegister`'s register
is mapped to; `got` is what a getter call returned. `silent` is the sensor no
longer answering, with the reader inside `receive_buf` and the mutex held.
`PROMPT_START` is the assumption behind `usleep(1000)` in the constructor.

**MotorDriver.** `pc` is where `main()` or the handler is. A command line runs in a
shell, an external process with a list of commands; `pclose` waits for the list to
be empty. SIGINT leaves `main()`'s shell running or, from a terminal, ends it too.
`exit()` runs the destructor of a constructed singleton on the thread that called
it. The optimizer is the choice of the next candidate. `range` and `duty` of a
candidate are one model value: the program never treats them differently.

**PwmRegisters.** A percentage is one of `PARTS` parts of the period, finer than a
count as doubles are. Conversions are the sets of what rounding may leave:
`setDutyCycleCount` stores a percentage on either side of the exact one
(`Percents`), and the two truncations give the integer below or, where the exact
quotient is an integer that rounding may miss, one less (`BitCounts`, `Divisors`).
So 29 of 100 counts, which the code stores as 28.999..., may come back as 28 from
`setMode`. `field` are the members, `reg` the registers; `refused` is history:
`setMode` stored a mode and dropped the refusal of the duty cycle that would have
gone with it. A divisor that does not fit ends the process (`exit(-1)`).

**CsvStore.** The file is the set of its pairs; the map is written pair by pair in
any order, as an unordered map is. A process may die or a write fail at each of
these steps, and what stdio has passed on is then any part of what was written,
with at most one value cut.

**UartThread.** A byte is the read it answers and its place in the answer, so that
mixing two answers shows. `queue` holds chunks, as `readline` returned them: it
may end after any number of bytes. The two threads interleave at every access to
the queue, the port and `keep_running`.

**PiPrograms.** A behaviour is one program (`program`); `set_pwm` uses the
variables of `MotorDriver`, since it issues the same commands to the same pin and
installs the same kind of handler. The modules stay separate because the programs
do: nothing in the repository links two of them.

**CMAStrategy.** A candidate is its function value (`NONE`, -1, for the NaN of an
empty one). `ask` and the distribution update are the choice of any population;
`Iterate` is one round of the loop: evaluation, reinjection, sort, recording,
counters. `Certain` are the stopping criteria decided by the state modelled,
`Possible` those on the distribution or on medians, which may hold when their
guards on sizes allow; the first that holds, in the order of the codes, wins.
`best_seen_iter` starts with any value of `UNINIT`, as no constructor sets it.
`low`, `lost`, `calls`, `wild` are history. The function is taken to be
deterministic: a restart evaluates the best seen point again and gets its value
(the motor program's function is a measurement and is not, but it sets no
elitism). The counters `nevals` and `calls` stop at `CAP`, past every bound
compared with them.

**Generation.** What `CMAStrategy` takes as any population, opened up: a candidate
is what put it into its column (sampled, gradient, a point of the two-point
adaptation, elite), its id and its value. `Ask`, `GenerationEval` and
`GenerationTell` are the three calls, each a whole handler: reinjection, second
evaluations, both sorts and the ranking with its comparator as written.

**Restarts.** One run of `CMAStrategy::optimize()` is one step; its number of
iterations, its last best candidate and its status are any that `CMAStrategy`
allows of a run without elitism on restart. Step sizes are left out. BIPOP's
`_max_fevals` starts with any value of `Uninit` in the constructor that does not
assign it.

**CMAParameters, FrontEnd.** A derived quantity is how it was derived: how often
and by which setter `c1` was scaled, for how many free dimensions `chi` was
computed. The user calls setters in any order and starts any number of searches
with the same object; `asked` remembers the orders of calls the properties
exclude. `opt` is the strategy built: its copy of the parameters, the update
function, and which matrices its solutions hold.

**Surrogate.** The ranking SVM is `none`, `fresh` (trained on the training set as
it is) or `behind`, and predicts any value. A point of the training set is whether
the objective gave its value, and in which run.

**GenoPheno.** Dimensions do not mix, so a state follows one coordinate of one of
them, as an integer of which `UNIT` make 1; a phenotype is multiplied by `Grain`,
which makes the quadratic pieces of the bounds exact. Rounding of doubles is left
out. The user's own function adds `CUSTOM`. `gp` is the user's object, a converter
per parameter; `held` says whose converters the object of the search holds, `kept`
which parameters the search moves. The two are the same until `errstats` fixes
parameters: `remove_dimensions` goes through the fixed ones in ascending order, by
their old places, and the start and the objective's argument in descending order.
`geno()` returns one of a set: `Garbage` where the code returns a vector it never
filled (`Unfilled`).

**ProfileLikelihood, Contour.** A point is its function value, and what the
function gives at a new point is a choice. Positions along the line of `cross()`
are kept as an order. A contour point is its number; `between` is the index at
which the next one goes in.

**Optimizer.** A behaviour uses one part of the library (`use`). The parts call
each other through `optimize()`, which each of them models by what `CMAStrategy`
checks of it, so that their product would show nothing further.

## Runs

| run | expectation | what it shows |
|---|---|---|
| `uart` | pass | operations start on a silent line, return their own answer, stay in the buffer; `start()` succeeds only on a configured genuine sensor; everything ends |
| `uart_split` | violation of `AckedWriteSucceeds` | an acknowledged write fails when its status byte comes late |
| `uart_reset` | violation of `ResetReturns` | `hw_reset()` hangs with the chip its comment describes |
| `thread` | pass | no torn reading; the threads implement the register; `join` returns |
| `thread_failure` | violation of `FailureReported` | getters hand out failed readings |
| `driver` | pass | own setting measured; pin low at the end; SIGINT stops the motor and, outside two cases the property names, the process (`set_pwm` included); PWM registers agree with the getters to within a count; a restart reads back the csv file; a Python read gets its own answer |
| `signal` | violation of `LowAfterSignal` | an orphaned shell sets the duty after the handler cleared it |
| `cmaes` | pass | best seen, elitism, budget, termination |
| `cmaes_best_seen` | violation of `BestSeenAlongRun` | reinjection overwrites a new best |
| `cmaes_restart` | violation of `RestartAfterThree` | an uninitialized field decides a restart |
| `optimizer` | pass | error bounds come from the searches, contours stay closed; the best run is kept within the budget; rates and matrices fit the algorithm; ranking and two-point adaptation use the right candidates; surrogates pre-select with a fresh model and record true values; points are evaluated inside the bounds and the search starts at x0; the calls return |
| `surrogate_sorted` | violation of `SortedForUpdate` | the generation that fills the training set reaches the update unsorted |

Bounds, and why they are enough:

* `uart`: a buffer of 6 bytes instead of 255 and 2 data registers instead of 6.
  That leaves the same cases (short, full, clipped replies): a stray length byte
  of 187 runs into the buffer's end, and removing the bound is noticed. Data bytes
  are 0 and 187, the ones that can pass for a header. Three readings and one fault
  are what it takes to desynchronize the line and come to that case. `MAX_BACKLOG`
  bounds how far the line may fall behind, and cuts only runs that are already
  desynchronized.
* `thread`: 3 readings and 3 divisions told apart; the counters stay at their
  bound. A torn value needs two.
* `driver`: two settings and two evaluations (a setting and the one before), one
  failing command, one SIGINT; a second SIGINT is not modelled. Readings are
  bounded by 1, as `thread` looks at them. PWM: the true oscillator and divisor
  limit, two frequencies, and two resolutions of which one divides the 16 parts and
  one does not; one pair exceeds the divisor's limit, and the first and last counts
  are percentages that `setDutyCycleForce` refuses (`MARGIN`).
  csv: two keys and one that looks like a comment, values that are empty, a prefix
  and with a comma, and four operations or failures: write, die in the next
  write, start, die again. Python: two data bytes of 44, three reads and one error
  of the port (an answer, an error's answer, and the one after it).
* `cmaes`: 4 candidates (the least with "fewer than half" between 0 and 2), three
  values, histories of 2, 26 calls: up to six rounds and two restarts with x0.
* `optimizer`, error statistics: values below, at, above and far above the minimum
  in units of `FUP`; two cells on either side (the closest to `fup` is a choice),
  one, two and three dimensions; six contour points (the first four are the
  profiles' own), two attempts at a third point.
* `optimizer`, restarts: a first population of 2, budgets of none and 9 calls, up
  to 3 restarts. With populations of 2, 4, 8 nine calls is the least budget at
  which forgetting what earlier runs spent is noticed. `MAX_IDLE` bounds small
  runs in a row that end before their first iteration.
* `optimizer`, generation: 3 candidates, which the gradient and the two points of
  the adaptation fill, three values, the second candidate evaluated again; the
  theorems are for any population.
* `optimizer`, front end: two calls after the parameters are set up in any order;
  scalings are told apart up to the second, and one dimension may be fixed.
* `optimizer`, surrogates: 2 candidates, training sets of 2 and 3 (filled in the
  first generation, or in the middle of the second), three generations, one
  restart; `PRESCALE` 2 stands for the code's 50.
* `optimizer`, genotype: 20 units to 1 and samples that cover several periods of
  the widest box, its edges and their neighbours; a box as narrow as its margins.
  Three parameters, the least of which a contour leaves one, and which has all
  cases: the second fixed one last, or with a successor. Unfilled vectors hold two
  values, inside and outside the boxes.

Fairness. Both threads, the command shells and the wire are scheduled, and the
sensor serves what it was asked, unless the property allows for silence
(`silent`) or a run takes the answer away (`RESET_ACKED = FALSE`). Error answers,
failing writes, silence and SIGINT are never required to happen. The getter has
strong fairness in `MotorDriver` and `PiPrograms`: `std::mutex` is not fair, but
the reader sleeps 5 ms after every reading. `WindowCloses` has it because time
passes. `main()` of `set_pwm` and its shells are weakly fair.
`optimize()`, the restart loops and the profile searches are sequential calls, so
their steps are weakly fair; `Generation`, `FrontEnd`, `Surrogate`, `GenoPheno`,
`PwmRegisters`, `CsvStore` and `UartThread` have safety properties only and need
none. Deadlock is not checked: the programs and calls end.

Each passing property names the cases it excludes, and each exclusion is a
behaviour of the code, not of the model:

| excluded | in | because |
|---|---|---|
| `split` | `NoLeftovers`, `OwnAnswer`, `StartedConfigured` | an answer left half read, the finding of `uart_split` |
| `overlap` | `LowAtQuietEnd`, `SigintStopsMotor` | a shell left running, the finding of `signal` |
| `fails` | `OwnSetting` and these two | results of `popen` and of the commands are cast to void |
| `mutex = "main"`, `silent` | `SigintEnds`, `EvaluationEnds` | the handler's `exit()` joins a reader that waits for the mutex the interrupted getter holds; a silent sensor keeps the mutex |
| `lost` | `NoneLost` | a reinjection overwrote a new best, the finding of `cmaes_best_seen` |
| `wild` | `Budget`, `Terminates` | the field of `cmaes_restart` |
| `refused` | `RegistersFollow` (the mode only) | `setMode` returns 0 although its write was refused |
| `torn` | `RestartReadsBack` | a write that failed or was cut; then only one pair may be wrong, and none is made up |
| `cut` | `BoundsFromSearches` | `maxiters` ends a search and leaves zeros in the table |
| `x[k] = 0` | `CallsReturn` | the first step of the search is a multiple of `x[k]` and never leaves it |
| `MAX_IDLE` idle small runs | `CallsReturn` | a run that ends before its first iteration adds nothing to the budget the loop waits for |
| first run NaN | `BestRunKept` | nothing compares as less than the NaN kept first |
| `injected` | `TpaRanksOwn`, `QuietRanking` | the elite takes a candidate's column, and is ranked by its value |
| `again`, `wiped`, `unfixed`, `LeftFlag` | `RatesAsAsked` | setters repeated, undone by `set_noisy`, or left from another algorithm |
| a vd flag left, sep from a solution | `RepresentationFits` | flags are never cleared; a solution with a covariance has no `sepcov` |
| `moved` | `ContourGrows` | `cross()` replaces a value and keeps the solution it came from |
| x0 next to a bound, a user's function | `StartsAtX0` | the mean is not taken through the inverse there |
| the parameter behind a contour's second | `EvaluatedAsMeant` (gets its predecessor's box) | the second removal goes by an index the first has moved |
| `Unfilled` | `EvaluatedAsMeant` (the value held, not the bounds) | `geno()` returns a vector that was never filled |

## Findings

Listed in `PROJECT.json` with the lines: the four violations of what a comment
promises in the motor program's stack, two in the search, and one in the
surrogate strategy, whose `tell()` decides whether to sort by looking at a
training set that `eval()` has just extended (`surrogatestrategy.cc:277`).

Met while modelling, and without a run, since no line promises otherwise:

* `set_elitism(0)` copies the restart flag instead of clearing the others
  (`cmaparameters.h:246`; modelled, so `cmaes` explores it).
* `do_2dcmaes` returns the last iteration's best value with the best seen point and
  negates it also when minimizing (`main.cpp:279-288`).
* Without `PROMPT_START` nothing makes "ready when returned" (`bno_thread.cpp:31`)
  true, and a destructor that overtakes the reader's first statement never joins.
* A contour of a function of two parameters never gets more than the four points of
  its profiles: with both parameters held nothing is left to optimize.
* A parameter that is exactly 0 at the minimum makes `take_linear_step` double a
  step of zero for ever: the first step's rounds are not counted.
* `remove_dimensions` removes in ascending order, by indices of the full vector
  (`pwq_bound_strategy.cc:129`). In a contour, the parameter behind the second fixed
  one is bounded and scaled as that one, and if the second is the last, nothing is
  removed for it: bounds do no harm then, a scaling is too long and Eigen asserts.
* With a scaling, no bounds and a user's function, `geno()` has `genof` write over its
  argument and returns a vector nobody filled (`genopheno.h:313-315`).
* A count set with `setDutyCycleCount` may be one less after `setMode`, since the
  percentage is truncated (`rpiPWM1.cpp:243`, `:267`); and a count of nothing or of
  all is a duty `setMode` cannot write, which it does not report (`:287`).
* `ContourGrows` looks at indices and values of contour points. Where a point lies is
  not modelled, so the clamp of the next start (`errstats.cc:503-504`) is not seen.
* The flags of `set_sep` and `set_vd` are never cleared: parameters used again for
  another algorithm keep them. The sep cases of `cmaes.h` (253, 276, 301, 325)
  that start from a solution drop the plot function.
* BIPOP's constructor from a solution leaves `_max_fevals` uninitialized.

## Proofs

All theorems hold for every value of the constants under the `ASSUME` of the
module.

* `Bno055Uart_proofs`: `TypeCorrect`, `BufferSafe`, `SilentStart`, `AnswersMatch`,
  `StartConfiguresSensor`. For the first two the invariant is the type invariant,
  `BufferInBounds` and `Counted` (a positive result is the number of bytes stored).
  They need each other: the result fits its type because of the
  bound on `i`, and a sample is a sequence of bytes because the result counts
  what was stored. `RoundInBounds` is the heart: the loop's condition leaves room
  for one more byte. `SilentStart` and `AnswersMatch` rest on `Exchange`: between
  operations the line is silent, and within one it holds the rest of the answer
  to it, whose first `i` bytes are what the loop has taken and stored. For
  `StartConfiguresSensor`, `Configured` says what is known of the chip at each step
  of `start()`: the ID poll after the reset is what shows it genuine and back on
  page 0, the acknowledged mode write what puts it in NDOF. All hold for unsigned
  `char`, and for signed `char` as long as a reply has at most 127 data bytes
  (`BnoAssumption`; the code reads at most 6).
* `MotorDriver_proofs`, of `BnoThread`: `ThreadTypeCorrect`, `NoTornReads`,
  `MembersArePublished`, `ImplementsRegister`. Mutual exclusion (`LockHeld`) and what
  each thread has done so far in its section (`Rewriting`, `Copying`: the axes before
  the index are new, the others old) are what makes it inductive. The refinement
  maps `ReaderUnlock` to `Publish`, `FetchUnlock` to `Fetch` and the rest to
  stuttering. Of `MotorDriver`: `DriverTypeCorrect`, `MeasuredUnderOwnSetting`,
  `EndsLow`. `Commands` says, for every place of `main()` and the handler, what the
  commands still in the shells will leave on the pin; with `Ending` (what has happened
  once the process is going) it is inductive as long as no command failed.
* `PiPrograms_proofs`, of the tools: `PwmTypeCorrect`, `GettersTellRegisters`
  (`RegistersFollow` is inductive but for the resolution: that a count is within one
  of the percentage stored for it needs a resolution no finer than the percentages.
  `TruncatedIs` bounds what a truncation may give, for every quotient);
  `UartThreadTypeCorrect`, `ReadsOwnReply` (`ReplyIsOwn` speaks of one place of `main()`; `Stream` says where the bytes of an
  answer are on their way: what was received, the queue, the thread's chunk, the
  port and the bytes to come are consecutive pieces of the one answer of this read,
  and everything is empty, `Silent`, when the next is sent); `RestartsFindTheMap`
  (what a process finds depends on how far the last writing came, `WrittenOut`, and
  on what was left of its last line, `CutOff`: every pair of the file but one is a
  pair of the map that was written). Of the programs together: `PiTypeCorrect`,
  `PiOwnSetting` and `PiEndsLow` (`set_pwm` too: it keeps the motor program's
  invariant, and main's place is one of two), `PiRegistersFollow`, `PiReadsOwnReply`,
  `PiRestartsFindTheMap`.
* `CMAStrategy_proofs`: `TypeCorrect`, `BestIsKept` (`NoneLost`), `NeverGetsWorse`,
  `ElitismKeeps` (`ReferenceKept`), `BudgetKept`. `NoneLost` needs that kept
  candidates were counted in `low` (`Evaluated`), that an active elitism has
  something to reinject (`HasReference`), and that a search without a best seen
  candidate is at its first iteration (`FirstRound`). `ReferenceKept` adds how the
  elitism flags exclude each other (`FlagsAgree`), and `Budget` what a run has
  spent by the iterations behind it (`Spending`). That a set of values has a least
  one comes from the well-foundedness of the naturals.
* `Generation_proofs`: `TpaFollowsItsPoints`, `RanksByValueInQuiet`. `GenInv` says what
  the columns hold after each call while no elite replaced one. `tell()` only
  permutes them, so the id of a point finds its rank (`RankIsOwn`). When second
  evaluations agree with the first, both rankings agree and every delta is 0, the
  comparator of the last sort orders by value on such candidates (`QuietOrder`),
  and each term of the sum of `_suh` is minus two quantiles, which are at least 0
  (`QuantileIs`). That sorting orders exist and that a sum of such terms is one
  are inductions over finite sets, got from a least counterexample (`AllOf`).
* `Surrogate_proofs`: `PreSelectionIsFresh`, `BestIsTrue`. Outside `tell()` a full
  training set is one the model was trained on, and its points are of this run
  (`Trained`): the reset at a run's start leaves a set that is not full, and `tell()`
  trains again exactly when it is. For the recorded best, `Genuine` says that some
  candidate was evaluated and that those that were not have a greater value than
  any that was; the stable sort, given explicitly by the place of each candidate,
  brings an evaluated one to the front (`SortedGenuine`).
* `Contour_proofs`: `BoundsAreSearched`, `ContourStaysClosed`. `PLInv` says what the
  table holds while the two directions are searched: when the second begins, the
  cells of the first are filled (`Filled`), unless `maxiters` cut it, and what was
  filled without a curve bounds at `fup`; the cell `minCoeff()` picks is therefore a
  point of its own direction or the minimum. `CInv` says that the points are
  numbered in the order they were found, so the new number is in the sequence once
  (`Numbered`), and what the locals of `cross()` hold (`Crossing`): the solution kept
  for a point has its value unless `flsb` moved alone, and in two dimensions no
  value reaches the aim. What an insertion does to the neighbours, modulo the
  length, is in lemmas about sequences alone (`InsertedInside`, `GrownAround`).
* `Optimizer_proofs`, of `Restarts`: `RestartsKeepBudget`, `BestRunIsKept`. A run is
  started only within what its strategy grants it (`Granted`) and overshoots it by
  less than a population (`RunCost`); `Captured` says of every moment what
  `BestRunKept` says of the return. Of `FrontEnd`: `RatesFit`, `SolutionsFit`. Every
  setter keeps the relation between an object's flags and what was derived from them
  (`Good`), or is noted in `asked`; `Made` says what the constructors add, and that a
  restart keeps it. Of `GenoPheno`: `ObjectiveSeesTheBox`, `SearchStartsAtX0`. Every
  converter that is built takes the bounds of its strategy to the box of its
  parameter (`Fits`, `ConverterFits`). `Places` says which converter each parameter
  searched is left with: its own, but for the one behind the second fixed parameter,
  which follows from where the two orders of removal leave every element
  (`HeldWithoutTwo`, `KeptWithoutTwo`, for any number of parameters). Then
  `shift_into_feasible` folds every number between the margins (`ShiftIs`), the
  quadratic pieces stay inside the bounds and meet the identity (`ToFIs`), and the
  inverse takes a value to a number that is folded to it, since the roots it takes are
  of squares (`RootIs`, `GenoReturns`). Of `Optimizer`: `OptimizerKeepsItsWord`, `OptimizerContour`: all of
  these, and those of the three modules above, in a program that uses any part.

What the theorems assume of constants, besides types and bounds of 1 where the code
has one: a population of 3 and more for `Generation` (the gradient and two points
take three columns), a greatest value for `Surrogate` (doubles have one, and the code
uses it for candidates it does not evaluate), and for `GenoPheno` boxes of positive
width at multiples of 4 and a unit of 20 and more, for `PwmRegisters` no more counts
than parts of a percentage, at most 2^24. The grid of `GenoPheno` is what doubles are
put on, not a limit on boxes: halves of a box and of a scaled box are on it, and the
margins, a twentieth of at least 1, do not vanish.

Only model-checked: liveness, which is out of this prover's reach (fairness and
`ENABLED`): `CallsReturn`, `Terminates`, the ends of `SIGINT` and of evaluations, that
operations of the driver end and `join` returns. Every invariant and action property
of the passing runs is stated by a theorem.

## Plan

1. Done: the parts on the Pi (`RpiUart`, `Bno055Uart`, `SampleRegister`,
   `BnoThread`, `MotorDriver`, `PwmRegisters`, `CsvStore`, `UartThread`,
   `PiPrograms`) and the control of the optimizer (`CMAStrategy`, `Generation`,
   `Restarts`, `CMAParameters`, `FrontEnd`, `GenoPheno`, `Surrogate`,
   `ProfileLikelihood`, `Contour`, `Optimizer`), their runs, and theorems for every
   safety property of the passing runs, in eight proof modules.
2. Left: that `Generation` implements the iteration `CMAStrategy` takes as one
   step, and `CMAStrategy` the run `Restarts` takes as one step, as refinements.

## Not modelled

* Covariance updates, sampling (`eigenmvn.h`), the weights' formulas and the
  ranking SVM's training: linear algebra over doubles and random numbers, with no
  finite instance worth checking. The modules that use them take any result.
* The python binding (`lcmaes.cc`): declarations and forwarding. Timers: wrappers
  over the clock. Output streams, logging and plotting.
* The relay commands and board IDs of `canakit_common`, which no program calls;
  `config_store` and `file_helper`, which forward to `csv_reader` and to single
  library calls; termios flags.
* The C++ UART test program, whose every call `Bno055Uart` models; the interactive
  loop of `write_read.py`, which the measuring loop's `sys.exit` makes unreachable;
  `do_3dcmaes`, which is compiled out; the shell and plotting scripts.
