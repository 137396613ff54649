# TLA+ models of the remote backup

A user edits a directory; a client watches it and sends what changes to a
server, which keeps a copy on disk and a row per path in an SQLite database,
and gives everything back on request. This directory holds TLA+ models of that
system, TLC configurations that check them on small instances, and proofs that
TLAPS checks. `PROJECT.json` maps every definition to the lines of `src/` it
stands for, and lists the runs, the mutants, the hazards and the theorems.

    tlc -workers 2 -config MCBackup.cfg MCBackupWaits      # a run
    tlapm PushGate_proofs.tla                         # a proof module

## The system

| part | source | state | operations |
|---|---|---|---|
| file watcher | `client/FileWatcher.cpp`, `FSElement.cpp` | `files_` (path to hash, date), `dirs_`, the cycle number | `init`; per cycle `find_erased` (files, then directories bottom up) and `find_created_or_modified` |
| client logic | `client/Client.cpp`, `comm/Client_API.cpp`, `client/main.cpp` | `fw_cycle_`, the watcher's future, the gate of `get_and_save_` | login, probe, push with its barrier, restore, end |
| asynchronous requests | `comm/Client_socket_API.cpp` | `threads_`, `n_active_threads_`, the cookie | `async_send_and_receive`, `wait_all_async`, `send_and_receive` with retries |
| sockets, codec | `comm/Socket_API.cpp`, `comm/Message.cpp` | one socket, the last message and error | open, send, receive, close; a length header and a Boost archive |
| accept, pool, request loop | `server/Server.cpp:40-61`, `comm/Server_API.cpp` | `n_active_threads_` | accept, discard, run: receive, find the session, dispatch, answer, pause or remove the session |
| session manager | `server/Session_manager.cpp`, `Session.h` | `sessions_`, `session_counter_`; per session the user, `m_`, `cv_`, `active_thread_` | retrieve, pause, remove |
| push gate | `server/Server.cpp:108-111, 184-185` and the error exits | `m_`, `cv_`, `active_thread_` of the session | enter, leave |
| stores | `server/Server.cpp:103-188`, `Database_API.cpp`, `comm/Utils.cpp` | the directory of the user, the rows of SESSIONS | the five kinds of push, get, the two schemas |
| configuration | `client/ConfigSetting.cpp`, `server/ServerConfigSetting.cpp` | address, port, folder, logs, database; the file that remembers them; what is left in `std::cin` | the dialogue before the program runs, the client's menu |
| the client's program | `client/main.cpp`, `client/Client.cpp` | the main thread, the watcher's thread, `running_`, the one socket both use | log in, menu, probe or restore, run, close; and the watcher's own end |
| logger, errors, stubs | the rest | - | output, values, test drivers |

How they interact. The watcher's thread calls back into `Client::push`, which
reads the file and hands the push to `async_send_and_receive`; every request
gets a thread and a connection of its own, at most four at a time. Before the
first push of a new watcher cycle `Client_API::push` waits for all pushes of
the cycle before. The server gives every accepted connection a detached
thread (32 at most; beyond that it answers RETRY_LATER), looks the session up
by the cookie in the message, and calls the handler. All threads of the server
share the unlocked map of sessions, the disk and the database; the pushes of
one session pass the gate one at a time, in any order.

What makes it hard: pushes of a cycle are served in any order; the user edits
between the moment the watcher lists a path, hashes it and reads it; the disk
and the row of a path are written one after the other, and either may fail, or
the server may stop in between; answers get lost after the work was done; a
restarted client has a new session, whose gate does not know the pushes of the
old one; condition variables are notified outside their mutex, on both sides;
sessions_ is written without a lock; ids begin at 1 after a restart. A busy
server answers and closes before it reads, so a long request is reset while it
is being written; a connection may come up after its caller has given up, break,
or fall silent; a header may be read as something else than was written. The
client is ended by its user, by its failing watcher, or by both at once, while
pushes are out; and every yes or no in its dialogue leaves a newline for the
next question.

What makes each part correct: the gate keeps the pushes of a session apart and
is always given back; the two stores agree on every path no push is working on;
between two cycles what the server would deliver is what the watcher has on
record; the pool's counters are exact on every path; a request is handled as
the user who sent it; a restore that reports success has put back everything,
and one that fails leaves nothing foreign; a request is served once at most and
its caller is told the truth about it; nobody waits for ever for an answer that
can come; no END overtakes a push made before, and a client that is over has
left no session behind; the configuration a program runs with is the one its
file shows.

## Modules

| module | models | run by |
|---|---|---|
| `Mutex` | a lock per session: what the gate promises | `Implements` in `push_gate` |
| `PushGate` | the gate of `Server::push`, one action per statement that another thread can see, `cv.wait` taken apart into test, wait and re-lock | `push_gate`, `push_gate_lost` |
| `PushGate_proofs` | its theorems | |
| `ServerStore` | operators only: what the filesystem and SQL calls of the server do to a tree and to rows, and when they throw or fail | through `Backup`, `Restore` |
| `Backup`, `MCBackup` | user, watcher, probe, pushes in flight, server workers, faults: the backup of one user end to end | the `backup*` runs |
| `BackupWaits`, `MCBackupWaits` | who sleeps in a backup: pushes at the gate, the client's sender at its pool, reads of a silent server | `backup`, `backup_halt` |
| `Backup_proofs` | the theorems of both, and lemmas about the operators of `ServerStore` | |
| `ServerApi`, `MCServerApi` | accept, pool, request loop, session manager, and clients that log in, push in parallel, end | `server_api`, `server_restart` |
| `ServerApi_proofs` | its theorems | |
| `Window` | at most so many requests in flight, and a wait for all | `PoolIsWindow` in `restore` |
| `ClientPool` | `async_send_and_receive` and `wait_all_async` with their condition variable | `restore`, composed into `Restore` |
| `ClientPool_proofs` | its theorems | |
| `Restore`, `MCRestore` | `Client_API::restore`: `ClientPool` for the gets, an instance of `PushGate` for the gate of their callbacks, `ServerStore` for both trees | `restore` |
| `Restore_proofs` | its theorems; takes over those of `ClientPool` and `PushGate` | |
| `AtMostOnce` | what a caller of `send_and_receive` may rely on: the request has run once if it is told so, and never twice | `ServedAtMostOnce` in `client` |
| `Header` | operators only: the header of a message, as it is written and as it is read | through `Connection` |
| `Connection` | `send_and_receive` and `Socket_API` at the client, accept, discard and a pass through `run` at the server, the network between them; for any number of requests at once | `client` |
| `Connection_proofs` | its theorems | |
| `Setup` | the dialogue of either program, the newlines in `std::cin`, the file written and read back, restarts | `client` |
| `Setup_proofs` | its theorems | |
| `ClientProgram`, `MCClient` | the client from its first question to its end: `main`, `Client`, the watcher's thread; `Setup` and `Connection` composed | `client` |
| `ClientProgram_proofs` | its theorems | |

How they compose. `ClientProgram` extends `Setup` and `Connection`: each of its
threads makes requests (`Call`) and waits until `Connection` has ended them, and
what the server does with a request is `Handle` together with what becomes of
the sessions. `Backup` takes the gate as an atomic lock per session; as far as
safety goes, `GateIsLock` proves it to be one. Its jobs are the requests of the
pool, at most `MaxJobs`, and its barrier is `wait_all_async`. That a lock gives
itself to everybody in the end is *not* true of the gate (`push_gate_lost`), nor
of the pool (`Overtaken` in `Restore`): `BackupWaits` adds to `Backup` who
sleeps where and what may never wake it, every one of its steps being one of
`Backup` or a stutter (`WaitsAreBackup`), and liveness is stated there.
`ServerApi` takes a handler as one step, since what it does is in `Backup`; it
is about which session, hence which user and directory, the handler runs for.
`Restore` starts from every tree and every rows the server may hold (`TreesOf`,
`RowsOf`), whether they fit or not: files without rows, rows whose file is lost
or has other contents. The proofs compose in the same way: the theorems of
`ClientPool` and `PushGate` hold in `Restore`, those of `Connection` and `Setup`
in `ClientProgram`; and `Backup` is joined to `PushGate` by what its pushes ask
of a gate (`PushesPassGate`), to `Restore` by the stores it leaves
(`BackupSuitsRestore`, `RestoresTheDirectory`).

### Correspondence, and what is abstracted

*PushGate.* `Lock`, `Test`, `Block`, `Claim` are lines 108-111, `Finish` the
clearing of the flag and `Notify` the `notify_one` at each of the exits of
`push`. The body between them is one step: nothing in it touches the gate.

*Backup.* One action per thing another party can come between: the watcher's
lookup of each path, the hash, the read, the wait for a slot, the push's first
and second store. `HashItem`, `ReadItem`, `Send` are apart because the file can
change in between. Abstracted: SHA-256 is injective; every write changes the
modification time (its granularity of a second is not modelled); the scan of
`init` and `get_elements` is a snapshot; the test for existence and the push of
an erasure are one step, as are `create_dirs` and the write after it; a write
that fails half way is not modelled; one user and one client; every start is a
new session. A path may be a file now and a directory then, if `Kinds` lets it:
then a scan that found a directory and a push that found a file give a file's
row the empty hash (`FileRows`), the probe passes over a directory in a file's
place, and the erasure of the directory may still be in flight beside a
modification. `KindsMatch` shows where that leads; `StoresAgree` and `Faithful`
are therefore stated for trees without such a path (`OneKind`), and
`ModifiesAlone` names its exception. The client ends (`Quit`) only while its
watcher sleeps or is gone. A probe that has pushed nothing exchanges an okay,
whose result is its own (`ProbeDone`): refused to an unknown session it ends the
client; lost, it ends it or, if nothing of the answer was read, the message of
the rows is still there and okay.

*BackupWaits.* A push that finds the flag set sleeps (`Sleeps`), and what
`PushGate` shows of sleepers is how it is woken: several are never all left
asleep, one alone may be. So a push is owed its turn only if it is awake or
sleeps beside others (`Relies`); another push of its session that comes by may
still wake it, and `Stranded` says that there is none. The sender that finds the
pool full may miss the notification of any thread that ends before it sleeps
(`Notifies`, `overtaken`), as in `ClientPool`; it is woken by a later one, or by
a spurious wake-up, which nobody owes it. A lost answer may also be one the
client never learns of (`silent`): the thread stays in its read, keeps its place
in the pool, and the barrier, the end of the probe and `end` wait for it
(`Hanging`, `Ends`). The same holds for the first and the last exchange of the
probe.

*ServerApi.* A session has a user and a login status (`user`, `logged`), which
the code sets apart: a right login sets both, a wrong one clears the status and
leaves the user. So a wrong login whose connection broke, and which the server
handles after the right one, logs the client out of a session that stays its
own; that is why `SessionKept` allows it. The shipped client never sets
`keep_alive`, so the loop of `run` is passed once per connection. The handlers
of OKAY, GET and RESTORE are not told apart from PROBE. A write of `sessions_`
has a beginning and an end; a search or write that overlaps another write may
miss or lose one entry, once per behaviour (`Race`), the search of
`remove_session` among them: a corrupted tree is beyond the model.
`thread_count` and `latest_usage` are left out, since nothing in the program
depends on them.

*ClientPool.* One thread of the client at a time calls it. A future that is
not ready after `WAIT_TIMEOUT` counts as a failure, but erasing it from
`threads_` waits for its thread, so the only effect is the result FALSE.

*Restore.* `Answered` to `LeaveGate` are the callback of `get_and_save_`, whose
body between the gates is one step (the gate keeps the others out);
`NoAnswer` is a lost connection, after which the message is an error; `Refused`
is a connection that could not be made, after which there is no message and
line 15 uses a null pointer, which ends the process. The user does not edit,
and the server's stores do not change, during a restore.

*Connection.* A request is made once (`Call`); what follows, the retries
included, is `send_and_receive`. As no part of the program sets `keep_alive`,
every attempt has a connection of its own, and one variable per request holds
it. TCP is taken as follows: a short message can always be written; a long one
only when the server reads, and it fails where the server has shut down without
reading; what arrived can be read after a reset. The second attempt of `call_`
on the same socket changes nothing and is left out, as is the branch after
`is_connection_error_`, which cannot be reached (its mutant `Reconnect` takes
it). `hurt` names the requests whose connection suffered: it connects the
properties to the faults and nothing reads it. The pool of the server is
unbounded here and may be full for any reason (`Discard`, at most `MaxBusy`
times); its count is in `ServerApi`.

*Header.* The character strings are sequences of digits, blanks are -1. The code
and the length run together from 16^7 on, and then `build_header` throws;
`Legible` and `Illegible` tell the requests for which that does or does not
happen. The bytes of the content are not modelled.

*Setup.* A typed name is told from others by what is at it on disk, by the keys
of the file's format that occur in it, and by a blank in it: that is all the
code can tell. A port is three, four or five digits, text or nothing. `console`
is what `std::cin` holds: a newline that a word left, an input that lost a
character to `ignore(1)`, or its end.

*ClientProgram.* A push, the probe and the restore are requests here; what they
do is in `Backup` and `Restore`. Probe and restore, which make many requests,
are the one request `sync`, refused if any of them is. A push is refused only if
its session is unknown. The server removes a session together with its answer to
END (`ServerApi` takes the two apart), and the pool has room for every push
(`ClientPool` bounds it). Two pushes that are handled at once meet at the gate,
where one may fall asleep (`Sleeps`); alone it may stay so for ever
(`Stranded`), which the client cannot tell from a silent server. The sleep
between two cycles is part of `Cycle`. `Clash` is what may come of two threads
that end the session over one socket and one message without a lock: the process
dies, or one of the two requests does (its socket is taken from it, or its
answer is read by the other thread, which asks for the same). The dialogue is
forgotten once the client is made, as nothing looks at it again.

## Runs

Safety between parts is stated outside a set `suspect`, a history variable of
`Backup` that names the paths a *known* race or fault has spoiled: the contents
sent were not those hashed; a creation was in flight together with an erasure
of the same path it can overtake, or with an erasure of the directory above it;
the probe passed over an element; a push was interrupted or failed after its
first store; a push went on for a client that was killed or lost its
connection. A path leaves it when a later push of it is served alone and the
stores are right again. The violation runs show that these exceptions are
really spoiled paths, each with the behaviour that leads there; the passing
runs show that nothing else spoils one.

| run | instance | shows |
|---|---|---|
| `push_gate` | 4 workers, 1 session | mutual exclusion, the flag exact, no exit that keeps the gate, refinement of `Mutex`; of several sleeping pushes one is always going to be woken |
| `push_gate_lost` | 2 workers, 1 session | violated: not every push returns, as a notification may fall between test and wait |
| `backup` | directory, file in it, file beside it; 1 edit, 2 jobs, one fault of each of four kinds, one silent connection in the probe, any lost answer silent | stores agree, the record is faithful between cycles; the client comes to rest in sync or knows why not, and every push ends, but for a push stranded alone at the gate, a sender overtaken by all that could wake it, and a silent server |
| `backup_faults` | directory and file in it; 2 edits, 2 starts, one fault of each of four kinds | stores and record agree through crash, failing statement, lost connection, kill and restart; pushes of a path in flight differ in kind, one is an erasure and none a modification; a cycle's first push finds nothing of the cycles before at the server |
| `backup_crash` | 1 edit, 1 crash, 2 starts | violated: a crash between row and file leaves old contents for good |
| `backup_recreate` | 3 edits, no fault | violated: a directory removed and made again loses the file in it |
| `backup_kind` | one path that changes kind, 2 starts | violated: the probe passes over a directory in the place of a file |
| `backup_halt` | directory and file in it; 2 edits, no fault | violated, also with the lost wake-ups excepted: an exception in the watcher's thread, and no change is noticed any more |
| `server_api` | 2 clients, 3 connections, 2 threads, one mishap of break, race, restart | the pool's count, requests handled as their sender, a session kept while its client is in |
| `server_restart` | 2 clients, 2 connections, a restart | violated: an old cookie names another user's session |
| `restore` | three paths, two contents, 2 slots, every tree and every rows the server may hold, lost and refused connections | a restore that returns true has put everything back in whatever order; the count of the pool; only an overtaken waiter can hang it; a failed one has left nothing that is not the server's |
| `client` | one login, two pushes, one just short enough for its header, the other that or too long; a busy answer, one mishap of a connection; the dialogues of both programs with two starts and three names | the file gives back what was typed; newlines stay where they are; the dialogue ends at the end of its input; requests are served once at most, survive a busy server, and end with the server's threads; no END overtakes a push, no session is left; the program ends when its user quits. What ends does so unless a connection fell silent or a push is left asleep at the gate |

A violation run checks one sentence of the repository's README or headers; the
finding in `PROJECT.json` quotes it. Findings without a run are disagreements
that the models have as the code has them, and that a passing run goes through:
the busy client that never gives up, the reconnection that is never tried, the
header of a message of 256 MiB, the file read by keys found anywhere, the test
that looks at the wrong name, the sessions that never expire.

*Bounds and why they are enough.* The gate needs three parties for its
interesting cases (one in the body, one about to wait, one asleep) and has four.
In `Backup` a directory with a file in it shows every relation of two paths the
code looks at (the order of the erasures, `create_dirs`, `remove_all`), and the
third path a push that is none of their business; two edits make every pair of
changes of a path, three are needed only to make a directory again *with* its
file (`backup_recreate`); two jobs let any two pushes be served in either order;
two starts are needed for the probe to find what the first left. Larger
instances were run once while the model was written and held: two paths, 3
edits, 3 jobs and all faults (15.4 million states), three paths and 3 edits
without faults, two paths and 4 edits without faults, a chain of three paths
with all faults (5.7 million), and one path of both kinds with 3 edits, 2 starts
and all faults (3.3 million). These took the okay of the probe as sure to be
answered. In `backup` the three paths make the pool full as the directory is
first probed, and two jobs and a push whose answer was lost make two sleepers.
With its fairness it held as well with 2 edits (3.3 million states), with three
jobs (438 thousand), with two paths and 2 edits (219 thousand) or 2 starts (1.8
million), and, with lost connections only, with 2 starts (236 thousand). In
`ServerApi` two clients are needed for a session to be taken for another's,
three connections for two of one client beside one of the other, and two threads
to fill the pool. One client has four requests: a wrong login that breaks,
another, the right one, and one that finds out what became of the session; with
three the late wrong login has nothing left to spoil. The other client logs in.
Where contents or connections are interchangeable and nothing temporal is
checked, symmetry is used. In `client` the main thread and the watcher together
make every kind of request; two pushes are needed for one to be out while
another is made or has failed, and both are long, since the short requests
(login, probe, the three ENDs) behave as short pushes would. The two lengths
stand on either side of the header's limit, and when both pushes are within it
they may meet at the gate. One mishap, on a push or on the probe, is enough, as
a request ends with it. The run has 451 thousand states. Its safety properties
held with two attempts to log in and the mishap on them, too (891 thousand
states, before pushes slept).

*Fairness.* `PushGate`: the scheduler runs every worker (WF of its steps), and a
mutex that becomes free again and again is granted in the end (SF of `Lock`); no
worker owes a new request, no wait a spurious wake-up. `BackupWaits`: the
client's thread runs unless it sits in a wait or a read that has no end
(`Hanging`), and some worker does whose push is not asleep alone (`Relies`): an
empty gate lets through one that is awake (`GateDecides`), and wakes one of
several sleepers (`WaitersMove`), never for sure a single one. Edits, faults,
starts, spurious wake-ups and the end of the program are nobody's duty. `Backup`
itself has no fairness and no liveness. `Restore`: the main thread and every
thread of a get run, and the gate's mutex is granted. `ClientProgram`: one WF of
everything that some thread of the client or of the server can do by itself, as
none goes on for ever (a busy server is bounded by `MaxBusy`), and that includes
a dialogue at the end of its input, but not the handler of a push that sleeps
alone (`Stranded`); the user owes nothing, and the network owes neither a fault
nor its absence. A connection that fell silent, and a push left asleep, are
excepted in `RequestsEnd` and `QuitEnds`: the client reads without a timeout,
and the server waits without one. Nothing else is assumed, and in particular not
that a condition variable is fair.

## Proofs

Every invariant, every refinement and every action property that a passing run
checks is also a theorem, for any values of the constants that satisfy the
assumptions. The inductive invariants were put to TLC as well, as a whole, on
the instances of the runs or larger ones. Each is proved in three steps: it
holds initially, every action keeps it, and it implies the property.

*PushGate_proofs.* For any sets of workers and sessions. `TypeCorrect` stands on
its own. Mutual exclusion is not inductive: the invariant adds who owns the
mutex (`MutexOwned`), that the flag found clear is still clear when it is set
(`ClaimFresh`: only setters could change that, and they own the mutex) and that
the flag is set exactly while somebody is in the body (`FlagOwned`). For
`LosesAtMostOne` one more fact is needed, `BlockedBehindExit`: a worker about to
sleep beside a sleeping one still has an exit, or a woken worker, ahead of it;
`WakeInvariant` is the two together. `GateIsLock` maps the workers in the body
to the lock's owner and shows that every step is an acquisition, a release or a
stutter. `OnlyOvertakenStrand` is what can be said without fairness about pushes
that sleep for ever: in a behaviour in which no worker of a session has found the
flag set, does not sleep yet, and the flag is cleared (`Overtaken`), no worker
ever sleeps without another that will wake it. The missing mutex at the exits is
thus the only way to the hang that `push_gate_lost` shows.

*Backup_proofs.* For any tree of paths, any contents, any bounds on edits,
starts, jobs and faults. Five layers, each resting on those before it:

1. `BackupTypes`, and `BackupFits`: what is in the directory, on record, in
   flight, on disk and in the rows is what the user may have put there
   (`Fitting`), which the lemmas about `ServerStore` carry through every
   operation.
2. `PushesInOrder`: what may be in flight beside what. A cycle that has pushed
   something erases files, then directories, then pushes what it found, each
   path at most once per loop (`CycleOrder`); the barrier keeps two cycles
   apart, because a push the client has given up counts as a failure (`Noticed`);
   the probe has its own order (`ProbeOrder`). `ModificationsAlone` follows.
3. `StoreInvariant`, first half (`Clean`): a push in flight is of the client that
   runs, or its path is suspect (`Owned`); one push of a session is past the
   gate (`Gated`); what is sent has its hash, or is suspect (`DataRight`).
4. `StoreInvariant`, second half (`Stored`): the tree on disk has a directory
   over everything (`TreeOk`), and every path that is not suspect either agrees
   with its row or has exactly one push halfway, with what that push leaves
   between its two stores (`Good`, `HalfOn`, `Half`). `StoresAlwaysAgree` follows.
5. `RecordFollows`: what is in flight for a path leads from the row it has to
   what the watcher has on record (`Leads`), or, for the element in hand that is
   on record already, to what there was before (`Follows`). It needs that a
   creation never passes the erasure it was sent after, as there is a row that
   would make it fail, and that a modification finds its row (`InTurn`); and
   while the probe has not come to a path, that its row is the one of the answer
   (`Ahead`). When nothing is in flight the row is the record, by layer 4 the
   disk is the row, and that is `BackupIsFaithful`.

Four results rest on these layers. `PushesSentApart` is the action property of
layer 2, and about `Send` itself: a push whose answer was lost is still at the
server although the client no longer waits for it, but it counts as a failure,
and no barrier lets a cycle past one. `PushesPassGate` says that the pushes past
the gate of a session, those of a client that is gone included, enter and leave
it as `Mutex` allows, and that only a crash of the server sets them free; since
`GateIsLock` proves that `PushGate` implements `Mutex`, the gate that `Backup`
takes as one atomic test can be the one of the code. `BackupSuitsRestore` says
that the stores are at any time, in the middle of a push and after any fault,
among those from which `Restore` starts, and `Consistent` as its properties ask,
where no path is both file and directory. With `BackupIsFaithful` it gives
`RestoresTheDirectory`: when nothing is left to do and no named mishap has
spoiled a path, what a restore wants at each path (`Wanted`, which `RestoresAll`
proves it delivers) is what the user has there.

`WaitsAreBackup` carries all of this over to `BackupWaits`, where pushes, sender
and connections may get stuck: safety does not depend on anybody's being woken.
`WaitTypeCorrect` rests on it: who sleeps keeps its place at the gate until it is
let through or the server is gone (`SleepersKept`), and a client ends with no
wait of its own left, which needs that none but `Kill` ends one that waits.

*ServerApi_proofs.* For any number of clients, connections, requests and mishaps.
`PoolIsExact`: the counter is the cardinality of the set of
connections a thread serves. The steps fall into three kinds, each with its
lemma: those that stay inside `run` (`MoveWithin`), the one that takes a
connection up (`TakeUp`), those that leave (`LeaveCounts`). `TypeInvariant` has
to count as well: a request a busy server handed back is due once more and not
twice (`Accounted`). `SessionInvariant` is about the dialogue of a client (only
pushes are out together, and a request fits the stage its client is in), about
whose an id is (`Owned`: one client at most knows it, nobody else has logged in
with it, and none is known before it is given out), and about what an answer
will find (`Answerable`). `RequestsServedAsSelf` holds until a restart, as the
run `server_restart` shows it must; `SessionIsKept` as long as only connections
break.

*ClientPool_proofs.* `PoolSlotsExact` by the same argument for the client's
counter, and `PoolImplementsWindow`, which needs it: the guard of the code
compares a counter, that of `Window` the cardinality of a set.
`OnlyOvertakenCallerSleeps` is the counterpart of `OnlyOvertakenStrand`: a caller
that was not overtaken (`CallerOvertaken`) waits only while the pool is full or a
thread is about to notify it.

*Restore_proofs.* `GateIsPushGate` shows that the callbacks' condition variable
is `PushGate` under a renaming and `PoolInRestore` that the threads are
`ClientPool`, so `SavesOneAtATime` and the exact pool come from there.
`RestoreInvariant` has what was asked for, each path once (`InOrder`), that what
was saved is in the tree in its directories (`Placed`), and `NothingForeign`;
`RestoresAll` and `RestoresNothingForeign` follow, for any server whose stores are
`Consistent`, and `BackupSuitsRestore` says that they are.
`OnlyOvertakenStandsStill` puts the two "only overtaken" theorems together: a
restore in which no waiter was overtaken, at the pool or at the gate, is never in
a state in which its caller waits or has threads out and every one of them
sleeps (`StandsStill`). It is the safety half of `EndsUnlessOvertaken`; TLC finds
such states as soon as an overtaken waiter is allowed.

*Connection_proofs.* `ConnInv` says of every request what is true wherever it
is: nothing was served before the answer exists or when the server was busy, no
answer is there before the request, a request about to be made anew was not
served, what is broken is in `hurt`, a misread one never reaches a handler and
its caller is still writing. It is inductive only as a whole: that a sleeping
request was not served follows from the busy answer, and that from the server's
end having gone straight from the backlog. `BusyServerComesBack` is one of its
conjuncts; `ConnectionServesAtMostOnce` uses the others to show that every step
is one of `AtMostOnce` or a stutter.

*Setup_proofs.* `NewlineStaysBehind` by what is left in `console` at each
question. `ConfigurationReadBack` from the lines of the file: they are the first
fields in their order (`InOrder`), with the values that were typed while the
file is being written (`SoFar`), also where a kill cut it short.

*ClientProgram_proofs.* Every step of the program is one of `Connection` or
leaves it alone (`ProgramStep`; what is to be shown is that its threads only
call and abandon), hence `ProgramImplementsConnection`, and the theorems about
`Connection` hold in the program; `ProgramReadsBack` is the same for `Setup`.
`WholeInvariant` adds the main thread's stages, whose turn it is to make a
request (`InTurn`), that a push on its way is waited for before an END or is
late (`WaitedFor`), that the server has the client's session until an END
(`KeepsSession`), and what a session or its absence tells of the logins and ENDs
(`SessionsTold`, `EndedIsGone`). `PushesKeepTheirSession` and
`ClientLeavesNoSession` follow, for any number of logins and pushes.

*What the attempts found.* Four properties were false as they once stood, beyond
the bounds of their runs. In `ServerApi` a late wrong login logs a client out
(one variable had stood for the user and the login status; four requests show
it). In `Backup` the stores do not agree on a path of both kinds
(hence `OneKind`); a modification may be beside the erasure of a directory on
such a path (`ModifiesAlone`); and a file's row may have the empty hash there
(`FileRows`). The models, the properties and the bounds of the runs were changed
accordingly.

*Assumptions.* Those of the modules, which TLC evaluates on every run: the sets of
connections and of requests are finite, the bounds on threads are positive,
`None` is not an element of the set it is an alternative to (`NoneAssumption`:
no item of a push; in `Restore` no path and not the gate), `Ancestors` is
transitive and irreflexive and ranks below, the words of the stores are no
contents, a message whose header can be misread is long (256 MiB fit into no
buffer), and in `ClientProgram` logins, synchronisation, pushes and ENDs are
different requests and no END is long.

*Only model-checked.* Liveness, since TLAPS does not prove properties under
fairness: `GateReleased`, `GateDecides`, `WaitersMove`, `Settles`, `PushesEnd`,
`EndsUnlessOvertaken`, `SetupEnds`, `RequestsEnd`, `QuitEnds`. And what the
violation runs refute.

## Not modelled

The descriptors that `close_conn` gives away (it releases the native socket
before it closes it; nothing in the code looks at their number); the granularity
of modification times; a full disk, which `write_on_file` does not notice;
`keep_alive`, which nothing sets; the content of messages, a Boost archive; the
table USERS; the wording of menus and questions; logging and the error values;
the stubs and tests. A client that throws before it has made its `Client` closes
through an uninitialised pointer (`main.cpp:10`, 71, 75): `Construct` and `Setup`
let the program end there.

## Plan

Done, in this order: `PushGate`, `ServerStore`, `Backup`, `ServerApi`,
`ClientPool`, `Restore`, `Setup`, `Connection` with `Header` and `AtMostOnce`,
`ClientProgram`, the proofs of all their invariants, refinements and action
properties, and the joints between `Backup`, `PushGate` and `Restore`. Left:

1. More steps towards the liveness properties that can be proved as invariants
   or action properties: that every pass of a loop of the watcher makes `todo`
   smaller, that a push in flight is never behind two others.
2. That the window of jobs of `Backup` is the one `ClientPool` implements, as
   its gate is the one of `PushGate`.
3. A clock for the watcher: two writes within a second.
