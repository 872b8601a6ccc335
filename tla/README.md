# Verification of libptytty

TLA+ models of libptytty (`src/`), the TLC configurations that check them and
the TLAPS proofs about them. libptytty opens pseudo terminals and keeps their
sessions in utmp, wtmp and lastlog; a program that is not privileged does so
through a privileged helper process that it forks at startup.

## Inventory

| component | source | state | operations | what makes it correct |
|---|---|---|---|---|
| client side of the helper protocol | `src/src/proxy.C:41-150` | `sock_fd`, `lock_fd`; per object `id`, `pty`, `tty` | `get`, `login`, the destructor, `NEED_TOKEN`, `GIVE_TOKEN` | calls exclude each other; an object gets its own pty; every call returns |
| helper | `proxy.C:152-216` | the vector `ptys`, the command under way | `serve`: get, login, destroy, end of file | commands act on the pty of their sender; nothing leaks; everything is undone at the end |
| startup and privileges | `proxy.C:218-352` | `helper_pid`, descriptors, user and group ids | `init`, `sanitise_stdfd`, `use_helper`, `drop_privileges`, `create` | the helper sees its clients' end; privileges are gone for good |
| pseudo terminals | `src/src/ptytty.C`, `ptytty.h` | `pty`, `tty`, `name`, `cmd_pid`, `login_shell` | `get`, `put`, `login`, the destructor, `close_tty` | who holds a line keeps access to it; a failed `get` undoes everything |
| session databases | `src/src/logging.C` | utmp, wtmp, lastlog (shared by all processes) | `log_session`, `updwtmp`, `update_lastlog`, `fill_id` | a session is on record from login to delete; no logout hits another session; wtmp stays a list of whole records |
| descriptor passing | `src/src/fdpass.C` | none | `send_fd`, `recv_fd` | one byte and one descriptor per message; of others none leaks that could be closed |
| vector, `find` | `src/src/estl.h` | `sze`, `res`, `buf` | `push_back`, `insert`, `erase`, `reserve`, ... | behaves like a sequence; each element is constructed and destructed once |
| C interface | `src/src/c-api.C` | none | one wrapper per method | forwards |
| `ecb.h` | `src/src/ecb.h` | none | macros, bit functions; the library calls `ecb_ld32` | vendored |
| example program | `src/eg/c-sample.c` | descriptors of two or three processes | `main` | the shell gets the tty and nothing else; everyone ends |

How they interact. Threads and forked processes share `sock_fd` and `lock_fd`.
A call takes the token from `lock_fd`, writes a command to `sock_fd` and, for
`get`, reads an id and two descriptors; then it writes the token back. The
helper hands the token out, reads a command, performs it with a `ptytty_unix`,
and waits for the token. Without `PTYTTY_REENTRANT` there is no token and the
application serialises its calls. Without a helper (`helper_pid == 0`) the
application works on `ptytty_unix` objects itself, and what processes share is
the kernel's table of lines and the session databases.

What is hard here: interleavings of clients, helper and kernel; a call that
fails between taking and giving the token; results of system calls that the
code ignores on purpose; the death of either side; replies left over on a
stream; ids that are addresses and get reused; databases without transactions.
`PROJECT.json` lists these hazards at their lines.

## Modules

| module | models |
|---|---|
| `PtyProxy` | clients, helper, sockets and token (`proxy.C:76-216`, with `fdpass.C` and the destructor of `ptytty_unix` as the protocol uses them) |
| `PtyService` | the abstract service: what `struct ptytty` promises, without helper, socket or token |
| `PtyProxyService` | the refinement mapping from `PtyProxy` to `PtyService` |
| `PtySession` | `ptytty_unix` and `log_session`, one step per system call, several processes |
| `PtySessionService` | the refinement mapping from `PtySession` to `PtyService` |
| `PtyStartup` | `init`, `sanitise_stdfd`, `use_helper`, `drop_privileges` and `create` (`proxy.C:218-352`) over descriptor tables and ids |
| `WtmpFile` | `updwtmp` (`logging.C:213-249`), system call by system call, several processes and another program |
| `WtmpLog` | the abstract log: what readers of wtmp expect |
| `UtmpId` | `fill_id`, for the names of devpts lines |
| `SimpleVec` | the vector and `find` of `estl.h`, with `ecb_ld32` |
| `FdPass` | `recv_fd` for every control message that may arrive |
| `PtyProgram` | `c-sample.c` on the functions of `c-api.C`: descriptors of program, shell and helper |
| `PtyProxy_proofs`, `PtyProxyOwner_proofs`, `PtyProxyService_proofs` | theorems about `PtyProxy`: types, exclusion, sessions and the call under way; who owns what; the refinement of `PtyService` |
| `PtyStartup_proofs`, `PtySession_proofs`, `WtmpFile_proofs`, `PtyProgram_proofs` | theorems about these modules; `PtySession_proofs` and `WtmpFile_proofs` prove refinements |
| `Helpers_proofs` | theorems about `SimpleVec` and `FdPass` |
| `MCPtyProxy`, `MCPtySession`, `MCHelpers` | definitions for TLC: symmetry, record keys, builds; `MCHelpers` puts `SimpleVec`, `FdPass` and `UtmpId` into one run |

Composition. `PtyService` is the top: `PtyProxy` and `PtySession` both
implement it. `PtySession` takes a record key per line for granted, which
`UtmpId` checks for the ids of devpts lines. It keeps wtmp as the sequence of the
records that `log_session` gives to `updwtmp`, each written or lost; `WtmpFile`
shows when the file can take one and that it takes it whole or not at all. `PtyProxy` takes the helper that `PtyStartup`
leaves behind, and the vector `ptys` as a set, which `SimpleVec` checks.
`PtyProgram` is the whole of it in a program, at the level of descriptors.

### PtyProxy

`pc` says where a client is in its call: `need` (before `NEED_TOKEN`), `write`,
`id`, `pty`, `tty` (the three reads of `get`), `give` (before `GIVE_TOKEN`),
`idle` between calls, `gone` after its process ended. `srv` does the same for
the loop of `serve`. `id`, `pty`, `tty` are the fields of the client's object
and `res` how its last `get` ended. `tokC` and `tokS` count the bytes on the
two directions of `lock_fd`, `toSrv` and `toCli` are those of `sock_fd`. `obj`
is the vector `ptys` by address, and `utmp` the lines with a session record.
`holds` has no counterpart in the code: it remembers which client read the
token, and no action looks at it; the proofs need it. `owner` and `from` are
such history too. `reentrant` is the build option `PTYTTY_REENTRANT`, chosen
from `Builds` at the start and never changed.

A command and an id are one message each, a descriptor is a message of one
byte. A read of the stream that meets something else than it expects behaves
as the kernel does: it stops behind a byte that carries a descriptor
(`ShortRead`), fills up the rest of one id with the start of the next message
(`MixedRead`, whose result may be any address), and `recv_fd` takes one byte
off an id and leaves the rest (`Rest`).

The set `Env` names the misfortunes of a run: `eintr` (a signal handler without
`SA_RESTART` interrupts a read), `send_fd` (malloc or sendmsg fails),
`recv_fd` (no memory or no room for a descriptor), `kill_client`,
`kill_helper`, `copy` (an object is used on both sides of a fork).

Definitions called mutants in their comment are not part of the model: each is
a plausible mistake in the action behind it, and `PROJECT.json` says which
property it breaks.

### PtyService

Requests of a client are queued (`pending`) and performed in their order, each
once. `have` is the line the service keeps for a client, `told` what the client
may believe, `sessions` the lines on record, `places` those that can be: a login
on another line is performed and leaves none. The queue is there because login
and delete return before the helper has read them. When all clients are gone,
what they left is reclaimed.

### PtySession

Each process has one object. `pty`, `tty` and `name` are the lines that the
fields of the object refer to, `access` is whether the tty's owner and mode are
the user's or restored, `utmp` maps a record's key to the record, `wtmp` is the
sequence of records given to `updwtmp`, with whether the file got them. `pc` splits `get` (`get`, `own`, `tty`, `got`), `login`
(`login`, `loginwtmp`) and the destructor (`logout`, `logoututmp`,
`logoutwtmp`, `restore`, `close`) at the system calls that other processes can
see; `undo` and `undoclose` are the `put` of a failed `get`. `build` is chosen
from `Builds`: the variant of `get_pty` of each process (with `_getpty` as
`unix98`), whether records have an id, a pid and a type or else a slot, which
lines have a slot, and whether processes may be killed. `Key` gives a line's id
or slot. `HasPlace` is the guard `utmp_pos > 0` of `logging.C:316`: a line without
a slot gets no record. `updwtmp` returns nothing and may have written nothing, so
`PutWtmp` chooses; `log_session` goes on all the same. Writing to utmp itself
succeeds: the process, or the helper in its place, has the privileges for it.
`chown` and `chmod` succeed too, where the code would go on if they failed.

### PtyStartup

The program calls `init`, `use_helper`, `drop_privileges` and `create` in any
order, and again after an exception (`pc = "thrown"`); `caller` tells the
`use_helper` and `drop_privileges` that `init` calls from the program's own.
`fds` is the descriptor table, with the kernel's rule that the lowest free
number is given out; `sv` and `lv` are the socket pairs, whose descriptors leak
when a start fails, as in the code. `uid` and `gid` are real, effective and
saved ids, and `build` is which of `setresuid`, `setreuid` and `setuid`
`drop_privileges` is compiled with. `helper` is the forked helper with its own
table and ids. `exec`, the ids at the start, is history. What may fail: opening
`/dev/tty` and `/dev/null`, both `socketpair`s, `fork`, and setting the user id;
setting the group id does not, for the groups a process may drop to. Real and
effective ids at the start are any two of the user's and root's.

### WtmpFile

Every system call of `updwtmp` is a step. A record takes two units of `file`, so
that a write can be cut short between them, or write nothing. `lock` is the set
of positions that each program has locked; position `MaxSize` stands for all
behind it, up to which a lock of length 0 reaches. A writer locks from the end
of file that it sees, and its unlock, which counts from the new end, leaves the
record itself locked until `close`: `FromEof` is both. `Other` is another
program that locks the file for as long as it likes and appends to it. `torn`
remembers that a writer died between a short write and its `ftruncate`.

### SimpleVec, FdPass, UtmpId

`SimpleVec` is the vector at the level of its buffer: a cell holds a value or
`Raw` memory, and constructing over an object, assigning to none or reading
none leaves `Bad`. `simple` chooses between types moved with `memmove` and types
moved object by object. `size_type` has `Width` bits, 32 in the code. The loops of
the code over cells are recursive functions (`Loop`), the bisection of `ecb_ld32`
is five steps `Halve`. `MaxArg` bounds the values of one call. `operator ==`
compares bytes, which may differ for objects of one value: `Equal` is told where
(`apart`). `FdPass` has
`recv_fd` with the arithmetic of the CMSG macros for 4 and 8 byte alignment.
The length of a message is any from what covers the descriptors in the buffer to
what covers all that were sent, and a `leaky` kernel, of which the comment at
`fdpass.C:123-126` speaks, installs those beyond the buffer too.
`MaxSent` bounds the descriptors in a message. `UtmpId` is the one place where names are sequences of
characters, because which of them an id keeps is the question: `Number` is
what an id tells of its line. The three share no state, so in `MCHelpers` a
behaviour exercises one of them (`unit`).

### PtyProgram

`pc` is where each process is in `main`, in the child's branch or in `serve`.
`fd` is each process's descriptor table, filled lowest number first; `obj` is
each process's copy of the pty object. What the library does between two
effects that others see is one step: `PtyttyInit` is all of `PtyStartup`,
`GetUnix` all of `get` with the `ttyslot` lookup of `ptytty.C:396-404`, and
`session` is what `log_session` leaves. `build` says whether the program is
setuid and so has a helper, whether records have slots, and which standard
descriptors are open at the start. The shell prints what it likes and ends when
it has read its commands or its terminal hangs up.

## Runs

| run | configuration | shows |
|---|---|---|
| `proxy_safety` | 3 clients, 2 addresses, 2 lines, failing descriptors, kills on both sides | exclusion, ownership, whole pairs, no leaks |
| `proxy_service` | 2/2/2, with and without token, fairness | calls return, `PtyService` is implemented; queued commands reach the right pty |
| `hostile` | 2 clients, 1 address, 1 line, everything but `eintr`, fairness | the helper cleans up; its death blocks nobody |
| `signals` | 1 client, 2/2, `eintr`, failing descriptors | sessions are tracked even when replies are misread |
| `session` | 2 processes, 2 lines; pids on UNIX98, killed or not, or slots of one line or both on openpty and BSD | access, utmp and wtmp under any interleaving; `PtyService` is implemented |
| `startup` | 9 descriptors, 4 of them open or not at the start, all ids and builds | one usable, privileged helper that sees end of file; privileges gone |
| `wtmp` | 2 writers and another program, 2 tries, fairness | exclusion, whole records, `WtmpLog` is implemented, every call ends |
| `helpers` | 4 bit `size_type`, 2 values; messages of up to 5 descriptors; lines up to 11000 | the vector is a sequence; only what is beyond the buffer leaks; ids are apart |
| `program` | 8 descriptors, any standard ones open at the start, fairness | the shell's descriptors; everyone ends; the helper logs out |
| `recv_fails` | 1 client, `recv_fd` | finding: the destructor waits for ever |
| `interrupted` | 2 clients, `eintr` | finding: two clients in the protocol |
| `setuid_keeps` | 7 descriptors, `setuid` only | finding: the saved user id stays |

Bounds. With the token at most one command and one reply (an id and two
descriptors) are under way, so `MaxQueue = 3` never makes a writer wait in the
runs without `eintr`; a third client shows that two who wait do not disturb a
third. In `proxy_service` `MaxQueue = 2` makes the helper wait for room for a
reply and, without the token, clients for a full socket.
Two addresses and two lines are enough for one to be freed and taken again
while another is in use. `MaxTokens` bounds what a signal may forge; the real
number is unbounded, which is why `signals` claims only what does not depend on
it. `signals` has one client because with two the leftovers multiply without
new kinds of reads; the second client is what `interrupted` shows.
`MaxLog = 2` bounds wtmp: a login needs room before it starts, counting the
logins of login shells under way, so each process may log in while the other is
in a session, and logouts follow without bound. The builds with pids are there
with and without kills, because a logout must find its own record where others
have left theirs, and `SessionEnds` and `ImplementsService` claim something only
where nobody is killed. A line with a slot beside one without shows that records
go to the right one.
Nine descriptors are enough for a start of four sockets to fail at `fork` and
for the next to succeed, and the last of them is beyond `CloseLimit`.
`MaxSize = 5` is two records and a half: a third write is cut short by the full
disk, after each writer has had one. `Tries = 2` is the least number for which a
failed attempt is followed by another; `WtmpFile_proofs` is for any number of
both. `Width = 4` gives vectors of up to 7 elements and four capacities
between which they move; `MaxArg = 2` lets one call skip a capacity. `MaxSent = 5`
is more descriptors than the control buffer takes on either platform;
`Helpers_proofs` is for any of the three. `Top = 7` is never reached; `MaxOut = 2` lets output be
read while more is printed.
The permutations of clients, addresses, lines, processes and pids are symmetries
of the models and are used in safety runs only; `session` permutes what its
builds treat alike.

Deadlock. `signals` may deadlock (a signal in the wrong place loses the token),
and so may `recv_fails`; `program` ends when its processes have ended. Every
other run checks for deadlock.

Fairness. `WF(Helper)` and `WF(Client(c))`: the kernel runs a process that is
not blocked. `SF(NeedToken(c))`: several readers of one socket are served such
that none is passed over for ever; Linux queues readers of a socket in order.
What the application does (`Get`, `Login`, `Destroy`, `Exit`) is never fair:
it may stop calling. In `WtmpFile` each writer's `Step` is weakly fair, as its
system calls return (`F_SETLK` does not wait); opening the file, being killed
and all that the other program does are not. In `PtyProgram` `Parent`, `Child`
and `Helper` are weakly fair, one each per process; being killed and printing
are not.

Findings.

1. `recv_fails`: `get` throws with the token taken (`proxy.C:96`, `106`), and
   the destructor of the same object waits for it for ever.
2. `interrupted`: `NEED_TOKEN` (`proxy.C:77`) takes an interrupted read for the
   token. The same ignored result is what makes `HelperDeathUnblocks` true.
3. `setuid_keeps`: with `setgid` and `setuid` alone (`proxy.C:343-344`) a
   program setuid to another user than root keeps its saved id, where the
   manual says that saved ids go too (`doc/libptytty.3.pod:135-136`). The check
   behind it looks at effective ids. `PrivilegesGone` is what does hold.

Besides, `serve` ignores a failing `send_fd` (`proxy.C:175-176`), and `get` then
waits for a byte that nobody sends. It takes a helper without memory, and no
run is made of it; `hostile`, which includes it, shows that the helper still
cleans up.

## Proofs

`PtyProxy_proofs` proves for every `Clients`, `Addrs`, `Lines`, from the
assumptions `NilAssumption` and `ConstantAssumption` of `PtyProxy`:

- `TypeCorrect`: `Spec => []TypeOK`, for every `Env`. The inductive invariant
  `TypeInv` adds `CurOK`: while the helper sends descriptors, the object it
  takes them from exists. The lemmas `QueueTypes`, `ReplyKinds`, `ReadTypes` and
  `WriteTypes` say what reads and writes do to the queues.
- `Exclusion`: `Spec => []MutualExclusion` when `"eintr"` is not in `Env`, with
  or without the token. `MutualExclusion` says nothing of tokens in flight and
  is not inductive; `ExclusionInv` adds where the one token can be (`OneToken`),
  that whoever is in a call of a live helper holds it (`CallersHold`), and
  without `reentrant` that one client at most is in a call (`OneCall`). The
  helper makes a token without having got one back only at end of file, when no
  client is left to take it.
- `SessionsStayTracked`: `Spec => []SessionsTracked`, for every `Env`. The
  invariant `SessionInv` adds that no two objects have the same line
  (`LinesApart`), without which deleting one could end the session of another.

- `TokenQuietAlways`: `Spec => []TokenMeansQuiet` when `"eintr"` is not in `Env`.
  That the socket is clean when the token is free depends on every step of the
  call before: the invariant `CallInv` says where client and helper are in the
  one call under way (`PhaseInv`), phase by phase: what is on the socket in each
  direction, what the helper will still send, and how many bytes a read that
  failed leaves behind. A call that threw keeps the token for ever, which is why
  its leftovers are never read. `OneAtATime`, `Ends` and `TokenQuiet` are the
  cases between calls and after the end of either side.

`PtyProxyOwner_proofs` proves three theorems under `Tame`: no signals and no
object used on both sides of a fork (`"eintr"`, `"copy"`), and without the token
neither `"recv_fd"` nor `"kill_client"`. The last condition is needed: without
the token a `get` that stops halfway leaves descriptors on the socket that the
next call takes for its own. The helper may be killed and `send_fd` may fail in
any build. `OwnershipInv` has four parts besides `CallInv` and `HasPty`:

- `OwnInv`: what the fields of a client's object mean in each place of its call
  (`CallFields`, `ClientOwns`), that every queued command names an object of its
  sender (`CommandsMeant`), and that a destroy is the last command of its object
  (`DestroyedLast`). Only then may the helper free the object and the address
  come back as another's id.
- `LineInv`: the replies on the socket belong to one `get` (`RepliesOfOneGet`),
  which has one reader (`OneReader`), and `SendsInOrder` that they come in order.
- `LeakInv`: who waits for a get is still there (`GetWaits`), the helper has
  closed the tty when it asks for the token (`TtyClosed`), and each object is kept
  for its owner or for a command (`Kept`).

`OwnsItsPtyAlways`, `CommandsReachOwnerAlways` and `NothingLeaksAlways` follow
from it. The invariant was itself checked by TLC, with two clients, addresses
and lines.

`PtyProxyService_proofs` proves `ProxyImplementsService`: `Spec => Service!Spec`
under the mapping of `PtyProxyService`, for any clients, addresses and lines,
from `LineAssumption` (no line is named like none) besides. Its hypothesis
`Unharmed` is `Tame` and that nobody is killed: of a client that dies in a call
the helper still performs the command, whoever it was for, and a helper that
dies forgets all requests, which the service never does. The invariant of the
simulation, `SimInv`, is `OwnershipInv`, `SessionInv` and `OrderInv`:

- `OneObject`, a client has one object in the helper, so that `haveBar` does not
  choose; `GetsWait`, whoever sent a queued get waits for its answer;
  `BlindLogins`, when the helper comes to the login of an object without a pty,
  its client has none, as the service would find.
- What `CommandTypes` computes of any queue is proved by the smallest
  counterexample, not by induction: `TypesAppend` and `TypesTail` say what
  writing and reading a command do to it.
- Each action then has a lemma that names the service's step: `CallsRequest`
  (starting a call), `GetServes`, `LoginServes`, `DestroyServes` (what the helper
  reads is the first request of its sender, `ReadsFirst`), `ReapServes` (what
  clients left is reclaimed at end of file), `ClientServes` (`get` returns). All
  else is a stutter (`ClientStutters`, `HelperStutters`).

`PtyStartup_proofs` proves for every number of descriptors (at least three),
every set that is open at the start, every close limit and each build, from
`StartupAssumption`:

- `TypeCorrect`, and `UsableHelper`, `SeesEof` and `OneForAll` from `StartInv`.
  `HelperUsable` says nothing of the calls under way; `PairsMade` adds what
  `use_helper` has made when it forks, `HelperStarted` that `sock_fd` is set
  exactly when there is a helper, and `HelperApart` which ends of the sockets
  each side has before and after the helper's closing loop.
- `NoWayBack`: `PrivilegesGone` from `PrivInv`, which adds that an id which is
  not effective is not saved either, and that the group is gone whenever the
  user is: otherwise a drop repeated after a failure would find the user
  without the right to drop the group.
- `StdioStaysOut`: `StdioKept` from `StdioInv`, which follows the descriptors
  that `sanitise_stdfd` has seen and the numbers of the sockets.
- `HelperIsPrivileged`: `HelperKeepsPrivileges` from `KeepInv`. The property speaks
  of the moment after `init`; the invariant of every id since the start: the
  user ids are the first ones or dropped for good, in which case no later `init`
  asks for a helper, and a helper that was forked has what the program had then.

`PtySession_proofs` proves for any processes, lines, pids and builds, from
`SessionAssumption`:

- `TypeCorrect`, with `ObjectInv`: no two processes have one line's master, an
  object's `name` is that of its `pty`, and there is a `cmd_pid` exactly from
  login to delete.
- `AccessStays`: `AccessKept`, which with `ObjectInv` is inductive: whose `chmod`
  a line is hit by is the process that has its name.
- `SessionsLast` and `SessionsEnd`, under `KeysApart`: lines have records of
  their own. `UtmpId` shows by TLC that ids do up to line 10999. The second one
  needs the first: a logout that did not find its own record would leave it. It
  also needs that a line without a place has no session (`NoPlaceNoSession`).
- `WtmpPairs`: `WtmpGrouped` from `LoginLast`: once the login of an object was given
  to `updwtmp`, no record of its line that is in wtmp comes after it. `LogAppend`
  says what appending does to the last record of a line.
- `SessionImplementsService`, under `KeysApart`: `Spec => ImplementsService`, the
  refinement of `PtyService`, for any number of processes and lines (the run has two
  of each). `ServiceStep` maps every step of `PtySession` to a step of the service
  or to a stutter; `Seen` reads a step of a process off what it does to that
  process's view, and `BarFrame` says that it changes nobody else's. `Requests1`
  is what the service does to a queue of one request, `SessionsBar` that logging in
  and out changes the session of one line, if it has a place in utmp, and
  `NoSessionLeft` that nothing of an
  object that is put away is left in utmp.

`WtmpFile_proofs` proves for any writers, attempts and size, from
`FileAssumption`:

- `TypeCorrect`, `WritersExclude` from `FileInv`. `OneWriter` is not inductive:
  `LocksApart` adds that each who may change the file has the last position
  locked, in ranges that are disjoint, and `SizeKnown` that the size to which
  `ftruncate` would cut is still right.
- `StaysAligned`: `Aligned` from `WholeInv`, which says where a bad write is.
- `FileIsLog`: `Spec => ImplementsLog`, the refinement. `LogGrows` and `LogShrinks`
  say what a write and `ftruncate` do to the list of whole records: it grows by
  one, or it stays.

`PtyProgram_proofs` proves for every size of the descriptor table from eight on
and every `MaxOut`, from `ProgramAssumption`:

- `TypeCorrect`, `ShellHasItsTtyAlways` and `StdinKeptAlways`. All three follow from
  `ProgramInv`, which knows each process's whole table from where it stands
  (`ParentInv`, `ChildInv`, `HelperInv`): whether the lowest free descriptor is the
  one that the object then names, and whether `ttyslot`'s lookup puts back what it
  found, depends on all entries below. `AnswerInv` adds that the helper is asked
  for a pty once, with nothing left of it, and that the answer arrives whole.
  `LowestIs` and `SlotLookupSame` are about the operators; the others follow one
  table through one call.

`Helpers_proofs` proves from `VecAssumption` and `ValuesAreOrdered`, for every
element type, every `Width` up to 32 and every `MaxArg`:

- `SizesStayFit`, `ObjectsAreElementsAlways` and `ActsAsSequenceAlways`, from one
  invariant. `VecInv` says that the vector is `Holding(c, r)`: it holds the
  sequence `c`, has room for `r` and owns no other object. It is needed because
  what an operation may do to a cell depends on what is in all of them: `ins`
  assigns to cells that `construct` filled a line earlier and moves elements
  within one buffer. For each operation one lemma (`InsertIs`, `EraseIs`,
  `PushBackIs`, `ResizeIs`, `AssignIs`, `FindIs` ...) says that it takes
  `Holding(c, r)` to `Holding` of the sequence that it should make of `c`, and
  `VecNext` is their sum.
- Loops: `ConstructIs`, `DestructIs`, `CopiedIs`, `AssignedIs`, `ShiftLoop` and
  `CloseLoop` say what every cell holds after so many rounds. Induction over the
  rounds is done by the smallest counterexample (`Least`, `UpTo`).
- Numbers: `HighestBit` shows that `ecb_ld32` finds the highest bit of every
  32 bit number, `GoodSizeFits` that twice that is more than was asked for and
  fits `size_type` up to `max_size ()` elements.
- `LessOrders` says that `operator <` decides by the first difference, if the
  order of the values is total; `ValuesAreOrdered` is used there only. That two
  vectors are equal or one is less is claimed only where objects of one value have
  the same bytes, as those of integers and pointers do.

From `SentAssumption`, for every `MaxSent`, it proves `ReceivedAreHandled`
(`OnlyExtrasLeak`): `LengthCovers` says that the length, once limited, covers
exactly the descriptors in the buffer, whatever was sent and claimed.

Left to TLC. Liveness under fairness, and with it the fairness of `PtyService` in
the run `proxy_service` (`ImplementsService` there is `Service!FairSpec`; the
theorem is about its safety part, `Service!Spec`). `IdsApart` of `UtmpId`: an id is
read digit by digit with folds over sequences, which the provers know nothing
of; the run goes through every line there is a claim about.

## Not modelled

- STREAMS modules and `set_utf8_mode` change a line's settings, which no property
  speaks of; they read and write no state of the library.
- Of `ecb.h` all but `ecb_ld32`: vendored, stateless, and not called.
  `scoped_ptr` and `scoped_array` of `estl.h` are not used.
- lastlog: the library writes one record of a user's last login to it and never
  reads it, and no order is promised between the logins of one user.
- System calls that fail without the code taking notice: a write to utmp,
  `chmod` and `chown` of a line (`ptytty.C:337` says that they fail silently), the
  `ftruncate` of `updwtmp`, and the `dup` of the slot lookup (after which standard
  input would stay the tty).
- `bad_alloc` inside the vector: the library only calls `push_back`, which
  changes nothing before it has allocated.
- A second `get` on an object that has a pty: outside the documented use.
- Threads that share one process's `fcntl` locks in `updwtmp`: the library
  promises reentrancy for calls through the helper, which has one thread.
- Texts: of errors, of user and host names, of times in records.

## Plan

1. `PtyProxy`, `PtyService`, their refinement, runs and first proofs (done).
2. `PtySession` and its refinement of the same service (done), its proofs (done).
3. `PtyStartup` and its proofs (done).
4. `WtmpFile`, its abstract log and its proofs (done).
5. `FdPass`, `SimpleVec`, `UtmpId`, `PtyProgram` (done).
6. `TokenMeansQuiet`, `OwnsItsPty`, `CommandsReachOwner` and `NothingLeaks` of
   `PtyProxy`; `PtySession` implements `PtyService`; `HelperKeepsPrivileges`;
   `PtyProgram`; `PtyProxy` implements `PtyService`; `SimpleVec` and `FdPass` (done).
