# A TLA+ model of junkdrawer

junkdrawer is a collection of programs and small libraries that have nothing
in common but their author. This directory models the ones that keep state
that matters: who owns it, who may interleave with whom, and what must hold
whatever the order. `PROJECT.json` lists the runs, the mutants, the lines each
definition stands for, the hazards and the theorems.

## 1. Inventory

| component | state | operations | what is hard | what makes it correct |
|---|---|---|---|---|
| **queue** (`src/queue`) | a directory: temporary names, item names, inodes with their locks; per worker a snapshot of the directory, an open file, a child | `queue-add`: create, copy, rename. `queue-worker`: glob, open, stat, flock, stat, fork, wait, unlink, sleep | any number of writers and workers without a server; deaths between any two system calls; a lock that belongs to an open file *description* which parent and child share | items appear whole; one program per item at a time; an item goes only when a program accepted it; nothing stays behind for ever |
| **ring buffer** (`src/c/ring.[ch]`) | array, pointers `r` and `w` in plain memory | `ring_read`, `ring_write`, `ring_clear`, the tests | a reader and a writer without a lock | the two sides together are a bounded FIFO |
| **rivulet** (`src/rivulet`) | `buf`, `len`, `pos`, `overruns`, `eof` | read, write, unread, pop at 8, 16, 32 bits; rewind | words that fit only in part; a flag that is stored rather than computed; a tail that moves | consistent struct, every byte accounted for, words read back |
| **OPC client** (`src/opc/opc.py`) | socket, connection policy | `can_connect`, `put_pixels`, `disconnect` | `send` may take a part; the peer may go at any call | a server never takes a pixel for a header; the result says what happened |
| **OPC navigator** (`src/opc/opc-navigator.py`) | LEDs, cursor, size of the window | keys, resize, send, repaint, quit | window, screen and strip change at different moments | screen, cursor and strip agree; a repaint never fails |
| **jupe** (`src/c/jupe.c`) | socket, receive buffer with two offsets | connect, read, parse, restart | lines cut by reads; a parser and a restart that call themselves | each line is handled once, whole, in order |
| **mctlife** (`src/c/mctlife.c`) | the world | load, generation | the torus' edges; unsigned centring | the pattern is shown where it belongs; the rules of Life |
| **gifread** (`src/c/gifread.c`) | position in a file, one buffer | header, tables, blocks, extensions, sub-blocks | every length comes from the file | blocks are found where they begin; nothing behind the buffer; an end |
| **iflist, all_if** (`src/c`) | a growing buffer, the kernel's list | list, flags, address | interfaces come and go between the calls | what was there all the time is found |
| **cdiff** (`src/bin/cdiff`) | level, banner, what was read of two files | read, compare | what a line means depends on the lines before | exactly the differences, each at its level |
| **solo** (`src/bin/solo`) | one bound port that outlives exec | bind, exec, alarm | the job's background; numbers cut to 16 bits | one job at a time |
| **setuidgids** (`src/setuidgids`) | the identities of a process | initgroups, setgid, setuid, exec | the order; a call that fails | nothing of the caller is kept |
| **dead-parent-hups-child** (`src/c`) | a signal that is asked for | prctl, exec | the parent dies first | orphans only for known reasons |
| **crc16, aes-eax** (`src/c`) | an accumulator; data changed in place | sum; encrypt, decrypt | widths; a call that fails half-way | the remainder; what is decrypted was encrypted |
| djb-hash, maildir-deliver, killmosh, scripts, language examples, third-party code | - | - | - | see *Not modelled* |

The components do not call each other, but for one pair: the navigator uses the
client. Inside the queue, writers and workers meet only in the directory and in
the kernel's locks; in the ring, the two sides meet only in `buf`, `r` and `w`;
the processes of solo meet in the kernel's table of ports; jupe, the OPC client,
the interface programs and the wrappers meet what is outside of the repository
(a server, the kernel's interfaces, a parent, a caller), which the models contain
as actions of their own.

## 2. Plan

Done: every component above whose name is in bold.

The modules that can be proved about use no `RECURSIVE` operator. What the plan
has left:

1. Several OPC servers for one navigator: a frame that reached the first and
   not the second.
2. A second instance of the delivery protocol for `maildir-deliver`.

The abstract specifications are stated so that they say what a *user* of the
component may rely on (`QueueAbs`, `RingAbs`); for jupe the reference is the
division of the whole stream into lines, for gifread the GIF format, for cdiff
what a configuration says when the whole of it is seen, for mctlife the pattern
and the torus without its edges.

## 3. The modules

### Queue, QueueAbs, QueueRefinement, QueueMC, QueueProofs

`Queue` has one action per system call of `queue-add` and `queue-worker`.

| variable | code |
|---|---|
| `name[i]` | the directory entry of item *i*: none, `.prefix`, `prefix`, unlinked; `"orphan"` is a temporary file whose writer is gone |
| `taken[i]`, `stored[i]` | 32k chunks read by the loop at line 40, and those that reached the disk |
| `pc[w]` | the next system call of worker *w* |
| `todo[w]`, `num[w]`, `file[w]`, `fd[w]`, `before[w]` | the rest of the glob, `$num`, `$file`, whether the worker still has `$fd`, `$links_before` |
| `locked` | the workers whose open file description of their file holds the flock |
| `child[w]` | the forked program, from the fork to the `waitpid` |
| `done` | history: which worker's program accepted which item |

An *item* is a call of `queue()`: a fresh inode with a fresh name. Item numbers
are the order of the names, hence the order of the glob; the order in which
items become visible is free. Names are assumed distinct. A worker that is
restarted is another member of `Workers`.

The flock belongs to the open file description, which the child's standard
input shares. So the lock goes when the last of parent and child has let go of
it: `CloseFd`, `ProgramExits` and `Dies` each release it only if the other side
does not have it. `Dies` models a kill and the `die`s of `open`, `flock` and
`fork`; the program that was started runs on. `UnlinkDies` is the `or die` of
line 92 when another worker has removed the item.

`QueueAbs` is the promise without processes: items appear, at most one program
is busy with an item, an item is removed only after it was accepted. It allows
an item to be begun again after its removal, since the code does (section 5).
`QueueRefinement` maps the processes to it.

### Ring, RingAbs, RingProofs

Two contexts: a writer that has seen the ring not full, and a reader that has
seen it not empty or clears it. Each load and store is a step. `r` and `w` are
offsets. No program in the repository uses the ring; the obligation to test
before the call is what the functions' lack of any check asks of their callers.
`RingAbs` is a bounded queue in which a put begins with a character and ends
with that character in the queue, a get is one step, and a clear drops exactly
the characters that were there when it began; what is written between the load
and the store of `ring_clear` stays.

Stores are taken in program order, as the usual build emits them. The header
declares `volatile char *r, *w`, which protects the characters, not the
pointers; a build that moves the pointer store before the character's is
outside the model.

### Rivulet, RivuletProofs

The struct is a record, the functions map records to records, and an action is
one call. Bytes are digits of `Base` (256 in the code, 2 in the run): the shifts
and masks of the source are division and remainder. `ret` is the result of the
last call. A word is moved byte by byte, so a call may succeed in part.

`rivulet_pop_u16` puts the *last* byte of the buffer into the high half, so a
word that was written big-endian at the end is not what pop returns. The
comment at `rivulet.c:172` can be read either way; no property is stated of it.

### Opc, Navigator, NavigatorProofs

`Opc` has the client's connection as its state: `sock` is whether `_socket` is
set, `call` and `opcpc` say where in which method it is. A message is a header
and one unit for each pixel. The network is external: a connection is a sequence
of units that holds `Room` of them; `send` takes what fits. A server reads one
connection after the other and is *out of step* when it takes a pixel for a
header. It may go and come back; a client that sends into a connection that is
gone does not learn of it with the first call. `torn` and `handed` are
histories: whether a message was cut, and how much of the last one was taken.

`Navigator` EXTENDS `Opc`. `navpc` follows the loop of `Screen.__init__`:
update (the frame goes out through `PutPixels` and the actions of `Opc`), draw,
getkey. `Spot` is where `paint` places a box, `Drawn` the boxes it reaches, and
`BoxFails` what makes `curses`, or the assertion of `Box.draw`, stop the program.
`Resize` computes `boxes_per_row` on its own: that it agrees with `Spot` is
`UpAndDown`. `curses` learns of a new size with `KEY_RESIZE`; boxes and rows
are counted with the same size.

### Jupe, JupeProofs

`buffer` is the part of `robot.buffer` in front of `write`, so `write` is its
length. One action per system call, and one for each line or run of line ends
that `parse_data` meets. `parse_data` calls itself for every line; the innermost
call moves the rest to the front (`ParseRest`) and the calls around it find
`read = write` or `read = 0` and move nothing more. `Split` divides the stream of
all connections into lines, without a buffer, for `LinesOfStream`. `fatalrestart` never returns:
it calls `run_client` again, which is why it is a state of the same program and
why its number is bounded here as it is by the stack there. `connection` tells a
connection the server has closed, of which the client reads what is left and then
nothing (0), from one that was reset, of which a read fails with the rest unread.

### Gifread

One action for each place where `getbytes` is called. `GetBytes(count, next)`
reads, and ends the program if there was not enough. `Ubuf(i)` reads the
buffer with the `'\0'` that `getbytes` has put behind the bytes: that is what
`getbytes(0)` finds in a plain text extension. `starts` says where the parts of
the file begin, which the program does not know. `IsGif` is the format, from the
outside: a chain of sub-blocks is a set of places that leads from each member to
the next, an image or an extension is what lies between two starts.

### Life

`Place` and `Column` are the arithmetic of `loadfile`, `HW` that of the torus,
`Generation` a generation. A line of the file is abstracted to its kind, its
cells and whether it ends in a newline. `pattern` is the whole file; `PatternShown`
says which of its lines are rows, and to which cells each of them goes.
`GliderTravels` is about the file of one well-known pattern, `Glider`, which is
stated here since the theorem on it holds of every world.

### Ifaces

Both programs in one module, since they make the same system calls: `prog` says
which. The kernel's interfaces change between any two calls (`Change`), at most
`MaxChanges` times; `steady` are those that have not. After `GiveUp` all_if uses
a buffer it has freed, so the list it walks is any list at all.

### Cdiff

`router` holds pairs of a level and a line. One action for each way a line is
treated, `Missing` the comparison of one direction. Texts are model values.
`Says`, `Below` and `CommandsIn` are what a configuration means, from the whole
of it: which lines are in a banner, which commands there are, and which command
another is below. `Orderly` is asked of it: a sub-command has a command above.

### Setuidgids, DeadParent, Solo

One action for each system call, beside the rules of the kernel that matter
(who may call `setgid`; when the parent's death sends a signal, and what makes
`execve` forget it; which addresses exclude each other). In `Solo` the socket
belongs to the job and to all that the job leaves in the background.

### Eax, Crc

`Eax` follows the two functions call by call, over an ideal cipher: a MAC or a
block of key stream is an atom, a string a set of atoms. What was sent may
arrive changed (`Arrive`), among all nonces, headers, texts and two tags.
`Crc` has the real table and the real widths. A byte or a word is the set of the
bits that are 1 in it, so that `^` is a symmetric difference and the shifts move
the members; `Entry` is the table with its indices and entries in this form.

### Readers, System

For TLC: one instance of each group of programs, to be checked in one run. A
behaviour is that of one program; the variables of the others do not change.
They also hold the inputs: `Readers` writes files from their structure (`Gifs`,
`Patterns`, `Configs`). The references of the properties are tested by it as well:
an initial state needs `IsGif` of every file written as a GIF file, and what
`CommandsIn` says of a configuration must be what it was written from. As many
states are reached with these conditions as without them.

### Induction, KernelProofs, ReaderProofs

`KernelProofs` holds what is proved of the programs that deal with the kernel
(`Setuidgids`, `DeadParent`, `Solo`, `Ifaces`), `ReaderProofs` what is proved of those
that read something to its end (`Gifread`, `Life`, `Eax`, `Crc`, `Cdiff`). `Induction` has the
lemmas on natural numbers and sequences that several proofs need: a non-empty
set of numbers has a least element, a bounded one a greatest; a set with 0 and
with every successor has every number; what is defined by recursion exists; a
quotient grows by one or not at all when its dividend grows by one (`NextQuotient`).

## 4. The runs

| run | instance | question |
|---|---|---|
| `QueueCrash` | 3 workers, all with `-s` and `-m 1`, all mortal; 2 items of 1 chunk; symmetric | Is it still an exclusive at-least-once queue when anybody may be killed anywhere? |
| `QueueLive` | 2 workers with `-s`, immortal; 2 items of 2 chunks | Is the queue drained, does somebody survive, is every visible item whole? Deadlock is checked. |
| `QueueCrashLive` | 2 mortal workers, one with `-s`, one that runs once with `-m 1`; 2 items of 2 chunks | Is it drained as long as the one with `-s` lives? |
| `QueueHandled`, `QueueOnce`, `QueueDiskFull` | 2 workers, 1 item | the disagreements of section 5 |
| `Ring` | 4 slots, 3 characters | Are the two sides a FIFO? |
| `Rivulet` | a buffer of 5 bytes or none, base 2, 4 overruns | Is the struct consistent, is every byte counted, do words read back? |
| `Readers` | files of up to two blocks, whole, cut short or one byte too long; patterns on a 5 by 6 torus, 24 generations; two nonces, headers and three texts; every byte, and buffers of two; pairs of configurations of up to two commands | Is every block found where it begins, is the verdict right, does it end? Is a pattern shown and does it live by the rules? Is only what was encrypted decrypted? What does the CRC return? Are the differences shown? |
| `System` | a buffer of 3 characters, 5 sent, 1 restart; 3 interfaces; 3 identities; 2 processes of solo; 3 LEDs, 4 units of room, a server that goes once | Is each line handled once? Are interfaces found that stay? Is anything of the caller kept? Do two jobs meet? Is the server ever out of step? Do screen, cursor and strip agree? |
| `OpcSend` | 2 LEDs, 4 units of room | a disagreement of section 5 |
| `CrcErrors` | every byte, and buffers of two with one bit changed | a disagreement of section 5 |

`QueueCrash` and `QueueCrashLive` do not check deadlock: when every worker has
died or reached its maximum, nothing runs any more, and that is right. The same
holds of `Readers` and `System`, whose programs end.

**Bounds.** Three workers are the smallest number for which the file of a dead
worker's running program can be contended for by two others; two items are
enough to leave one behind, to serve them in an order other than the one in
which they appeared, and to make a list stale. Two chunks give a file a state
that is neither empty nor whole. In the ring, four slots are more than the two
in use at any moment, so that full, empty and wrapped are different states.
A buffer of five bytes is longer than the widest word and not a multiple of it.
`MaxOverruns` only stops the counter.

In `Readers`, two blocks are the fewest with a boundary between blocks, and
every kind of block is in every place; the largest colour table is among the
files. A torus of 5 by 6 is the smallest that is allowed in one direction and
not square; 24 generations take a glider once around the higher side and across
a corner. Two commands with up to two commands below are enough for a level that
is entered, left, and entered again.

In `System`, a buffer of 3 holds a line and its end, two lines, or a line that
is too long, and 5 characters fill it, cut it anywhere and go on after a
restart. With blocks of one name and three interfaces the buffer grows, and
all_if can give up. Three LEDs make windows with one, two or three boxes in a
row different, and a strip that is cut by the end of the screen; the windows of
`InstWindows` have room for everything, for a part, for a box without a warning,
and for nothing. With room for one message, a message that meets an unread one
is cut at every place. The numbers in `Uids` and `Ports` include those that are
equal in 16 bits.

**Fairness** (`FairSpec`, the liveness runs only). Each worker that can make a
system call makes one: the scheduler's promise. A program that was started
ends: without it `waitpid` waits for ever, by design. A program that is given
items again and again accepts one again and again (strong fairness): an item
that no program ever accepts stays in the queue, by design (line 88). Nothing is
assumed of `queue-add`, which may stop anywhere. `EventuallyRemoved` needs all
three; it excludes the case that every worker with `-s` and no `-m` has died.

`Readers` assumes that gifread goes on while it can; the other programs of that
run may stop anywhere. `System` assumes that jupe makes its next call when
`select` lets it, and that a read of a reset connection fails in the end (nothing of
the server it talks to, nor that it ever closes a connection), and that an OPC server
that is up reads what has arrived. Nothing is assumed of the network, of the
user, or of the server's staying up.

**Mutants.** For each property a plausible bug (the operators whose comment
begins with *Mutant of*) is put in the place of a definition and must violate
it: a lock that is shared, or is lost when the parent closes its copy (as with
`fcntl` locks), an exit status that is ignored, a rename before the copy, a
guard that is dropped, a bound that is off by one, and so on.

## 5. Where code and documents disagree

* `QueueHandled`: the comparison of link counts cannot notice a removal that
  came between the `open` (line 63) and the first `stat` (line 69): both counts
  are 0. The program is run on an item that is gone.
* `QueueOnce`: the parent closes its descriptor before `waitpid` (line 42), so
  the lock is released when the program exits, before the `unlink`. A second
  worker can run the program again on an item that was already accepted, with
  nobody killed; the slower worker then dies in `unlink ... or die`.
* `QueueDiskFull`: `print` and `close` in `queue-add` are not checked, so a full
  disk leads to a truncated item with a valid name.
* `OpcSend`: `put_pixels` drops the result of `send` (line 167) and returns True,
  "on successful transmission of pixels", when a part of the message was sent.
* `CrcErrors`: `crc` is a `uint8_t` (line 79), so the result depends on the last
  byte alone; the comment at line 11 promises to detect errors in any number of
  bits. `LowByteOfLastRemainder` says what the function does return, and
  `OnlyLastByteIsChecked` which errors it notices, in a buffer of any length:
  those in the last byte, all of them, and no others.

What remains true in spite of the first two is what `QueueAbs`,
`OncePerWorker` and `SomeWorkerSurvives` say: never two programs *at a time*,
never twice by the same worker, never the death of all workers.

The models show more, stated as what *does* hold:

* gifread never reads the text of a plain text extension: `getbytes(0)` at line
  283 is followed by a look at the `'\0'` it has stored. The parser goes on in
  the middle of the extension (`BlocksFoundInPlace`, its second disjunct).
* A line longer than jupe's buffer ends its reading for ever (`FullBufferIsTheEnd`), and a
  restart joins half a line of the old connection to the first of the new one
  (`LinesOfStream`). Its answer to a PING is the letter P, since `toparse[1]` is
  cleared (`replies`).
* A parent that dies before `prctl` leaves an orphan, although the program is there
  "so that we don't end up with orphaned ssh processes"
  (`dead-parent-hups-child.c:10`). `OrphansExplained` lists this and the other
  reasons: SIGHUP is ignored from the beginning, the program is set-user-ID, or it
  catches, blocks or ignores the signal itself.
* solo excludes nobody with port 0 or a multiple of 65536 (`OneJob`), and takes
  root and user 64512 for the same.
* A pattern file whose last line has no newline is refused by mctlife.
* A repaint of the navigator fails in windows too narrow for the warning, and a
  lost connection ends it with an error of its own, since a string cannot be
  raised (`CrashesExplained`). In windows narrower than a box and its kerning
  the keys for up and down leave the cursor where it is; as every move does, they
  light the LED there and no other, which shows after all had been lit.
* cdiff does not show what is below a command in one router when there is nothing
  below it in the other (`OneSided`); its flowchart says as much.

## 6. What is proved

TLAPS proves, for any number of workers, items and chunks, any ring size, any
buffer and any base:

* `QueueProofs`: `TypeCorrect`, `ExclusiveRuns`, `NothingLost`, `WholeItems`
  (assuming that no write fails), `Survivors`, `AcceptedOncePerWorker`,
  `Refinement` (`Spec => ImplementsQueueAbs`) and `PassesEnd`.
* `RingProofs`: `PointersInRange`, `Disjoint` and `RingIsFifo`
  (`Spec => ImplementsFifo`).
* `RivuletProofs`: `StructConsistent`, `BytesCounted`, `PoppedStay` and
  `WordsRoundTrip`.
* `JupeProofs`, for a buffer of any size, any characters and any stream:
  `JupeTypes`, `BufferIsKept`, `OverlongLineIsTheEnd`, `LinesComeWhole`,
  `ParsingEnds`.
* `NavigatorProofs`, for any number of LEDs, any colours, any room in the network
  and any windows: `ServerKeepsItsPlace` (the client alone) and
  `NavigatorKeepsPlace` (under the navigator), `NavigatorCrashes`, `OneLedOrAll`,
  `StripShowsScreen`, `UpAndDownAgree`; and, of a connection that is open or was
  closed by either mode, `LastFrameIsShown` and `QuitDarkens`.
* `KernelProofs`: `NothingOfTheCaller` for any accounts, `NoOtherOrphans`,
  `OneJobAtATime` for any processes, users and ports; `DeviceIsFound` and
  `InterfacesAreShown` for any interfaces and changes of them between any two calls,
  `ListingEnds` for these and a buffer that begins with any size but 0.
* `ReaderProofs`, gifread: `GifTypes`, `BufferHolds`, `ContentAtTrailer` and
  `EveryStepSpends` for a file of any bytes; `EveryBlockFound` and `EveryVerdictRight` for
  a file that is a GIF file of any blocks, or the beginning of one, or longer.
* `ReaderProofs`, mctlife: `LifeTypes`, `RulesOnAnyTorus`, `AnyPatternShown` and
  `GliderTravelsOnAnyTorus`, for any file and a world of any size.
* `ReaderProofs`, crc16: `OnlyLastByteCounts` and `OnlyLastByteIsChecked`, for any
  buffer and any seed.
* `ReaderProofs`, AES-EAX: `AuthenticatedDecryption` and `FailureIsClean`, for any
  strings and texts, over the ideal cipher.
* `ReaderProofs`, cdiff: `EveryDifferenceShown`, for any two files whose sub-commands
  have a command above them and whose commands are not called `MAIN`.

The only assumptions are the ones named in the modules (`ParametersOK`,
`RingParameters`, `RivuletParameters`, `JupeParameters`, `OpcParameters`,
`NavigatorParameters`, `IfParameters`, `LifeParameters`, `SetuidgidsParameters`,
`SoloParameters`, `CrcParameters`), which TLC evaluates in the runs, and what the list
above says of the files (`IsGif`, `Orderly`), which the inputs of `Readers` satisfy,
and, for `ListingEnds`, that `BlockSize` is not 0: the programs begin with 1024 and
4096 entries, and add 1024 or double the number. `TableOfPolynomial` and `LowBytesDiffer` are facts
on the 256 entries of `crc_table` that have no parameter; TLC evaluates them
completely, and the theorems on crc16 rest on them.

**The argument for the queue.** `NoConcurrentRuns` is not inductive: it says
nothing of locks. The strengthening has three parts. `PcInv` says what a
worker's place implies (a file is chosen, whether the descriptor is open, in
which places a child may exist). `LockInv` says that locks of one file exclude
each other and that a running program's worker still has its lock, dead or
not; with it the fork of a second program on the same item is impossible, and
that is `ExclusiveRuns` and the `Begin` step of the refinement. `DoneInv`
relates a child that exited with 0, and a worker about to unlink, to `done`;
that gives `NothingLost` and the `Remove` step. For `Survivors`, a worker is
*doomed* while the item it works on is already removed; `SurvivorInv` says that
some running worker is not doomed, and a removal, which may doom all the
others, is made by such a worker. `OnceInv` says where a worker can be once its
program has accepted an item, and that gives `AcceptedOncePerWorker`. For
`PassesEnd`, `CallsLeft` is ten for every file that is left of the glob plus the
number of calls that are left for this file. It falls with every call of the worker
and with no other's: files that are added meanwhile belong to the next pass.

**The argument for the ring.** The invariant adds to the types that a writer
between its test and its advance still has a free slot in front of `w`, that a
reader has a full one at `r`, that a stored or loaded character is the right
one, and that the pointer `ring_clear` has loaded lies between `r` and `w`. Each step then is
a begin or end of a put or a clear, a get, or a stutter; the arithmetic of the
wrap is stated once, in `RingArithmetic`.

**The argument for the byte stream.** One lemma per byte function; the words
follow by composition, and partial words need no case of their own because a
byte that does not fit is an overrun of one. `WordValue` shows that the digits
`WriteWord` takes from a word make up the word again.

**The argument for gifread.** `NoOverrun` alone says nothing of the flags a
length is taken from. `GifInv` adds how many bytes the buffer holds where one of
them is read (the types), that a byte is less than 256, and that the last byte
read is the trailer's at the end. The sizes of the colour tables are bounded by a
lemma of their own, eight cases. For the blocks, `WhereIs` says for each place in
the program where in the file it is: in front of the first block, at a start, or
in a part, and there (`InPart`) how many bytes behind its start, with the byte its
next length is taken from; in sub-blocks, at a member of the chain. Each getbytes
then leads to another such place, to the next start, or behind the end of a file
that is cut short. A plain text extension leaves all this for ever, which is the
last disjunct. `EveryStepSpends` is the argument for the end of it: twice the bytes
left and a weight of the place, three for the call that asks for no bytes, fall
with every step.

**The argument for jupe.** `WithinBuffer` is inductive together with the types:
`ParseRest` moves only what is behind `read` to the front, and it is taken only
when there is no line end in that part. Once the buffer is full outside of the
parser, only `ReadNothing`, `ReadFails`, `Restart`, `Terminate` and the server's
steps are possible, and none of them touches the buffer. For the lines,
`UnreadInv` says that the buffer from `read` on is the end of the stream, and that
`Split` of the stream before it has given the handled lines and no rest. A line
that is handled moves that point by the line and its end; `Split` over a stretch
without an end only appends to the rest, by induction over the stretch. For
`ParsingEnds` a character counts four until it is read and two until it is parsed,
and one is added inside the parser: a read of at least one character pays for the
call of the parser after it, and a line for the next call.

**The argument for OPC.** The streams are what the server has of a message
followed by what is in the connection. `StreamInv` says that, until a message is
cut, a header stands at the beginning of every stream and `NumLeds` + 1 units
behind every header, and nowhere else; so the server, which has counted as many,
meets the next one. `GotInv` keeps its count below a message.

**The argument for the navigator.** `NavCallInv` ties the places of the navigator
to those of the client: the message is the LEDs as they are, since no key is read
while it goes out. `ShowInv` says that after a complete frame the end of the
client's stream shows the LEDs, or the strip does if the stream is empty; it needs
the whole of `OpcInv`, because only a server in step puts a unit where it belongs. It also
holds of a connection the client has closed, since the end of the last stream stays
what was handed to the kernel: hence `LastFrameIsShown`, where no frame follows that
could repair a wrong one, and with the LEDs that `quit` has put out, `QuitDarkens`.
For `UpAndDown`, `Spot` is a recursive function; `SpotClosed` gives it as quotient and
remainder by the boxes in a row, by `SetInduction`, and the rest is arithmetic.

**The argument for the wrappers.** `SuInv`: after `initgroups` has succeeded the
effective user is 0 until `setuid`, so `setgid` and `setuid` change all three
numbers. `DpInv`: from `execvp` on the signal has been asked for unless the
program changes identities. `SoloInv`: a process between bind and its last
child's end holds the address its arguments stand for, and no two hold the same.

**The argument for the interfaces.** `DeviceComes` and `UpComes` say of each
interface that has not changed that it was taken or is still in the list.
`BetweenCalls` says that the name asked about is the first in the list, in both
calls, and that a steady one that was up is up still. A grown buffer begins the list anew,
before anything was taken from it. For `ListingEnds` the program is in one of four
phases and never returns to an earlier one; in the second the buffer grows while
the answer fills it, which no answer does once it has room for one entry more than
there are interfaces; in the third, `CallsForNames` falls.

**The argument for mctlife.** That the eight cells around one are different, also
across the edges, is where the torus has to be at least as wide and high as `main`
demands; then a sum of eight bits is the number of live neighbours. `ShownInv` says
of a file that is half loaded that the world is what its rows so far make of it,
rows being counted by cardinality, so that a row has one number and no other row
has it. A glider is followed through its four shapes, each described relative to a
corner that moves. They lie in four rows and columns from that corner on; with one
more, which is the fewest `main` allows, what is below the glider is not above it,
wherever the edges of the world run through it. `ShapeFollows` is the rule for every
place counted from the corner, `NextQuotient` says how far the corner has gone.

**The argument for crc16.** `crc` keeps eight bits, and nothing of eight bits is left
when they are shifted down by eight. So the table is indexed with the byte itself, and the
low byte of that entry is the result. That the low bytes of the 256 entries are all different makes
every error in the last byte visible.

**The argument for cdiff.** `ReadUpto` says where cdiff is when it has read *n*
lines: whether the beginning was found and a banner is open, which command (if
any) the next sub-command is below, and that what it has collected is what the
first *n* lines say. `QuietLine` and `CommandLine` take it one line on. That each
sub-command is below exactly one command is proved with `NatGreatest`. What `Missing`
shows of two collections follows because a command's level is a command itself.

**The argument for AES-EAX.** `EaxInv` says of each place which of the three MACs
have been computed and over what, and that the data is what the mode and the
place make of it. That equal tags mean equal nonces, headers and data follows
because MACs of different domains are different atoms; this is where the three
values of `buf[15]` are needed.

**Induction.** The library's theorems on induction take an operator, which the
provers cannot instantiate. Where a proof needs induction, the set of the numbers
with the property is formed and `SetInduction` applied to it (`Split`, `Spot`, `Present`). In most
proofs the program's own steps are the induction, once the reference is stated
without recursion: by a set of places, a cardinality, or the last line before.

**Only model-checked.** Every safety invariant and every action property of the
passing runs is proved. What stays with TLC is liveness, since fairness and
`ENABLED` are out of the prover's reach: `EventuallyRemoved`, `GifreadEnds`,
`AllIsRead`, `DarkAfterQuit`. The part of each that needs no fairness is proved, in the
same order: `PassesEnd`, `EveryStepSpends`, `ParsingEnds`, `QuitDarkens`. What the
runs add is that the steps these count are taken at all. Everything in section 5
that a run of its own shows is shown by a counterexample.

## 7. Not modelled

* In the queue: options, messages, the contents of items (so not the test
  `if ($data)` at `queue-add:36`, which takes a last line `0` for no data), equal
  names, and which item a worker with `-m` leaves to others.
* What programs print and draw: the fields of gifread, the screens of mctlife and
  the navigator beyond what makes them fail, the order of cdiff's output.
* More than one OPC server for a navigator; the clamping of colours.
* In jupe: what is sent when it connects, and the ten seconds between.
* In gifread: a file that cannot be sought, for which the two calls of `ftell` fail.
* In solo: a job that closes the descriptors it has inherited, which frees the port,
  and a socket whose descriptor is above 10, which `$^F` does not keep over `exec`.
* The branches of `all_if.c` for systems with `HASSALEN`.
* `c/djb-hash.c`: a multiplication and an addition per character; a property would
  restate it.
* `bin/maildir-deliver` makes the calls of `queue-add`, once; what the queue's model
  says of them, the unchecked write included, holds of it.
* `bin/killmosh` reads the process table once and signals what it found.
* The imp animation: it draws, and its only state is the frame it is at.
* `bin/`: filters and wrappers with no state beyond a line; `src/c`: examples of
  a single call or rule of the language. There is nothing to interleave.
* `c/nuke.c`, `c/jailbird.c`, `c/ios-decrypt.c` and `bin/ios-decrypt.pl` are
  tools that test or undo the protection of other systems; they are no subject
  for this project.
* `bin/aws.timkay`, `bin/xmlpp`, `libperl`: third-party code, or a wrapper of
  system calls. `perl/` and `python/`: examples and fragments.
