# sys11: models and proofs

TLA+ models of the software of sys11, a computer built around a 68HC11, with the
TLC runs that check them on small instances and the TLAPS proofs that settle, for
every size, the main properties of both heaps, the shell, the transfer of a
program, the memory tests, the S-record digits and the division. Both heaps and
the shell are proved to implement their abstract specifications. `PROJECT.json`
maps every definition to the source lines it stands for. Paths below are relative to `src/`.

## 1. The system

sys11 is a set of small programs rather than one. What runs on the board:

| component | source | state | operations |
|---|---|---|---|
| heap, reference algorithm | `tests/malloc.c` | `mem`, `head`, the free list in the free blocks | `mem_init`, `mem_alloc`, `mem_free` |
| heap, early draft in C macros | `tests/mallasm.c` | the same, and four soft registers | the same three |
| heap of the monitor | `monitor/mm.asm` | the heap, `head`, the soft registers `st0`..`st3` that outlive calls | `mm_init`, `mm_alloc`, `mm_free` |
| shell | `monitor/shell.asm`, `stdio.asm`, `string.asm`, `stdlib.asm`, `serial.asm` | `scmdbuf`, `argc`, `argv`, `rlopts` | `readline`, `shell_parse`, `shell_exec`, `app_main` |
| block devices | `monitor/device.asm`, `bdev_ram.asm` | `devices`: eight pairs of a table of functions and a private pointer | `device_init`, `device_getblocks`, `device_readb`, ... |
| start and vectors | `monitor/start.asm`, `vectors.asm`, `softregs.asm` | the stack pointer, the mapping of the registers | `_start` |
| SPI driver | `monitor/spibus.asm` | none | stubs that return |
| S-record loader | `bootloader/stage2.asm` | the line buffer at 0x100, `len`, `addr`, the memory | one record at a time: `rxsrec` .. `snine` |
| HDLC loader (unfinished) | `bootloader/hdlcrx.asm` | a frame buffer, the escape flag | `rxsof` .. `exec` |
| memory tests, dumpers | `bootloader/ramtest.asm`, `romtest.asm`, `xramtest.asm`, `dump.asm`, `dumpee_e2.asm` | a pattern, a pointer | fill and check; dump |

and on the host that talks to it or builds for it:

| component | source | state | operations |
|---|---|---|---|
| uploader | `tools/upload.py` | the serial port, the position in the file | bootstrap transfer, `upload_srec`, terminal |
| Motorola assembler | `masm/*.c` | the symbol table, the forward references file, the location counter, the record being built | two passes over the source |
| 32 by 16 bit division | `docs/div3216.c` | three registers | `main` |
| dictionary and ELF tools | `tools/forthdic.py`, `tools/elffile.py` | none that lasts | conversions of a file |

How they interact:

* the program calls the heap; the heap keeps its list in memory the program
  owned a moment before, and `mm.asm` shares its soft registers with all code
  that runs between two calls;
* `upload.py` sends the bootstrap ROM of the 68HC11 a byte FF, from which it
  knows the speed, and a program of 256 bytes, of which it checks the echo of
  each; the program is usually `stage2`;
* `upload.py` then sends `stage2` a file of S-records a line at a time, and
  reads one character for each; `stage2` polls the receiver, which holds one
  character, and writes to RAM or to an EEPROM that needs milliseconds a byte;
* the shell reads the serial line, splits the line in place and calls a
  command, which finds its parameters in soft registers `sp0` and `sp1`;
* the device manager calls drivers through tables of functions, with the same
  soft registers as parameters.

Which behaviours are hard, and what makes each component right:

| component | hard because | right when |
|---|---|---|
| heap | any sequence of calls; the list lives in the free blocks; a wrong link shows much later; 16-bit sizes and addresses | blocks and free space tile the heap; the list is ordered and complete; neighbours are joined; no call touches the contents or the header of a block in use; refusals are justified; calls return |
| S-record loader and uploader | two programs and a line; a timeout races a late answer; one-character receiver; slow EEPROM; malformed and overlong lines | what is printed is the answer to the line; memory holds what the answered lines say; nothing else is written; the program starts, and a line that is not in memory was shown as refused; the upload always ends |
| bootstrap transfer | lost and changed bytes, either way; the first byte, which is not echoed | no complaint means it runs what was sent; a complaint has a cause |
| shell | line editing at both ends of a buffer; splitting in place; soft registers shared by caller and callee | the command called is the one of the edited line; buffer and `argv` stay in bounds; saved registers are restored |
| devices | table in RAM no code has cleared; parameters passed through shared registers | a call reaches the function of an installed device with the documented parameters |
| HDLC loader | an escape flag kept in a processor flag | a frame is received as it was sent |
| memory tests | a test that passes must mean something, and what it prints as well; wrap at the end of the memory | every stuck bit is printed, and nothing else |
| assembler | forward references must be sized the same in both passes; six processors; one buffer for every line, scanned without a count | labels of pass 1 are the addresses of pass 2; records hold the bytes emitted, which mean to the processor what the program says; lines and expressions are read as they are written |
| division | intermediate results that must fit in 16 bits | quotient and remainder for every dividend whose quotient fits |

## 2. The modules

| module | models |
|---|---|
| `HeapMemory` | the bytes of a heap, the 16-bit big-endian header and link of a block, what it is for blocks to tile the heap, and the three changes to the heap both allocators make: one block, split, absorb |
| `Heap` | what a heap promises: an abstract allocator that owns sets of bytes and has no list |
| `Malloc` | `tests/malloc.c`, an action per iteration of a loop |
| `MM` | `monitor/mm.asm`, likewise, with the soft registers it reads before it writes them |
| `HeapMemoryProofs` | what the changes to the heap do to its layout and its list: the lemmas of both allocators |
| `MallocProofs`, `MMProofs` | the invariants of `Malloc` and `MM`, and that both implement `Heap` |
| `SRecord` | characters of S-records: `hex2dec`, `convnibble`; the text of a record, and what a text says |
| `Stage2` | `bootloader/stage2.asm`, the receiver and the chips it writes to |
| `Upload` | `Stage2` with `upload_srec` of `tools/upload.py` |
| `Session` | all of an upload: `Bootstrap`, and then `Upload` on the same serial line, whatever the first came to |
| `SessionProofs` | proofs about `hex2dec` and `Session`: its types, the starts of lines, the transfer, and what is answered and in memory |
| `Bootstrap` | the bootstrap transfer of `tools/upload.py`, the ROM and the line |
| `Console` | what a command line promises: an abstract line that is edited and whose first word names the command |
| `Shell` | `readline`, `shell_parse`, `shell_exec`, `strcmp` and the loop of `app_main` |
| `ShellProofs` | the invariant of `Shell`, and that it implements `Console` |
| `MasmState` | the global variables of the assemblers, errors, records, marks, symbols and expressions: what the six programs share |
| `Do0`, `Do4`, `Do5`, `Do9`, `Do11` | `do0.c` with `do1.c`, and `do4.c` to `do11.c`: how the instructions of a processor are encoded |
| `Meaning` | what an operand says, from the values of the labels at the end alone |
| `Masm` | the two passes over a program, pseudo ops, for whichever processor |
| `MasmProofs` | proofs about `Masm`: its types, the records, the marks, and where lines start in the two passes |
| `MasmLine` | how a line is read, character by character: the buffer, the split, the search of the mnemonic |
| `MasmText` | `MasmLine` with what the lines do: expressions, constants and text |
| `MasmLineProofs` | proofs about `MasmLine` |
| `HdlcRx` | `bootloader/hdlcrx.asm` |
| `RamTest` | `bootloader/ramtest.asm`, `xramtest.asm` and `romtest.asm` |
| `Div3216` | `docs/div3216.c` as operators |
| `SmallProofs` | proofs about the memory tests, and that `Div3216` divides |

`MC*` modules and `.cfg` files are the instances for TLC. Operators whose name
extends the name of an action (`AllocSplitExact` for `AllocSplit`) are mutants:
each stands before the definition it replaces and shows that some property
depends on that line of the code.

### 2.1 The heap

State and code: `mem` is the part of `mem[]` (in `mm.asm`, of the RAM) between
`MEMSTART` and `MEMSTART + MEMSIZE`, one byte a cell; `head` is `head`; `pc` is
the loop the call is in; `adr`, `prv`, `cur`... are the locals that live from
one iteration to the next. `live` and `free` are history variables: the blocks
the program holds, and the addresses on the list. They appear in guards only
where the program chooses (it frees what it holds), in the abstract step of
`Heap`, and in `MM` where a run keeps the program to calls that avoid a known
fault.

A call is a sequence of actions, one per turn of a loop, because the list must
be right at every turn for the search to end, and to let the proofs speak of
the middle of a call. Nothing runs between two actions of one call: the code
takes no interrupts and has one thread.

`Store` is the program writing to the blocks it holds: it may write any byte
of `UserBytes` over the payload but never the header.

`Granular` is the condition the code needs and does not enforce: sizes are such
that block lengths are multiples of four, the room of a header and a link.
Without it `malloc.c:77` splits a block and leaves less than that (run
`malloc_odd`).

In `MM`, constant `Liberties` says which of three kinds of calls the program
makes: `"stale"` (a request that fits a free zone exactly while `st1` is not
that zone's next), `"above"` (a free above the first free zone), `"empty"` (a
request with no free zone). The code is right without them, survives
`"above"` with lost memory, and is wrong with the others. What the program gets
from such an `MM` is a `Heap` that may put the bytes of a freed block out of use
(`leaked`); `Malloc` never does, and its `leaked` is empty.

### 2.2 Loading a program

`Bootstrap`: `n`, `complaints` and `good` are what `upload.py` holds and prints;
`ff`, `toRom` and `toHost` the line; `rom` and `ram` where the ROM is and what it
stored. It starts before the FF of line 167. That is written without `flush`, and
line 171 discards it when it has not left by then: `WriteSync` may lose it, and
counts that among the `faults`. The ROM is not in the repository and is modelled
from `upload.py:164-184`: it hears FF, stores and echoes the bytes that follow, and
runs the program after `SIZE` of them. When FF was lost, the first byte
of the program is taken for it (`RomSync`); after any byte but FF the ROM loads or is
`"astray"`, when it answers nothing more. `Fault` loses one byte, or
changes byte `b` to one of `Change(b)`, any set of bytes; a changed FF is a byte the
ROM may have taken for one, or not have seen.

`Stage2`: an action is a turn of a loop: a character in `rxsrec` or `rxdata`,
the header of the record in `Exec`, one byte in `Sone`, the poll that reads the
byte back in `Datapoll`. Turns of `datapoll` that read something else change
nothing and are not steps. The buffer is part of `mem`, as on the board. A chip
is RAM, EEPROM (one byte at a time in `prog`; it reads back inverted until
`Programmed`), ROM, or missing. `Arrive` is the receiver: a character that comes
while the last one has not been read is lost; the two receiving loops are
assumed to turn faster than characters come (a turn is some 20 cycles, a
character at least 160).

`Upload`: `WriteLine`, `ReadAnswer` and `ReadTimeout` are the body of the loop
of `upload_srec`. A timeout may happen only when something can take a second
(`Stalled`): as many characters have left as the line carries in a second
(`Rate`), the loader waits for characters or has left for the program, or
memory does not read back. The line is written without `flush` (`upload.py:25`), so the
second begins before its first character has left, and at 1200 baud a line of 120
characters is not there when it ends: `overdue` counts what was on the line
when it was written. Each line of a file comes with the answer it calls
for and the bytes it puts in memory.

`Session` composes the two, with the variables of both: `upload_srec` starts
when `good` is printed, which is always, and the loader runs when `ram` is the
program that was sent (`LoaderRuns`). When it is not, either the ROM waits
for FF or for one more byte and takes the first characters of a line for them
(`RomTakesCharacter`, with an echo that `upload_srec` reads for an answer), or
the ROM is astray or something that is not the loader runs, of which is assumed that it
answers nothing (`NoAnswer`).

### 2.3 The shell

`scmdbuf` is the buffer, with offsets for addresses; `x`, `st0` and `st1` are the
registers the loops keep between two turns; `sp0` and `sp1` say what the soft
registers hold (`"argc"`, `"name"`, ...). An action is a key in `readline`, one
character in a loop of `shell_parse`, one name compared in `shell_exec`, the
command. `entered` is a history variable, the line as it was entered, because
`shell_parse` splits it where it stands. The buffer starts with whatever the RAM
held (`Fill`) and keeps what earlier lines left: no code clears it. The list of
commands has no length in the code, only a byte 0xFF after its last; the search
that would pass it has no step, and `Answered` would fail.

`Console` has the line as a sequence, its words, and three steps: a key, a
return, an answer. Its words are those `Starts` tells apart: the n-th starts where
there are n starts up to and including its own (`Nth`), and ends before the next space, zero,
or the end of the line; an entered zero ends the line. `Shell` implements it with `line` the part of the buffer
before `X`, so that the buffer, the zeros put into it, `argv` and the search are
all inside one step of `Console`.

### 2.4 The assembler

`s` is the record of the global variables of `masm`, by their names in `as.h`;
`line` is the place in the file being read. An action is a source line in one of
the passes (`ReadLine`), the end of a file, the start of pass 2, or the exit.
The handlers `DoOp`, `DoPseudo`, `GetTerm`, `Install`... are operators from one
`s` to the next, in the order of the calls in the code. A program of `Masm` names
its processor, and `DoOp` is that of the processor's `Do` module, where a table
entry is a class and an opcode, as in `table0.h` to `table11.h`. A source line comes
already split into label, mnemonic and terms. `Forward` is the
file of marks, `F_ref` the mark read last, `obj` the records written, `E_bytes`
the one being collected.

`starts` (where each line of each pass starts), `emitted` (the bytes, with the
line and the address they came from) and `ahead` (the lines whose operand was a
forward reference) are histories. `SaysWhatItMeans` gives an operand its meaning from the
label values at the end alone (`Value`, `Means`): an assembler that knows every
label at once. Counts of `rmb`, `zmb` and `fill` are natural numbers; for a
negative one `while(Result--)` does not end in any useful time.

`MasmLine` and `MasmText` have what `Masm` takes as given. In `MasmLine`, `Line` is the
buffer, character by character, with the newline that `initialize` puts at its end and
whatever earlier lines left; `Take` is `fgets` and `parse_line`, with the search that
`process` begins with (`found`); `rest` is what is left of the file. A scan that left the
buffer would show as `last = MAXBUF`. A character is a string of length one, and a text a
sequence of them, so that the module needs neither recursive operators nor strings cut
up. `MasmText` adds `s`, the record of `Masm`, with `Symbol`, `Connect`, `Emit` and `Word`
from `MasmState` (the connectors `&`, `|` and `^` are in `MasmText` itself, as bits need an
operator that a module with theorems must not reach); of `do_pseudo` it has `fcb`, `fdb` and `fcc`. Each of its actions is one
of `MasmLine` and what that line does to `s`, so each of its behaviours is one of
`LineSpec`, and what is proved of `LineSpec` is what the run `masm_text` checks. `Label` and
`Op` are taken to be large enough: nothing in the code keeps a label of 16 or a mnemonic
of 10 characters inside them.

### 2.5 The division

`docs/div3216.c` is straight-line code; `Divide` is its `main`, over words of
any size `W`. `D`, `X` and the carry are parts of the values of `FDIV`, `IDIV` and `ADDD`.

### 2.6 The HDLC loader and the memory tests

`HdlcRx` has the loops `rxsof` and `rxdata` with one flag of the processor, `V`,
which is where the code remembers an escape: each action writes it as the last
instruction that touches it does. `sent` is a history.

In `RamTest` a byte is the set of its one bits. The memory is external: `wiring`
says which cell an address reaches (some address lines may be cut), `stuck` which
bits read as a constant. The three programs are three `Layouts`; that of `romtest`
ends at zero, past the last address.

## 3. What the runs check

`malloc` (126,642 states): heap of 20 bytes, sizes 2, 6, 10, 18: from one block
to four, splits, exact fits, refusals, every order of frees, merges on both
sides. Checks the layout of the heap (`Tiled`), the list (`FreeListOrdered`,
`Coalesced`), the blocks in use (`HeadersKept`), the search (`BrowseFinds`), that the allocator implements `Heap`
(`IsAHeap`), and that calls return (`CallsReturn`). `IsAHeap` is the strongest:
whatever the list does, the program sees an allocator that never gives a byte
twice, never changes a byte the program wrote, and refuses only when no free
space is long enough.

`mm` (131,145 states): the same for `mm.asm`, with a program that also frees
above the first free zone (`Liberties = {"above"}`). The layout counts the lost
zones; the list and termination are what they are for `Malloc`, the search stops at
the first zone that fits, with `st0` the zone before it (`FirstFit`), and `IsAHeap` says that the program still
gets blocks nobody else has, with what it wrote in them.

`mm_stale`, `mm_lost`, `malloc_odd`, `masm_label`, `hdlc_escape`:
counterexamples, see section 6.

`upload` (186,259 states): `Session`. Without noise, one loader and every pair of
seven lines (RAM, EEPROM, overlapping
addresses, a line longer than the buffer, a header record, a lower-case digit)
and an entry record, with a buffer of 13 characters that the longest good line
fills exactly; a file with a line for a ROM, which never reads back; one in
`Slow`, whose lines may keep the EEPROM busy for more than the second; and one
(`LowBaud`) over a line that carries 12 characters a second, less than a record. Two lines
are enough for what one leaves to the next (the buffer, a busy EEPROM, an unread
answer). With noise, loaders of three bytes, alike, different, or with the
character that starts a line or with a first byte FF, a fault that loses or changes one
byte, FF or another, or an FF that is discarded, and a file
of a good line, a refused one and an entry. One fault is the most the
protocol can be held to: two changes of one byte that cancel, on its way out
and on its way back, cannot be seen by an echo. Without a complaint the loader
runs (`NoComplaintIsRunning`), and a complaint has a cause (`ComplaintsAreFaults`):
as many bytes were lost or changed as there are complaints, unless FF is among
them, whose loss makes a complaint of every byte.
After that, as long as no answer is late, what `upload.py` prints is true of the
memory at every line (`AnswersMatch`, `LoadedAsShown`); where
none can be late, in time or because of the speed (`Prompt`), the program starts, and
each address holds what the text of the last line for it says, unless that line was shown as `!`
(`ProgramStarts`): `upload_srec` goes on after a refused line, so the program that starts
may not be all there, but what is missing was shown. Whatever happened, the
EEPROM is never written to while busy (`NoWriteIsIgnored`), no line is answered
twice (`OneAnswerPerLine`), and `upload.py` ends (`UploadEnds`), also when it talks
to a ROM that still waits or is astray.

`shell` (296,858 states): a buffer of five bytes, two entries in `argv`, the keys
`a`, `b`, space, zero, backspace and return, commands `a` and `ab`. Lines follow
each other for ever in the same buffer, so that every line is parsed over the
rest of every other; they overflow the buffer, have more words than `argv`
holds, only spaces, or zeros in the middle. `ZeroAhead` and `WordsFound` are about
the parser, `IsAConsole` about the whole.

`masm` (1,192,147 states): for `as11`, every program of up to three lines out of 34, two
files of one line each, and every program of four out of the nine
lines that move the code or refer ahead. For the other five, every class and
addressing mode of the processor between lines that define its operands before
or after it, on either side of the limits of a byte, a displacement or a
branch. The addresses cross 256, where an
operand changes its size. `E_LIMIT` is three, so that records break inside an
instruction. `MarksInStep` is what makes `InPhase` true; `InPhase` excludes programs
whose `org` or `rmb` refers ahead, for which the assembler reports an error only
when a label follows. `SaysWhatItMeans` leaves out a label that is replaced by the
one held before it (`AfterHeld`), which is the finding of `masm_label`.

`masm_text` (56,659 states): a buffer that holds six characters of a line, and
every line of up to five out of `a`, `B`, blank, `:` and `;`, alone, after each of
four lines that leave text in the buffer or a label in the statics, at the end
of a file with and without a newline, and across two files. `SplitsTheLine` compares
`parse_line` with the grammar of `masm/README`, written as which splits of the text
are right. For `DataAsWritten`, every connector between every two of fifteen terms
(every base, symbols, `*`, a character, signs), lists with each force sign, and
texts: the bytes are those of the values the terms stand for. `FindsTheMnemonic`
has two tables, one of them with names that begin alike.

`ramtest` (927,924 states): 16 addresses of three bits, the registers in the middle,
the three layouts, up to two stuck bits at the edges of each, and memories with
no, one or all address lines cut. `StuckArePrinted` is what a user of the test relies on;
`PrintedAreStuck` says that the printed bits are those and only those, also on a memory
with cut lines, which this test does not find.

Bounds are in the `.cfg` files and the `MC` modules: `MEMSIZE`, `Sizes`, `UserBytes`,
`Junk` (the heaps); `BUFEND`, `Kind`, `Files`, `Slow`, `Rate`, `Programs`, `SIZE`, `MaxFaults`, `Change`, `Sessions` (the upload); `SCMD_MAX`, `ARGV_MAX`, `Keys`, `Table`, `Fill` (the shell);
`Programs`, `E_LIMIT` (the assembler); `BITS`, `ADDRS`, `Layouts`, `Wirings`, `Stuck` (the
memory tests); `Length`, `SIZE`, `Byte` (the HDLC loader).
No action has a guard that exists only to bound it, but `Receive` of `HdlcRx`, which
takes `Length` bytes at most. `CHECK_DEADLOCK` is off
where the system ends: the upload, the assembler, the memory test; and in `hdlc_escape`.

### Fairness

Heaps: weak fairness of the steps of a call in progress, as the processor runs
on; none of the program's calls. Upload: weak fairness of `upload.py`, of the
bootstrap ROM, of the loader, of the arrival of sent characters, and of the end
of the EEPROM's programming. The first three are single loops that never block without a
timeout or a poll; the last two are the hardware's. The faults of the line are
under no fairness. Shell: the steps between a return and the prompt, not the
keys. Memory test: its only loop. The assembler and the HDLC loader have no liveness property.

## 4. What is proved

Each theorem holds for every value of the constants that satisfies the named
`ASSUME`s of its module, which TLC evaluates on the instances of the runs, and the
hypotheses it states. There are five of these:

| hypothesis | of | says | because |
|---|---|---|---|
| `Granular` | `Malloc` | sizes are 2 modulo 4, the heap a multiple of 4 | `malloc_odd`: without it a split can leave too little for a header and a link |
| `Careful` | `MM` | the same, and `Liberties` is at most `"above"` | `mm_stale`, and section 6: with the other two the list is wrong |
| `OneStart` | `Session` | `S` starts a line and is nowhere else in it | the lines are S-records; upload.py sends any file |
| `FilesSay` | `Session` | the answer, the address and the data of a line are what its text says digit by digit; it has one newline, at its end; its data fit the address space and miss the line buffer | a record that loads over the buffer changes its own digits (section 6); upload.py sends any file |
| `faults <= 1` | `Session` | one byte at most was lost or changed on the line to the ROM, a discarded FF included | with two, an echo can be changed back, and a ROM can miss two bytes |

The first four hold on the instances of the runs: `MCMalloc`, `MCMM` and
`MCSession` assume them, so that TLC checks them, with `Liberties` given in `MCMM.cfg`;
and the run `upload` has at most one fault. The `ASSUME`s that say more than the type of a
constant are `LayoutAssumption` of `RamTest` (below) and those of `MasmLine`:
`TableAssumption`, that the tables are in the order of `strcmp` and have no name in common,
as those of `table0.h` to `table11.h` and `pseudo.c` are; and `ProgramAssumption`, that the
buffer has more than two places (`MAXBUF` is 128); and `MasmAssumption` of `Masm`: every
line has the operands its class reads, the operand of `rmb`, `zmb`, `fill`, `org` and `equ` is a sum
without a minus (2.4), and symbols are no divisors (a hazard of `PROJECT.json`).

### The heaps

`MallocProofs`, for every address and size of the heap, every set of granular
sizes and every behaviour of the program: `Invariance` (`Spec => []IInv`);
`TypeCorrect`, `NoLeakNoOverlap` (`Tiled`), `ListStaysOrdered`
(`FreeListOrdered`), `FreeSpaceJoined` (`Coalesced`), `HeadersSafe`
(`HeadersKept`), `BrowseAlwaysFinds` (`BrowseFinds`), which follow from it; and
`Implements` (`IsAHeap`).

None of the properties is inductive alone: the list is right only
if the memory is tiled, the tiling survives a split only if blocks are
multiples of four, a merge is right only if the list is ordered. `IInv` has six
parts: the types; `Tiled`, the layout of the heap as a set of block addresses
where each byte is in one block; the list as the order of `free`; `Owners`, each
block being free or held with the size in its header; `ScanPlace` and
`CoalescePlace`, where in the list each loop stands (what it has passed, and that
nothing it passed was large enough, or adjacent); `ApartUntilFreed`, that free
blocks never touch but in the middle of `mem_free`. It is in `MallocProofs`, with its proof. `HeapMemoryProofs` has what
the four changes to the memory do to the layout and to the list: writing a
payload, splitting a block, absorbing the next one, changing a link; it starts
from how two bytes hold a word (`PEEK` after `POKE`), which needs the 16-bit
bounds. `MallocProofs` then has a lemma per action.

`MMProofs` has the same for `mm.asm`: `Invariance`, `ListStaysOrdered`,
`NoZoneOverlaps` (`Tiled`), `FreeSpaceJoined`, `SearchIsFirstFit` (`FirstFit`) and
`Implements`. The layout has zones that are neither free, held, nor being freed:
the ones `mm_free` loses when they lie above the first free one. `ScanPlace` says
two things more than in `Malloc`: which zone `st0` is, and that `st1` is the link
of any zone that fits exactly, which is what a careful program is careful about.

Both `Implements` go step by step. A step inside a call changes neither the
blocks held nor their contents, because every byte it writes is in the header or the
payload of a free block, and the layout says that those are no one else's. The
step that ends `mem_alloc` takes a block of the right size from the free space; a
refusal is justified because the search has passed every free block, and free
space that is long enough is one block, as no two touch. In `MM` a step may also leak,
and what it leaks is the zone that is being freed.

### The shell

`ShellProofs`, for every size of the buffer and of `argv`, every set of keys, every
list of commands and whatever the buffer held: `Invariance` (`Spec => []IInv`), and from it
`StaysInBounds` (no character outside `scmdbuf`, no pointer outside `argv`),
`ScansEnd` (`ZeroAhead`), `WordsAreFound` (`WordsFound`) and `Implements` (`IsAConsole`).

`Bounds` adds to the first two that `X` is at the end of
the line while it is typed (`AtTheEnd`), which is what bounds the zero stored on
return. A scan goes on only over a character that is not the zero ahead, so the
zero is still ahead (`OneFurther`); splitting adds zeros and moves none.

To say that the words are found, `IInv` needs what each loop of `shell_parse` knows
half-way: that what is ahead of `X` is still the line as it was entered (`LineKept`);
that there are only spaces behind it (`PrespacesPlace`); that the words found
so far are those that start up to `X`, each where `argv` points, and each but the last closed
by a zero (`SplitPlace`, `SpaceagainPlace`); that all of them were found
(`ParsedPlace`); and that no name passed by the search is the first word (`ComparePlace`). The
lemmas count the starts of words up to a place: one more where a word starts, the
same elsewhere. `Implements` maps a key to `Type` or `Erase`, the return to `Enter`, the
command to `Run`, and shows that the first of `argv` is the first word of `Console`'s line, read
as a C string from a buffer that was cut up since.

### The transfer

`SessionProofs`, for every loader of `SIZE` bytes, every file and memory, and a line that
changes bytes to any others: `SessionInvariant` (`Spec => []SInv`); from it `SessionTypeOK`,
which has the line buffer in it: no line, whatever its characters, makes the loader
store outside its buffer; `ComplaintsHaveACause` (while FF is not lost, a fault is still on its
way or has made one complaint at most, `Counted`; its loss is a fault itself, `RomPlace`); and the action property `NoWriteIsLost` (`NoWriteIsIgnored`).

`OneDamageIsSeen` and `CleanTransferRuns`: with one damaged byte at most, FF included, no
complaint means that the loader runs. The invariant, `Clean`, says that without a
complaint every byte acknowledged is in the ROM's memory in its place,
and that the byte under way can be wrong only if its echo will be, or will not come.

`AnsweredOnce`: with one damaged byte at most, no more answers are shown or on their way than
lines were sent (`OneAnswerPerLine`). An answer needs a start: what `Answers` counts,
and the starts of lines that may still give one (`Unanswered`: an `S` on the
line or in the receiver, and the line the loader is in) never exceed the
lines sent (`AnswersCounted`). A ROM that still waits
also answers, with an echo, and needs no `S` for it; `BytesMissing` says that
it waits for one byte at most, also when it took the first of the program for a lost FF
(`Enough`), and gets the `S` of the first line.

In the same module, for files as `FilesSay` has them: `AnswersAreTheLoaders`
(`AnswersMatch`) and `LoadedIsShown` (`LoadedAsShown`), with one damaged byte at most.
Both follow from `InStep`: while no answer was late and the program that runs is the loader,
`upload.py`, the two directions of the line, the loader and the memory are in one of the `Stage`s of
the line under way: nothing sent (`Between`), its characters on the way (`Coming`), its
`S` read (`Starting`), some digits in the buffer (`Receiving`), all of them (`Received`),
some bytes in memory (`Loading`: `Writing` the j-th or `Polling` for it), and answered. In each,
what is in the buffer and what is still to come make up the line, and the
memory holds the lines before it and the bytes of this one so far (`Settled`). A ROM that
still waits or a program that was damaged answers nothing that is in
time, so `OnTime` is false in what follows. The digits are taken one at a time
(`RecordByte`), so that no induction over the text is needed; `hex2dec` gives back every
byte from its two digits (`DecodesEveryByte`) and accepts nothing else (`AcceptsOneSpelling`).

### The assembler's lines

`MasmLineProofs`, for every two tables, every set of files and every size of the buffer:
`LineStaysInTheBuffer` (`StaysInTheBuffer`), `MnemonicIsFound` (`FindsTheMnemonic`) and
`LinesAreSplit` (the action property `SplitsTheLine`). The invariant, `LineInv`, is the types,
the first two, and `Stopper`: the last place of the buffer has the newline of
`initialize`. `fgets` is given one less than the size of the buffer and puts its zero in its
last place, so it never writes there (`FilledIs`), and a scan that counts nothing ends there
at the latest (`Scans`). `StaysInTheBuffer` alone is not inductive: the next line would be
scanned in a buffer of which nothing is known.

The split is right because the places where the scans stop divide the text as the
grammar does (`PlacesMakeALine`): for a line with a newline the scans stop within it
(`WholeSplit`); for one without, when it has an operand, all but the last do
(`PartSplit`), and the operand ends with the zero of `fgets`, wherever the newline is. What
`CString` copies from the buffer is then a part of the text (`SplitOfText`).

`Search` is a recursive function over ranges of the table. That it finds the name in the
range it is given, if it is there, is shown for the shortest range of which it would
not be true (`LeastOne`, from `WFMin`): its turn leads to a shorter one, of
which it is (`OneTurn`). This needs no induction theorem, whose operator parameter the provers do not
take. That a range without the middle still has the name needs the order: of two names one
is before the other or they are the same (`OneOrOther`), and never both (`NotBoth`), from
the first place where they differ, the end of the shorter one being such a place.

### The assembler's passes

`MasmProofs`, for every text, every program of any number of files, each of the six
processors and every length of a record: `TypeCorrect` (`TypeOK`), `RecordsAreTheBytes`
(`RecordsHoldTheBytes`, addresses modulo 65536 as the records have them) and
`MarksFollowTheLines` (`MarksInStep`), from `BetweenLines` (`Spec => []Between`); and
`LinesKeepTheirPlaces` (`InPhase`), from `Between` and `Phased` together.

No operator of the model is one step, so the invariant is not about a step but about a call:
`Does(a, b, n)` says that from globals `a` that are `Good`, `b` is `Good` again, in the same
place of the same pass (`Keeps`), after `n` symbols (`Counts`). It holds of `Emit`
and `FRecord` with 0, of `Symbol` with 1, adds up (`Then`), and so goes through expressions
(`EvalDoes`), each class and mode of each processor (`DoOp0` to `DoOp11`) and each pseudo
op (`PseudoDoes`) up to a line (`LineDoes`): *whatever the globals, a line evaluates as
many symbols in pass 2 as in pass 1*, or reports an error that is not `Harmless`. It is this
number, which differs from line to line, that makes the marks come out even.

`MarksInStep` alone is not inductive: that no mark of a line is left when it is done needs
that there are at most as many as the line has symbols. So `Settled` says of pass 1 that the marks are
in the order of the lines, those of one line side by side and at most as many as its symbols, and carry its
file and number; `Left` says it in pass 2 of those that are still to be read, with the one in
`F_ref`. Within a line (`Collected`, `Pending`) it is said of the line with a count: of what it
may still leave, or must still read. A mark carries a file as well as a line: that the two
belong together is that `Line_num` is the number of a line of all the files (`Placing`,
`LinePlace`), as it is never set back between files.

`InPhase` compares the two passes, and the state has only the later one. What pass 1 did is
kept by `Traced`: every line begins where the one before it ends, and for every line there
are globals from which pass 1 reads it so (`Begun`), without an error, marking it exactly if
it is in `ahead`, with symbols that the table still holds. In pass 2 (`Phase2`) that table is
complete, a mark is at hand exactly for the lines of `ahead` that are still to come, and up
to the first error that leaves bytes out every line has begun where it did in pass 1
(`Aligned`). The step is a statement about one line and two passes, from the same address,
with a mark in the one if the other leaves one (`Facing`): both end at the same address,
unless one of them reports such an error (`LineLevel`). For an expression that means
(`EvalSized`): the same flags in both passes, and the same value, unless the line is marked,
when one of the flags fixes the size. It goes through every class and mode of the six
processors (`OpLevel`), every pseudo op (`PseudoLevel`) and the label (`LabelMoves`). Where
the value itself moves the code (`org`, `rmb`, `fill`, `zmb`, and the instructions of the 6804
with a form of one byte for the first registers) it is not true of a marked line, which is
what `InPhase` leaves out.

`RecordsHoldTheBytes` needs that `Pc` is the address after the bytes held whenever an
operation begins (`Output`): it is why `org` and `rmb` must end the record after they
have moved `Pc`, and `emit` must move it before. `FoldLeft` and `FlattenSeq` of the
community modules are recursive; that they take the elements one by one is shown from their definitions as
functions (`FoldAppend`, `FlattenAppend`), with `Climb` in the place of induction.

### The rest

Of `SmallProofs`, for every memory size, width, wiring, set of stuck bits and layout whose start is
below its end or whose end is zero (`LayoutAssumption`; `romtest` ends at zero): `TestInvariant`,
`NothingElsePrinted` (`PrintedAreStuck`) and `EveryStuckBitPrinted` (`StuckArePrinted`). The invariant
says which cells the current pattern has reached (`Filled`) and that a stuck bit is printed once the
address was checked with a pattern that has it the other way (`StuckSoFar`).

Of `SmallProofs`, too, `DividesExactly`, for every size of a word, every dividend whose
high word is less than the divisor. The carry of the first addition stands for
`W`, whose division by the divisor leaves room for the rest (`RoomForTheRest`); and
since the three partial quotients add up to the quotient, which fits, their
sums do not carry. There is no run: there are no states to explore.

### Only model-checked

* Liveness (`CallsReturn`, `UploadEnds`, `ProgramStarts`, `TestEnds`, `Answered`): it needs
  fairness and `ENABLED`, which the prover does not handle.
* `SaysWhatItMeans` of `Masm`: it reads the bytes of every instruction of six processors
  back and compares them with a meaning of their own (`Meaning`). What it rests on is
  proved: that the marks stay in step, and that a line starts at the same address in
  both passes, so that the labels are where pass 2 puts the code.
* `DataAsWritten` of `MasmText`: it evaluates texts with recursive operators, in whose
  presence the prover loses its arithmetic.
* `HdlcRx`: its one run is a counterexample.

The inductive invariants are in no run of their own: the properties that a reader needs
are. They were checked on the instances of the runs while they were developed, but for
`Phased`, which quantifies over all globals of pass 1; the proofs cover every size.

## 5. What is not modelled

The start-up code and the vector table (straight-line, they set registers); the SPI
driver (stubs); `as11.asm` (a stub); the dumpers (they only read);
`forthdic.py` and `elffile.py` (conversions of a file with no lasting state, the
second a vendored library); `3rdparty/` (BUFFALO, not this project's code); linker
scripts, makefiles, `hardware/`, `docs/` but `div3216.c`; `monitor/RRSF.md` (a design,
no code). In `upload.py`, options, the choice of a baud rate and the terminal.
The Forth interpreter and the simulator named by the top README are in other
repositories.

In the shell, what is printed on the way, the decimal
conversion and the serial registers; in `masm`, `opt` and `page`, the listing, the cross
reference, the printing of the symbol table, and the formats other than S-records; the
errors "Illegal Symbol Name" (`symtab.c:14`: every symbol begins with a letter) and
"Unrecognized OPT" (`pseudo.c:165`); and, in `Masm`, the connectors `|`, `&` and `^`
(`eval.c:65-68`), which only `MasmText` has (`Join`).

The device manager (`device.asm`, `bdev_ram.asm`): `start.asm` has its call of
`device_init` inside `.if 0`, so the table is never set. The shell command `lsdev`
(`device.asm:23-25`, linked by `monitor/Makefile:16` and `link/monitor.ld:25-28`) calls
`device_getblocks` and `device_getname` on it all the same (lines 105 and 116), and what they jump
through is what the RAM held: any behaviour at all, of which there is nothing to state.
The functions that read and write blocks have no caller. `tests/mallasm.c` is a draft of `mm.asm`.

## 6. Where the code disagrees with itself

| run | the code | what says otherwise |
|---|---|---|
| `mm_stale` | `mm.asm:79`: an exact fit at the head of the list stores scratch register `st1` in `head`; no code of this call set it | `mm.asm:10` |
| `mm_lost` | `mm.asm:148`: a zone freed above the first one is not linked | `mm.asm:147` |
| `malloc_odd` | `tests/malloc.c:77`: a split may leave less than a header and a link | `monitor/README.md:223` |
| `masm_label` | `masm/as.c:237`: a label alone with a comment is kept and replaces the label of the next line | `masm/README:258-262` |
| `hdlc_escape` | `hdlcrx.asm:72`: the escape is remembered in `V`, which `ledoff` and the load of the byte clear before it is tested: no byte is changed back | `hdlcrx.asm:84` |

The findings in `PROJECT.json` quote the lines.

Seen while modelling, without a run of their own:

* `mm.asm:46` reads the zone at `head` before it tests for the end of the list: with no
  free zone, 0xFFFF is taken for one (`Liberties = {"empty"}` in `MM`, which no
  run and no theorem takes). `tests/malloc.c:73` tests first;
* `shell.asm:198` says that the command gets `argc` and `argv` in `sp0` and `sp1`, but the search
  for it (159, 174) stores the name compared and `argv[0]` there. No command uses them;
* the last line of a file without a newline is completed by `parse_line` from what
  earlier lines left in the buffer: the zero of `fgets` is no delimiter
  (`as.c:212`). `SplitsTheLine` states what holds of it all the same;
* `masm/README:285-289` describes lines continued with a backslash, of which there is no code;
* a record of no data makes `stage2.asm:132` write 256 bytes; a record for the
  addresses of the line buffer (`stage2.asm:115`) changes its own digits; the message
  of `upload.py:186` is printed whatever the echoes were;
* `docs/div3216.c` takes its carry through `CLRA` and `CLRB`, which leave it alone there,
  while the instructions of the 68HC11 clear it.

## 7. Plan

Modelled and checked: the heaps, the shell, the loader and its uploader, the six
assemblers, the HDLC loader, the memory tests, the division. Proved: the invariants of the
heaps, the shell, the transfer and the loading, the assembler's lines and its passes, and the
memory tests, and the three refinements. What is left
is to prove more:

1. `HdlcRx`: what is stored of a packet without escapes.
2. Assemblers: `SaysWhatItMeans`, from `InPhase`, one class of instructions after the other.
3. `inttostr` of the shell against the decimal digits, for every word.
