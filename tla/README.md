# builder-hex0-arch in TLA+

Specifications, model-checking instances and proofs for builder-hex0-arch: its
RISC-V and AArch64 kernels, and the toolchain that makes them. File names below
are those of the repository's `src/`; **R** stands for
`builder-hex0-riscv64-stage2.S`, **A** for `builder-hex0-aarch64-stage2.S`. Where
the two kernels do the same, R was translated and A read beside it; what only A
does (the Raspberry Pi's preload and its SD host controller) is translated from
A.

## 1. Inventory

The system boots in two stages on one hart (other cores are parked). Nothing
preempts anything: a system call runs with interrupts off from its trap to its
return, and the drivers poll. What is concurrent is the disk's device with the
driver. The kernels are made by a chain of small tools (assembler, linker,
annotator) that `make` runs one after the other on files it may find half made.
What is hard in this code is therefore not locking but *state that is saved,
overlaid and restored*: process images in one window of memory, files in
a log that only grows, a text that is script and data at once, and a disk that
is source, script and result at once. And in the tools it is *counting the same
bytes in four places*: both passes of the assembler, the linker, and the
annotator count for themselves, and nobody compares.

| component | state it keeps | operations | promise |
|---|---|---|---|
| process simulation (R 1041-1721, 421-480) | `next_process_num`, 16 descriptors, save area and its pointer, user memory, user stack, trap frame, current break | clone, execve, exit, waitid, wait4, brk, the shell's start of a program | fork, exec and exit behave as if every process had memory of its own |
| file system (R 328-1026, 2250-2325) | file names, addresses and lengths, `next_filenum`, `next_file_address`, per level 16 descriptors with offsets | openat, close, lseek, read, write, mkdirat, faccessat, chdir, and `src`/`hex0` of the shell | a path names its newest file; every file has bytes of its own |
| path resolution (R 2071-2245) | the scratch buffer at 0xA0000000 | `absolute_path` | one absolute name for each file |
| standard input (R 1917-1965, 487-556; A 2015-2090, 3283-3341) | `stdin_sector`, `stdin_offset`, the sector buffer, `stdin_buf_ptr` | `read_stdin_byte` (shell), the stdin loop of read (programs), the preload of A, and the sectors `flush_disk` overwrites | one stream of bytes for shell and programs |
| internal shell and flush (R 3185-3985) | the parser's place, counts and names, `enable_flush`, the files | `src`, `hex0`, `f`, comments, programs, the end of the script, `flush_disk` | each command takes effect once, on its own bytes; `/dev/hda` reaches the disk |
| hex0 compilers (R 3535-3632, stage 1 `hex0_loop`) | nibble state, comment state, output | compiling | both make what the source stands for |
| stage 1 boot (`*-stage1-*.S`, `build-self.sh`) | sector, offset, buffer | reading sectors, jumping to stage 2 | stage 2 finds its script |
| VirtIO driver (R 2546-2954, A 2756-3105) | the queue: descriptors, two rings, header, status byte | init, read and write of a sector | a sector moves or the call fails |
| SPI and SD driver (R 2976-3180) | how many bytes have gone by | one-sector commands | driver and card agree on every byte; same as VirtIO |
| SDHCI driver (A 3906-4102, preload A 3283-3340) | status bits, what is switched on, words left of a block | initialising controller and card again before a flush, one-sector commands, the preload | the data port is used in turn, the preload is the disk; a call moves one sector |
| device tree (R 2335-2540) | a cursor | `fdt_find_storage` | the board's storage is found |
| trap entry and dispatch (R 104-322) | trap frame | saving, dispatching, restoring | registers survive a call |
| page tables (R 1972-2033) | constant after boot | `setup_page_table` | - |
| assemblers (`a64-asm2hex2.py`, `a64_asm.py`, `rv64-asm2hex2.py`) | labels, parsed lines, an address that is counted | two passes over a `.S` file (AArch64), one (RISC-V) | a line becomes the words the manual has for it |
| hex2 linker (`hex2/`) | targets, address, shift register | two passes over a hex2 file | references reach their labels |
| `hex2tohex0.py` | a place in the binary | counting the bytes of each line | every byte stands beside the line it comes from |
| make and the test targets (`Makefile`) | which files are newer than which | recipes, which may fail half way | what is made is made from the source there is |
| x86 builder (`builder-hex0-x86-*`) | - | vendored | - |

How they interact: stage 1 hands the number of the sector behind the source to
stage 2 (a register); stage 2 starts the shell, which reads its script as
standard input, through the sector buffer and `disk_read_sector`, a pointer to
whichever driver was found. Shell commands create files in the tables that
system calls use, too. A program the shell starts runs until its process level
is popped, and it may read from the same standard input. `flush_disk` writes
`/dev/hda` over sector 0 onwards of the very disk the script comes from. Before
all that, the `.hex0` source on the disk has come out of the toolchain: `.S` to
`.hex2` (assembler), to `.bin` (linker), and both to `.hex0` (annotator);
`build-self.sh` puts it in front of a script.

Hard behaviours, each with its line and the properties about it, are the
`hazards` of `PROJECT.json`.

## 2. Modules

`X <= Y` reads "X is implemented by Y under a refinement mapping".

| module | what it is |
|---|---|
| `ProcSim` | processes as the kernel has them: descriptors, save area, memory, stack |
| `ProcStack` <= `ProcSim` | processes as programs see them: a stack of suspended images |
| `ProcSimProofs` | the inductive invariant of `ProcSim`, its theorems, and that it implements `ProcStack` |
| `FileSys` | the tables, the data area and the descriptors |
| `FileStore` <= `FileSys` | a log of files, each a path and its own bytes |
| `FileSysProofs` | the inductive invariant of `FileSys`, its theorems, and that it implements `FileStore` |
| `Paths` | `absolute_path`, one loop iteration a step, against resolution by components |
| `PathsProofs` | the invariant of `Paths`, a part for each loop, and that the result is the absolute path |
| `Stdin` | the readers, the preload and the flushes on one disk |
| `ByteStream` <= `Stdin` | byte n of the disk image is the n-th byte anybody gets |
| `StdinProofs` | that `Stdin` implements `ByteStream` |
| `Shell` | `internalshell` byte by byte |
| `Commands` <= `Shell` (in `ShellRefinement`) | commands with effects, no text; the mapping says how a command is written, and what `hex0-to-src.sh` writes |
| `ShellProofs` | that the shell implements `Commands`, for every script that is written the way it expects |
| `Hex0` | what a hex0 text stands for; the digit tests of both compilers |
| `Stage1` | the boot compiler on a disk laid out by `build-self.sh` |
| `Hex0Command` | the compiler behind the `hex0` command |
| `Assembly` | what a line of a `.S` file is, and words as sets of bits |
| `Tools` | the files between the tools, and how a tool reads one |
| `A64Encode`, `A64Mnemonics` | `a64_asm.py`, and `encode_mnemonic` above it |
| `A64Assembler` | the two passes of `a64-asm2hex2.py` |
| `Rv64Assembler` | `rv64-asm2hex2.py`, a line at a time |
| `Hex2` | the linker: labels, references, the shift register |
| `Hex2ToHex0` | the annotator and its count of bytes |
| `Toolchain` | the four tools under `make`, with edits, failures and repeated runs |
| `Manuals` | both machines' words read the other way round, and what a line asks for |
| `Meaning` | what the `.hex0` file owes its `.S` file |
| `Build` | toolchain, disk, stage 1 and the `hex0` command, one after the other (`Stage1` and `Meaning` extended, `Hex0Command` as an INSTANCE) |
| `BuildProofs` | that the tools count alike, for every source; that both compilers make of every text what it stands for; what stage 1 hands over |
| `Virtio` | driver and device on shared memory |
| `SdCard` (constants in `SdConstants`) | the SPI driver and its card, byte by byte |
| `Sdhci` | the SD host controller of the Raspberry Pi, its driver and its card, word by word |
| `DeviceTree` | `fdt_find_storage` on the tokens of a board |
| `Storage` | the search, the choice of a driver, and the driver chosen of three (`Virtio` extended, `SdCard` and `Sdhci` as INSTANCEs) |
| `Disk` <= `Virtio`, `SdCard`, `Sdhci` | one sector moves per call, or the call fails |
| `SdhciProofs` | that driver and controller take turns, that the preload is the disk, and that they implement `Disk` |
| `StorageProofs` | the inductive invariants of `Virtio` and of `SdCard`, that both implement `Disk`, and that all that is proved of the drivers holds in `Storage`, too |
| `MC*` | constants for TLC |

How state and actions correspond to code:

* **ProcSim.** Registers and a program's own work are `cpu` and the actions
  `Store`, `Push`, `Pop`; each system call is one action, because interrupts
  are off until it returns. Memory is counted in cells and addresses are
  offsets into their region. `Clone` writes the record (`Recorded`) into the
  *current* descriptor and copies three areas to the save area, as R 1041-1160
  does; `Execve` takes the next descriptor exactly when the caller has forked
  (`CreatesLevel`, R 1179-1202); `Exit` pops a level whatever it was, and
  `Resume` copies back. `ExecveFail` has the order of the code: the arguments
  have been written and the forked count lowered before the file is looked up.
  `LoadedMem` keeps what lies beyond the 2 MB that loading clears, and `brk`
  clears what it grows over, which together give `NoLeftovers`. `Reported` leaves
  the code of an exit in the parent's descriptor (R 1607), and `Wait` takes the
  status out of the current one (R 1670). How *argv* and *envp* are laid out is
  left out: one cell value stands for them.
* **ProcStack.** One action per operation, and each says all of what the operation
  may do to the image: `Compute` is a store of the program's own name, a push or a
  pop (`ComputedOf`), `Brk` grows with zeros, `Wait` stores the status of the
  level. A refinement alone would let the code of an exit be any code, so
  `ImplementsProcStack` also says that an exit with code `c` is the stack's
  `Exit(c)` and that a wait is its `Wait` (`StatusHandedUp`): what a parent
  collects is what its own child exited with, whatever the child's children
  exit with and however the descriptors are used again.
* **FileSys.** `name`, `addr`, `len` are the tables, `data` the file area,
  `nextFile` and `nextAddr` the two counters that only grow. `FindFile` is the
  backward search. `Grown` is the effect of the byte loop of `write_file`:
  the length and `next_file_address` move together, one for each byte past the
  length, which is only right for the newest file. `Tidy` keeps programs to
  that (append to the newest file, no gap); it is an assumption on programs and
  not something the kernel checks.
* **Paths.** `mem` is the memory around the scratch buffer, `src` and `dst` the
  two registers; a step is one iteration, so that overlapping buffers behave as
  they do in the machine.
* **Stdin.** Every byte of the disk at boot is its own place, so a lost, a
  repeated and an overwritten byte are all visible. `Preloads` and
  `ProgramsRead` say which boards there are and on which of them programs read
  standard input; the initial state picks a board.
* **Shell.** `input` has what is meant (commands) and what is on the disk
  (text), and `RenderAll` of `ShellRefinement` makes one of the other; only the
  text reaches the actions. `mode` is the label the code is at. What a program does
  is reduced to: it reads some bytes of standard input and creates a file. The
  rest is `ProcSim` and `FileSys`.
* **Stage1, Hex0Command.** `Hex0!Assembled` is the reference: digits outside
  comments in pairs. It says which digit is the n-th by how many there are up to
  it, and reads nothing from the left to the right. `Stage1Nibble` and `Stage2Nibble` follow the comparisons of
  the two compilers, unsigned ones included (`Beyond`).
* **Virtio.** `Enter`, `Describe`, `Publish`, `Notify`, `Poll` are the stores of
  `virtio_read_sector` in their order, grouped where no device step can tell
  them apart; the device's actions are external, as VirtIO 1.x describes them
  and the driver relies on them. It may act as soon as `avail_idx` has moved,
  before it is notified.
* **SdCard.** `Exchange` is `spi_transfer`: one byte out, one in, and the card's
  next state. The card's part (`mode`, `count`) is external, as the protocol
  has it; the driver's actions are its loops, an exchange a step, except that
  the six bytes of a command go out in one. The card sees only how many bytes
  have gone by; the driver sees only their values, and a sector's bytes may
  have the values of a token, of an answer or of the busy line. Neither R1 nor
  the data response is looked at, as in the code; the card of the model takes
  every command.
* **Sdhci.** The driver's actions are its register writes and its waits, a loop
  iteration a step: `StartRead`, `StartPreload` and `StartWrite` clear status
  bits (each its own) and write the command register, `WaitRead` and
  `WaitWrite` wait for a bit, `ReadWord` and `WriteWord` move a word,
  `EndRead`, `EndPreload` and `EndWrite` clear the bits again; `Reinit`,
  `SwitchOn`, `StartCommand` and `EndCommand` are `sdhci_reinit_card`. The
  controller's part is external, as the SD host controller specification has
  it and the driver relies on it: `CommandComplete`, `BufferReadReady`,
  `BufferWriteReady`, `TransferComplete` and `ClockStable` come when they come;
  what the driver does *not* wait for comes at once (the next block of a
  preload, whose bit is never cleared; the end of a read; a card that is ready
  with the first ACMD41). A word read out of turn is any word. The inhibit bits
  are not looked at, as in the code. The card takes a command only in the
  states that the protocol has for it, and is silent otherwise: the driver,
  which has no timeout, would hang.
* **DeviceTree.** `Walk` is one token, its fields are s4, s5, s10 and s11.
  `Storage` (the operator) says what the nodes of a board are, and `Understood`
  on which boards a walk without a stack can see it: a VirtIO node has no
  children, and no SPI controller follows the one with the card. The kernel
  checks neither: on a board with a second SPI controller behind the card's,
  `fdt_find_storage` returns the wrong one.
* **Storage.** `Find` and `Dispatch` are `main`'s; `boot` then stands for
  `disk_read_fn` and `disk_write_fn`. On the Raspberry Pi stage 1 has said so
  in a register and nothing is looked for: `boot` begins as "sdhci".
* **Assembly, A64Encode, A64Mnemonics.** A line is a record (its kind, its
  mnemonic and operands, the tail behind them); how its text is split is left
  out. Words are sets of bits, so that nothing is cut off at 2^31. An encoder
  that raises returns the empty set. What the tables say (`OPCODES`, `REGS`,
  `CONDS`, ...) is in the model as it is in the code: the reference it is
  checked against, `Manuals`, was written from the other side, as a decoder.
* **A64Assembler, Rv64Assembler.** A line a step. Pass 1 of the first fills
  `labels` and `parsed`, pass 2 `listing`, and nothing is printed before pass 2
  is through. The second prints as it goes, so that a line it refuses leaves a
  file behind, and resolves nothing: it writes fragments and references.
* **Hex2.** Pass 1 counts bytes and finds `targets`; pass 2 xors fragments and
  references into `shift` and that into the next bytes, on whichever line.
* **Hex2ToHex0.** `count_bytes` looks for dots and sigils where the linker
  looks for digits; it advances through the binary by its own count.
* **Toolchain.** `fresh` are the targets newer than what they are made from.
  `Make` runs the recipe of the first that is not. A recipe that fails leaves
  its target behind, newer than its prerequisites (the shell has opened the
  file, and the Makefile has no `.DELETE_ON_ERROR`), so the next `make` goes on
  from there and succeeds: `spoilt` remembers that, and the properties say
  nothing of what such a `make` has made. `Edit` writes another source and
  makes everything out of date.
* **Meaning.** `SaysWhatItMeans` decodes the bytes beside each line of the
  `.hex0` file with `Manuals` and compares with what the line asks for; where a
  label is, it counts for itself, from the bytes that are there (`Spots`).
* **Build.** `Flash` renders the `.hex0` file as text (its copied label lines
  included: a label of hexadecimal digits would be compiled, which is why
  `hex2tohex0.py` comments them out), puts it on a disk with a script and
  switches the machine on; stage 1 then compiles it.

## 3. Runs

`tlc -config <cfg> <module>`; all of them finish within five minutes with two
workers.

| run | module, cfg | what it asks |
|---|---|---|
| `processes` | `MCProcSim` | `TypeOK`, `NoLeftovers`, `SaveAreaIsStack`, `LiveRecordsAllocated`, `ImplementsProcStack` |
| `proc_exit_without_exec` | `MCProcSim`, `MCProcExit.cfg` | violated: `ParentResumesOnExit` |
| `files` | `MCFileSys` | `TypeOK`, `FilesDisjoint`, `ImplementsFileStore` |
| `paths` | `MCPaths` | `TypeOK`, `ResolvesToAbsolute`, `Canonical`, `Returns` |
| `paths_in_place` | `MCPaths`, `MCPathsInPlace.cfg` | violated: `WritesOnlyTheResult` |
| `stdin` | `Stdin`, `MCStdin.cfg` | `TypeOK`, `ReadsTheImage` |
| `stdin_preload_program` | `Stdin`, `MCStdinShared.cfg` | violated: `ReadsTheImage` |
| `shell` | `MCShell` | `TypeOK`, `ExecutesTheScript`, `Halts` |
| `shell_generated` | `MCShell`, `MCShellGenerated.cfg` | violated: `CompilesTheSource` |
| `build` | `MCBuild` | `BuildTypeOK`, `CompilesTheSource`, `HandsOverTheScript`, `CompilesTheFile`, `Jumps` of the compilers; `ToolsTypeOK`, `MakesTheSource`, `SaysWhatItMeans`, `AddressesAgree`, `BytesInStep` of the tools; `BootsWhatWasLinked` of both |
| `mov_counts_four` | `MCBuild`, `MCBuildMov.cfg` | violated: `AddressesAgree` |
| `storage` | `MCStorage` | `FindsTheDevice`; `StorageTypeOK` of all drivers; `OneOwner`, `ImplementsDisk`, `Returns` of VirtIO; `InStep`, `CardImplementsDisk`, `CardReturns` of the SPI driver; `InTurn`, `PreloadsTheDisk`, `HostImplementsDisk`, `HostReturns` of the SDHCI driver |

Bounds, and why they are enough:

* **processes** (1,580,209 states): two programs of different content, three
  descriptors (the shell's and two levels, so a child of a child and two
  records at once), three cells of memory of which loading clears two and the
  program fills one, breaks up to and one beyond the cap, one cell of stack,
  one directory besides the root, two exit codes (0 and the one of a fault), a
  save area in which a second record sometimes does not fit (`Clone` is then not enabled: `SaveCap` is a bound).
  A cell that survives from the other program has the wrong name, and one that
  survives behind what loading clears shows as a status nobody collected. The
  two programs are interchangeable (`MCSymmetry`), and all properties of the
  run are safety properties. `Fds` is empty here: open files belong to `files`.
  `ExecFirst` holds: children that exit or fail to exec while they are on
  their parent's level are `proc_exit_without_exec`'s, and `SaveRecordsSafe`
  (below) is proved without it.
* **files** (254,949): a directory and a file in it, two entries of the tables
  (the same path twice, or both), two descriptors, two bytes, a data area of two cells,
  reads and writes of one or two bytes, seeks by one in both directions, and
  32-bit offsets that wrap at 8. One program at a time: what a nested program
  does to its parent's descriptors is the level structure of `processes`.
* **paths** (49,540): every path of up to six characters of `{d . /}` below `/` and
  below `/d/`: `/..` at the root, at the end, twice, and names that begin with
  dots all occur within six.
* **stdin** (333): sectors of four bytes, six of them behind the source, a preload of
  none or three; a flush of any length that stays below the next sector.
* **shell** (19,634): scripts of up to three commands out of ten, chosen because they
  contain each other: data that are a command, a newline, a zero, a count of
  two digits, names not found, a program that reads a part of the script. Names
  are single letters, except in `shell_generated`.
* **build** (226,999): for the compilers, disks with sources of up to four bytes
  of seven kinds (a digit, both cases of a letter, the letter behind `f`, both
  comment signs, newline) with sectors of three bytes, so that every state meets
  the end of a sector; and each of the 255 bytes between digits, which is all
  the digit test depends on. Sources that fill their last sector are left out:
  there the disk has no zero behind the source, `build-self.sh` puts the script
  right there and stage 1 compiles it as well (see hazards; no source of this
  commit has that length). For the tools, every form of instruction of both
  machines that the encoders tell apart, with operands at the edges of their
  fields (eight lines a program); every program of up to three of the eleven
  kinds of line for AArch64 and the ten for RISC-V, so that labels lie before,
  behind, twice or nowhere and `.align` has something to fill; branches and `la`
  at the last distance they reach and beyond (`MCFar`); and the sources that are
  edited into one another (`Drafts`), some of them refused in pass 1, in pass 2,
  or by the linker. Results of up to two lines are booted (`MaxBooted`). Either
  the disk varies or something is made, not both (`WholeInit`): what stage 1
  does depends on the disk alone.
* **mov_counts_four**: programs of up to three lines of a label, a branch, a mov
  that takes one word and one that takes two.
* **storage** (177,726 states): 1,111 boards of up to three nodes out of ten:
  disks, other VirtIO devices, controllers with and without a card or a
  register, cards elsewhere. The drivers run on two of them, and on the
  Raspberry Pi. VirtIO: two sectors, two values, indexes that wrap after four
  requests, every index at the hand-over from stage 1. SPI: three sectors of two
  bytes, each byte a zero (an answer, the busy line) or a token, two polls, and
  a card that may let as many bytes pass as there are polls, so that an answer
  comes in time, with the last poll, or one byte after the driver has given up.
  SDHCI: the same sectors as words, no two of them alike at first, standard
  input from sector 1 on and a preload of two blocks, so that it ends with the
  disk; calls, initialisations and every place of the controller's steps between
  the driver's. A board without storage halts, so deadlock is not checked here;
  `Returns`, `CardReturns` and `HostReturns` say that no call is stuck. Where a
  driver does not run, its variables have one value (`MCInit`).

Fairness. `Shell!FairSpec` and `Paths!Spec` have weak fairness of the
next-state relation, and `Build!WholeSpec` of stage 1's: one hart executes
the code, nothing interrupts it and the disk answers; programs the shell starts
come back. Nobody has to run a tool, nor does one that runs have to go on: what
is asked of the tools is safety. `Storage!StorageSpec` has weak fairness of the
driver in use while a call is under way (it polls without a limit and nobody else runs), of the
VirtIO device, with the SPI driver of its card, which moves with every byte, and
of the SDHCI driver and its controller: a card that is read gives its data in
the end and is not busy for ever, and a controller that has work does it
(without that no driver could return: none has a timeout). Nobody is
obliged to call the driver. The other modules state safety only. Deadlock is
checked wherever the system cannot stop; the shell, `absolute_path` and the
compilers do stop when they are done, and their configurations say so.

### What the violated runs show

* `proc_exit_without_exec`: `exit` (R 1584-1649) always pops a level. A child
  that exits before it has called exec is on its parent's level: the parent
  never resumes, against the header of clone (R 1037-1038). `ExecFirst`
  excludes it in `processes`.
* `paths_in_place`: `src` and `hex0` give `absolute_path` a name that lies in
  the buffer it writes (R 3333, 3490): a relative name never ends and the copy
  fills memory with slashes. Scripts with absolute names, as all of the
  repository's are, do not meet it; `shell` has only such names.
* `stdin_preload_program`: on the Raspberry Pi the loop of the read system call
  (A 606) does not know the preload: a program reads other bytes than the
  shell's next ones. `ProgramsRead` excludes it in `stdin`.
* `mov_counts_four`: pass 1 of `a64-asm2hex2.py` counts four bytes for every
  instruction (274), but a mov of a number beyond 0xFFFF becomes the two to four
  words of `load_addr` (449-452): every label behind it is off, and branches
  across it go elsewhere, without a message. `AllCountable` excludes it in
  `build` (`MCCountable` says so); no `.S` file of the repository has one.
* `shell_generated`: `hex0-to-src.sh` leaves a newline in the count of `src`,
  which the shell takes for a digit: the count is wrong and the rest of the
  script is stored as data.

Smaller disagreements of documentation and code, met while reading and not
given runs: README.md:198 says faccessat always succeeds, it returns -1 for a
missing path (R 935); README.md:221 says `f` flushes before the next command,
it flushes before the next *program* and at the end (R 3645; `Commands` says
what the code does).

## 4. Proofs

`tlapm <module>`; Z3, Zenon and LS4.

* **ProcSimProofs**, from `ParamsAssumption` (sizes are naturals, images fit
  under the cap, ...). `IInv` is `TypeOK`, `LiveRecordsAllocated`,
  `SaveAreaIsStack` under `ExecFirst`, and two strengthenings: `OneFork` (the
  forked count is 0 or 1 and only the current level may have it) and
  `RecordsOK` (in each live record the three areas lie one behind the other and
  the first cell holds registers). They are needed because `exit` reads what
  `clone` wrote several levels ago: without `RecordsOK`, `Resume` could restore
  anything, and `TypeOK` is not inductive. One lemma per action, then
  `TypeCorrect`, `SaveRecordsSafe`, `SaveAreaStack`. `SaveRecordsSafe` does not
  need `ExecFirst`.
  `MemoryIsItsOwn` (`NoLeftovers`) has the hypothesis `LoadClears`: what a program
  is given when it starts, its file and the pad behind it, lies within the 2 MB
  that loading clears; files of the repository's size do. Its invariant `Clean`
  speaks of all images, the saved ones too, because a parent's memory comes back
  from the save area. `ImplementsStack` is the refinement of `ProcStack`, under
  `ExecFirst` and `LoadClears`: the mapping rebuilds the image of every waiting
  level from its record, so for each action a lemma says that the records of the
  others are not touched, for `Resume` that what comes back is the image that
  was suspended, and for the actions of the running program exactly what they
  make of its image. `StatusesRefine` is the second half of the property: an
  exit is the stack's exit with the same code, and a wait is the stack's wait.
* **FileSysProofs**, from the assumption on the constants. `IInv` is `TypeOK`
  and `FilesDisjoint` with the range of the entries created so far.
  `FilesLaidOut` says `Tidy => FilesDisjoint`: without `Tidy` a write to an
  older file moves `next_file_address` too, and the layout is lost.
  `ImplementsStore` is the refinement of `FileStore` under `Tidy`: the log is made
  of the tables and the data, and a write, a copy or the hex0 command touches the
  bytes of no file but the newest. It needs one more invariant, `ClosedIsEmpty`
  (entry 0 has no bytes), because a read through a descriptor that is not open
  goes by entry 0.
* **StdinProofs**. `StreamOfTheImage` says that `Stdin`
  implements `ByteStream` if programs read standard input only where there is no
  preload (`ProgramsRead \subseteq {0}`; the other case is
  `stdin_preload_program`). Its invariant `Placed` says where in the image the
  next byte of each buffer is, and that the disk behind it has not been touched.
* **PathsProofs**, from `PathsAssumption` and the hypothesis `Apart`: the working
  directory fits in front of the input; that is what `paths_in_place` breaks.
  `PathInv` has a part for each place in the code: in `PathCopied` the copy stays
  behind what is still to be read, in `Collapsing` no `//` is left in front of
  `dst`, in `Scanned` no `..` in front of `src`. `PathTypeCorrect` (no access
  outside the buffer), `WritesItsResult` (no more is written than the directory
  and the path are long, however often `..` goes back) and `ResultCanonical` (the
  result begins with `/` and has neither `//` nor a component `..`) follow.
  `ResultAbsolute` (`ResolvesToAbsolute`) says which of these texts it is. The
  code works in place, with slashes dropped first and `..` from the front, again
  and again from the beginning; `Absolute` goes over the path once, component by
  component (`Walk`). The invariant `Follows` ties them together: what memory
  holds comes to the components of what was asked for. Two walks that have come
  to the same stay together over the same text (`WalksMeet`); a slash behind a
  slash leaves a walk where it is (`SlashSlash`), and a component with the `..`
  behind it brings it back to where it was (`UpOut`), which needs that nothing in
  front of the scan is a `..` any more. At the end a text without `//` and `..` is
  spelt by what it comes to (`PlainIsAbsolute`).
* **BuildProofs**, about the tools. `OneWordEach`: whatever its operands, a mnemonic other than
  mov and the pseudo-loads becomes one word or is refused; a lemma for each group
  of `encode_mnemonic`'s branches. `LabelsAgree`, from `AllCountable(Sources)`:
  the addresses that pass 1 counts by the line are the linker's, whatever is
  edited and however often it is made. Pass 1, pass 2 and the linker's first
  pass run at different times on different files, so the invariant says what each
  has built after n lines by operators on the files (`ParsedTo`, `Printed`,
  `Located`), with a lemma for one line more. `Ordered` says in which order the
  tools run, `CountedAlike` what each of them has built by then.
  `HalvesFit`: for every number the lower part of an `li` fits addi's field and
  both parts come to the number, and up to 2^31 - 2049 the upper one fits lui's.
  `AnnotatorCountsAlike`: for every set of sources,
  `hex2tohex0.py` counts for each line of `rv64-asm2hex2.py` the bytes that the
  linker writes for it, though one looks for sigils and the other for digits.
  `HasItsLines` (`MakesTheSource`, of all sources): a `.hex0` file that make is
  content with has the lines of its `.S` file, each once and in their order, if no
  recipe has failed since the `.S` file was written. Its invariant says of every file what it is in terms of the file it was made
  from (`Lined`, `Copies`), and by `Ordered` only while that file is still there.
  `ToolsTyped` (`ToolsTypeOK`) and `CountedInStep` (`BytesInStep`) are about
  sources whose data are bytes (`AllLegible`, which the run's `ASSUME` checks of
  its sources). `TInv` says of what kind the lines are that each tool prints, for
  every mnemonic of both assemblers; `Counting` that the linker's bytes are as many as
  the lines of the `.hex2` file say, and those that `hex2tohex0.py` has left as
  many as the lines from where it is (`Rest`). Here a set stands for a sum: the
  bytes of the lines, each named by its line and its place (`BytesFrom`).
  `ToolsInTheWhole`: the tools run in `WholeSpec` as they do alone, so all this
  holds there.
* **ShellProofs**, from `Meant`: every input is `WellWritten`, sources are compiled to
  bytes, and how much a program reads is a natural. A script is `WellWritten` if its
  text is that of its commands, if a name does not hold the byte that ends it, if a
  program is not called what begins with a letter of the built-in commands (or with
  an end of line, a `#` or a zero), and if a program that is there is given as much
  input as it reads, and one that is not there none. Without any of these a text
  means something else to the shell, which is what `shell_generated` is about;
  data may be anything. `MCShell` has TLC check it of the inputs of the run.
  `ScriptIsExecuted`: for every such script, however long, the shell implements
  `Commands`. The invariant (`IInv`) says how many commands are behind the
  shell and where it is in the next (`Reached`, and `Under` for each mode: what has
  been parsed is how the name, the count or the data of that command begin), and that the
  files have the names these commands leave (`Known`), because a missing program does
  not read its input. `StepOutcome`: every step stays within a command, begins or ends one, passes
  an empty line or halts (`Moves`), and `MovesKeepPromise` makes a step of
  `Commands` or none of it. It rests on where the texts of commands lie in that of the script
  (`FlattenPlaces`, `EndsPlaced`), on the counts: the digits of a number, read from the
  left the way `src_parse_count` does, are worth that number (`DecimalValue`),
  and on what each byte of a command's text is (`SrcTextIs` and its like).
  `ShellTypeCorrect` follows from the same invariant: that `left` and `count` are
  naturals, which bytes that are no digits would not let them be.
* **BuildProofs**, about the two compilers: of `BuildSpec`, which is one power-on, and from `AllBuilt`
  (the images are what `build-self.sh` makes of texts with a zero byte behind
  them; `MCBuilt` checks it of the run's images). `ScriptHandedOver`: stage 1
  counts sectors, `build-self.sh` divides, and they agree for every length and
  sector size. `SourceCompiled` and `FileCompiled`: both compilers make of *every*
  text the bytes it stands for. The invariants `Translating` and `Compiling` say
  the same of both (`Translated`): the digits seen are as many as twice the bytes
  written and `state` more, and `mode` is "comment" exactly in one
  (`CommentNext`). That the next digit is the n-th of `Digits` needs that ranks
  are unique (`SeenGrows`), by cardinalities; nothing is recursive. That both
  digit tests, stage 1's with its unsigned comparison, find the same 22
  characters is `NibblesAreDigits`. `CompilersTyped` is the type invariant.
* **BuildProofs**, about the whole (`WholeSpec`), from `AllBuilt(Images)` and
  `AllLegible(Sources)`. `WholeBuilds`: all this stays true when the text comes from
  the tools and the machine is switched on again with it, any number of times.
  `LinkedIsBooted` (`BootsWhatWasLinked`): what is in memory when stage 1 jumps is
  what the linker wrote, byte for byte. Three facts meet in it. The linker's bytes
  are as many as the lines say, and `hex2tohex0.py` hands them out by its own
  counting (`Handing`: each line that is done has its own part of the linker's
  file, and the parts lie one behind the other). A line is digits and then a comment that
  is full of letters: from a place in code the scanner finds the bytes of the line
  and is in code again behind it (`LineRead`, with `Plain` and `Remark` for the two
  parts), so for the file it finds those of all lines (`FileRead`, by `Upwards`).
  And two digits are the byte they were written for: `Number` sums the bits of a
  set (`NumberIsSum`), the digits are its two halves (`DigitsOfByte`).
* **StorageProofs**. For `Virtio`, from `VirtioAssumption`: `Agreement` says for
  every place in the driver where the device can be: `AtRest`, `Waiting`
  (published, not taken), `Working`, `Returned`. `OneOwner` follows from it, and so
  does `DriverImplementsDisk`, a refinement proof: Init maps to Init, every step
  to one of `Disk` or to none. The wrap of the indexes enters by one fact, that
  the index behind another is a different one (`NextIndex`).
  For `SdCard` (`Card!` in `Storage`), from `SdAssumption` (a card as large as a
  32-bit address can tell, that answers at the latest with the byte behind the last
  poll): `Card!Agreement` says for every place in the driver what the card is about to
  do, `Card!Transfer` that both count the same in a block and how much of it has
  arrived. `Card!Overdue` is the case that makes the filler bytes necessary: the
  driver has given up and the answer comes with the next byte (`LateAnswer`).
  `StaysInStep` and `CardDriverImplementsDisk` follow; the buffer of a read counts
  for `Disk` when it is complete.
  For `Storage`: the behaviours of `StorageSpec` are, variable for variable,
  behaviours of each of the three drivers with its device (`StorageRunsVirtio`,
  `StorageRunsCard` and their like for the host), so that what was proved of each
  by itself holds of the kernel that chooses: `StorageTypeCorrect`, `DevicesInStep`
  (`OneOwner`, `InStep`, `InTurn`), `StorageIsADisk` (all three refinements) and
  `PreloadGoesOn`. They are about all boards and all initial values; the run
  checks the part of `StorageSpec` that begins with `MCInit`.
  `StorageFound` (`FindsTheDevice`), from `BoardsAssumption` (boards are sequences
  of nodes): on every board a walk without a stack understands, of any length,
  `fdt_find_storage` returns what the nodes describe. `Leads` says that some tokens
  lead the walk from one state to another and can be put one behind the other,
  `NodeWalked` what a node with its children leads to, and `FoundSoFar` what was
  found of the first nodes: the first disk, or the last controller and whether a
  card was below one. That a node leaves its kind and its address behind when it
  has ended, and that they are looked at once more at the next end, is why
  `FoundSoFar` has `Settled`.
* **SdhciProofs**, from `SdAssumption` and `PreloadAssumption` (the preload lies
  on the card). `IInv` says for every place in the driver where the controller
  is: `AtRest`, `Reading`, `Preloading`, `Writing`, `Initialising`. `InTurn`
  alone is not inductive, because it says nothing of *which* sector and which
  word of it are on their way: `Served` says that the words in the controller
  are the tail of the right block, and `Initialising` carries the card's state
  from command to command (`Along`). Lemma `AtWork` reads it from the
  controller's side: what it works on says where the driver is. `StaysInTurn`,
  `PreloadIsTheDisk` and `HostIsADisk` follow.

Induction over data: the library's induction theorems take an operator, which
the installed provers cannot instantiate. `Upwards` (a set of naturals that has 0
and with every number the next has them all) follows from the well-ordering of
the naturals, which is stated of sets, and with it recursive functions on numbers
can be reasoned about: `Shifted`, `Spots`, `Walk` and the like.

Only model-checked:

* `SaysWhatItMeans`: two independent readings of each machine's manual, one
  table of encodings against another. A proof would go through the tables case
  by case and show no more than the run, which takes every mnemonic.
* Liveness (`Returns`, `CardReturns`, `HostReturns`, `Halts`, `Jumps`), which needs
  ENABLED.

## 5. Not modelled, and what is left

Not modelled at all:

* how execve copies *argv* and *envp* from a stack that it overlays
  (R 1224-1395): one cell value stands for them (`ProcSim!WithArgs`);
* page tables (constant after boot), the dispatch table (comparisons without
  state), the vendored x86 kernel, console output;
* stage 1's search for its device, and its initialisation of the VirtIO device
  and of both kinds of card (the SDHCI one is, but for its polls of ACMD41, the
  one of `sdhci_reinit_card`); the cores that it parks.

Left out of what is modelled:

* Assemblers: how the text of a line is split. Lines here are classified; so
  the regular expressions for tails and operands, labels whose names are
  hexadecimal digits only, odd numbers of digits, pairs of digits in comments and
  two instructions on a line are not met. Numbers of 2^31 and more are met as
  masks of bits only (`li` from 2^31 - 2048 on does not fit lui, which
  `HalvesFit` excludes). Operands behind the ones a mnemonic looks at are not in
  the sample, and the command line of `a64_asm.py` is not modelled.
* Linker: the other architectures, sigils, alignment and pad tokens of this
  vendored tool, which the assemblers here never print.
* Overflows of fixed tables (descriptors, save area, file table, name buffers)
  are bounds of the models, named `BOUND` in a comment: the code does not check
  them and what it then does is not described.
* Devices do what the drivers rely on. A card that never answers, an error bit
  or a controller that is slower where the driver does not wait are hazards in
  `PROJECT.json`, not behaviours.

What would come next:

1. `ExecArgs`, cell by cell, against "the new program finds the old strings",
   and composed with `ProcSim!WithArgs`.
2. Stage 1's initialisation of the cards, with the polls that stage 2 leaves out.
3. Standard input, shell and flush over one disk and one driver, so that a
   flush, a reboot and the next script are one behaviour.
