# STM32 AES bootloader: specification

TLA+ modules for the bootloader of this repository, TLC configurations that check
them on small instances, and TLAPS proofs of what must hold for every flash
layout and every file. Source lines are given relative to the root of the
repository.

## The system

A bootloader in the first pages of an STM32F1's flash. With the boot pin high it
is a USB serial device with a command line; `program` erases the application area
and then takes an encrypted Intel hex file as text, line by line, decrypts it and
writes it to flash. With the boot pin low it starts the application. A host tool,
the encrypter, prepares the file.

| Component | State it keeps | Operations | What makes it correct |
|---|---|---|---|
| Flash layout (`src/bl_data.c`) | none | first and last address of bootloader and application, erased-page test | the application begins at a page no byte of the bootloader is in |
| Flash controller driver (`stm32f10x_flash.c`) | lock bit, sticky error flags, the flash itself, the option byte | unlock, lock, clear flags, erase page, program half-word, read-out protection | an error is reported and nothing is written while locked |
| Half-word packer (`src/stm_hex.c`) | `even_valid/addr/data` | one byte, end of file | every byte is written once, next to its neighbour or to 0xFF |
| Hex parser (`hex_parser/hex_parser.c`) | `addr_offs` | one line in, optionally rewritten | damage is noticed; addresses are the file's |
| Decryption (`tiny-AES-c`) | position in the CTR key stream | start, xor a buffer | in step with the encrypter |
| Command line (`src/cli.c`) | `command_mode`, `program_status`, `erase_addr`, `iteration` | `erase`, `program`, `status`, `info`, a hex line | the verdict is right; the flash is locked when nothing is going on; the bootloader is never touched |
| Command interpreter (`FreeRTOS_CLI.c`) | `pxCommand`, the position of `help` | find a command, count its parameters, call it | the command the line names is called until it is done, and leaves nothing to the next |
| USB serial line (`src/usb/hw_config.c`) | `ready`, `rx_cnt`, `rx_idx`, `rx_data`, `tx_done` | get a byte, write a string, two interrupt callbacks | nothing lost, doubled or overtaken; nobody waits for good |
| USB configuration and device library (`usb_conf.c`, `stm/STM32_USB-FS-Device_Driver`) | endpoint registers, address, configuration, features; `ControlState`, `Usb_wLength`, `Usb_wOffset`, `CopyData`, `Data_Mul_MaxPacketSize`, `SaveState` | bus reset, SETUP, IN and OUT packets of endpoint 0, interrupt dispatch | the host gets the answer to its own request, and what it was told has happened |
| Start-up and main loop (`src/main.c`) | `command_buf` and its position, LED; stage of the start-up, option byte | read-out protection, boot pin, jump; line editing | the flash is protected and locked; the line dispatched is the line the user sees; the LED shows the connection |
| Encrypter (`encrypter/main.c`) | position in the key stream | one line of the file | what it writes is what the device reads |
| Test application, vendor libraries, linker script, keys | | | not part of the core logic |

How they interact: the USB interrupt and the main loop share the variables of the
serial line, with no locking. Everything behind the main loop is a chain of calls
on one thread: a complete line goes to `cli_process`; in command mode to the
interpreter and a handler, in program mode through parser, decryption and packer
to `on_flash_word` and the flash controller. A handler that returns `pdTRUE` is
called again before the next line is read (`main.c:85-90`), which is how an erase
walks through the pages. Endpoint 0 shares nothing with the serial line but
`usb_cdc_ready` and the status of the bulk endpoints.

What is hard to test here: the interleaving of main loop, interrupt and bus, access
by access; statics that survive from one command, session or control transfer into
the next; half-words built from records that are odd in length or address; flash and
option-byte operations that fail, fail late, or lose power half-way; lines that
arrive after the session they belong to has ended; two detectors of the end of a
file. `PROJECT.json` lists each of these hazards at its line, with the properties
aimed at it.

## Modules

```
FlashLayout <- FlashController <- Bootloader <- Procedure      HexParser   <- Encrypter
      ^-------- StmHex <-------------^       <- StartUp        Terminal    <- UsbCdc
                                                               ConsoleText <- Shell <- Console
                              Flasher <------'                 ControlEndpoint
Bootloader_proofs <- Session_proofs <- StartUp_proofs
                                    <- Procedure_proofs
Console_proofs     ControlEndpoint_proofs     Encrypter_proofs     UsbCdc_proofs
```

The boundaries follow the code's: `cli_process` hands a line either to the flash
(Bootloader) or to a text (Console), the main loop sees the line as bytes (UsbCdc), and
endpoint 0 has its own part of the interrupt (ControlEndpoint). Where two modules have
the same handler, each has the half of its effects that its properties are about:
`cmd_erase` erases pages in Bootloader and gives one piece of text per page in
Console.

The MC modules give the constants their values and nothing else, except that
MCProcedure and MCConsole have TLC evaluate the hypotheses of the theorems about
Procedure and Console.

**FlashLayout** computes the partition and has the flash as *cells*, the half-words
at even addresses, each a pair of bytes. Its constants are the addresses and sizes
the linker and the chip provide, with the assumptions they satisfy.

**FlashController** is the driver as operators on a record `[cells, locked, flags]`.
Each operation takes a fault: refused by write protection, timed out and not done,
or done after the driver stopped waiting ("late"). An error flag stays until it is
cleared, and makes every later operation fail, as `FLASH_WaitForLastOperation`
does. Programming a cell that is not erased sets `PGERR`, unless the value is zero.

**StmHex** is `hex_parser_on_data`: which half-words a byte makes the packer write
and what it keeps.

**Bootloader** composes these with the command line. A hex line is a record
`[kind, addr, data, canon]`: what the parser and `cli_process` tell apart, with
`canon` for an end-of-file record spelled `:00000001FF`. A line is processed in
steps of at most one flash operation, so that `PowerCycle` can fall between any two
of them; a power cycle may also interrupt an erase or a write and leave any of
`TornWords` in the cells concerned.

| Action | Code |
|---|---|
| `Command` | `FreeRTOS_CLIProcessCommand` finding `erase` or `program` |
| `ErasePageStep` | one call of `cmd_erase` with a page left |
| `FinishErase`, `FinishProgram` | the last call of `cmd_erase`, of `cmd_program` |
| `FeedData`, `FeedEof`, `FeedOffset`, `Reject` | `hex_parser_feed` on a line, up to the first byte for the packer |
| `FeedByte` | one call of `hex_parser_on_data` |
| `WriteWord` | `on_flash_word`, and the whole failure path of `cli_process` when it returns false |
| `EndLine` | the return to `cli_process`, which ends the session after the canonical end of file |
| `PowerCycle` | `main` from the top, into either program |

`image` (what the session has fed, by address), `clean` and `orderly` are history:
no action looks at them. `Work` is what the core does without new input.

**Flasher** is what Bootloader promises of the application area and the verdict,
without lines, records, half-words or error flags: an erase changes the area page by
page, a session cell by cell, and a session ends with "ok" only when every byte received
is there, and otherwise with "error". A write that was given up may still be carried
out, and a loss of power spoils one page of an erase or one cell of a session. `Phase`
and `App` are the refinement mapping; verdict and bytes received are `status` and
`image`.

**StartUp** is `main` up to the command line, in front of Bootloader's actions: the
check of the read-out protection, the erase of the option bytes, the writing of RDP,
the lock, and the boot pin. RDP is the key, blank, zero or torn; `protected` is the
bit of `FLASH->OBR` that a reset loads from it. The result of
`FLASH_ReadOutProtection` is ignored as in the code, so that an error leaves its flags
in the controller. Power may fail at any of these steps, with the option byte left as
it was, as it was to become, or torn.

**Procedure** adds the person who follows the README: `program`, wait for the
prompt, send the file, `status`; lines may be damaged on the way, and then the
procedure is followed again. `HexFile` and `WellMade` say which files the procedure is
for: the encrypter's output never names a command, and the text that ends a session
comes last; a well-made file has whole half-words in ascending order inside the
application. Records of type 03 and 05 (`start`) are accepted and change nothing.

**HexParser** is the text of a record: what the parser accepts, what it acts on and
how it rewrites a record. **Encrypter** runs a file through the encrypter and the
device's parser and decryption, each with its own key-stream position.

**UsbCdc** has the main loop, the interrupt and the host. A step of the main loop
is at most one access to something the interrupt shares: `usb_cdc_rx_idx++` is a
load and a store, the comparison of the two volatile counters two loads in either
order (C leaves it open), a status change of an endpoint a load of the register and
a write of the bits to toggle. The interrupt cannot be preempted and is never
masked, so it is atomic and goes before the next step of the main loop. The control
endpoint is one step that configures the device; ControlEndpoint has the steps it
takes. What the main loop does with a byte is `Reply`, the strings it writes in
answer; the answer does not depend on earlier bytes. **Terminal** is the abstract
serial line that UsbCdc implements, with the refinement mapping `Unread`, `InFlight`.

**Console** is line editing, the interpreter and the texts. `command_buf` is an array
with whatever was in it before, so the terminator and the stale characters behind it
matter. A handler is an operator `handler(more)`, `more` being what it returns, with
its static (`helpNext`, `iteration`, `erasePage`) and its piece of the answer;
`FreeRTOS_CLIProcessCommand` finds the command, counts its parameters and calls it.
The characters of a name are a sequence, because the comparison of names is what the
properties are about; a text of the answer is a name and a number, and
`program_status` is the list of texts appended to it, with their lengths. **Shell** is
what the console promises: a line is edited, and a complete line gets its whole
answer, piece by piece. `Remaining` maps the handlers' statics to what Shell has yet
to say. **ConsoleText** has what the two share.

**ControlEndpoint** is endpoint 0. `CTR_LP` is a step per access to what the bus
shares, since packets go on while the interrupt runs: `Enter` reads the interrupt
flag, `SaveStatus` the statuses; then `SetNak`, `ClearCtr` and `Restore` each write
what `GetENDPOINT` read before, by toggling status bits, and by clearing the flag that
was not set when it was read. `Process` is
`Setup0_Process`, `In0_Process` or `Out0_Process` with `Post0_Process`. `CopyRoutine`
and `Performed` are the library's conditions on a request, `DataStageIn` the next
packet of an answer. A byte of an answer is a triple of the routine that copied it,
the version of the data (the number of a string, the configuration at that moment)
and its place, so that a byte of another answer, another state or another place
shows. `FeatureBegins` and `SetFeature` are the one case in which a handler writes to
the register itself: SET_FEATURE and CLEAR_FEATURE of endpoint 0 read it and write
STALL or VALID to the endpoint that serves them, in two steps of their own, before
`Restore` writes the saved status. The host begins a transfer with any request, goes on with it as USB says, gives
up a read (`Aborts`), sends a SETUP before the interrupt is done (`Hurries`), or
resets the bus; `before` and `hurried` are history.

## Runs

| Run | What it asks | Result |
|---|---|---|
| `bootloader` | any commands and records, address wrap-around, faults, failing `malloc`, power cycles; does the whole implement `Flasher` | holds, 2 085 000 states |
| `power_up` | the start-up before the command line, with failing option bytes and power failures; does every command and line come to an end | holds, 14 978 states |
| `procedure` | does the README's procedure give the right verdict | holds |
| `retry_after_damage` | the same for a section of odd length, after a damaged try | violated, see below |
| `lower_case_eof` | the same for a file that ends in `:00000001ff` | violated, see below |
| `encrypted_file` | does the device get what was encrypted, and notice damage | holds |
| `usb_line` | does a line that stays up implement `Terminal`; can main loop and host both wait; is everything answered | holds |
| `usb_resets` | index bounds and ownership of packet memory under bus resets | holds, 1 045 000 states |
| `led_after_reset` | does the LED go off with the connection | violated, see below |
| `console` | does the console implement `Shell`, whatever is typed and was in the buffer | holds, 74 412 states |
| `control_transfers` | requests of every kind, given up, hurried and reset, with answers of one packet | holds, 4 792 000 states |
| `control_packets` | answers of up to three packets, between requests that change the device | holds, 4 198 000 states |

What the main properties say:

- `ProgramOKMeansWritten`: when the status becomes "Program OK!", every byte the
  session was fed is in the application area at its address. It holds also after
  failed sessions, leftover bytes, late flash operations and power failures.
  `ProgramOKMeansOnlyWritten` adds that nothing else is there, if the session began
  with nothing pending and the flash met no fault.
- `WellFormedFileAccepted`: a file with ascending addresses is never refused by a
  session that began with nothing pending.
- `BootloaderIntact`: no step changes a cell of the bootloader.
- `LockDiscipline`: the flash is unlocked exactly during an erase or a session.
- `ImplementsFlasher`: every step is one that `Flasher` has, or changes nothing it
  speaks of. So nothing outside an erase or a session, no offset left over and no record
  at a strange address, changes the application area; a verdict is given at the end of a
  session and by nothing else; and no error path ends a session without one.
- `EraseClearsApplication`, `LeftoversOnlyAfterError`, `LineCompletes`: see their
  comments.
- `ProtectionSet`: a start-up without an error protects the flash from the next power
  cycle on, and from then on no start-up, complete or cut off, leaves it unprotected.
  A power failure between the erase of the option bytes and the writing of RDP does
  no harm, because any value but the key protects.
- `LockedAtStart`: neither program starts with the flash unlocked, also when
  `FLASH_ReadOutProtection` failed and nobody looked. `WellFormedFileAccepted` is
  checked again in this run: the error flags such a start-up leaves do not reach
  the first session.
- `FileSentStatusOk`, `DamageReported`, `TryAnswered`: a try whose lines all arrived
  is answered "Program OK!", one that lost a line is answered with an error, and
  every try is answered.
- `DeviceGetsPlaintext`, `DamageNoticed`: the key streams stay in step whatever the
  encrypter drops, and a changed character is noticed.
- `ImplementsTerminal`, `AllAnswered`: the refinement of the serial line, and its
  liveness. `NoHandoverLost`: what liveness rests on, as an invariant: the main loop
  waits for `usb_cdc_tx_done` only while a packet can still be fetched or its
  interrupt is due, and once it has read everything the host may send or is about to
  be let. `IndexInBounds`, `PacketMemoryOwned`: what still holds under resets.
- `ImplementsShell`: the line dispatched is the one the user sees, whatever longer
  lines left in the buffer; it gets the answer of the command it names, whole and
  once. `AnswerFinished`: and to its end. `NothingLeftOver` (Console): between two lines every handler's static is back
  at its start. `BufferIndexInBounds`: `command_buf_pos` stays below the size of the
  buffer without being compared with it, for lines that fit. `StatusTerminated`: the
  texts appended to `program_status` do not add up over sessions.
- `NothingLeftOver` (ControlEndpoint): no transfer leaves a remainder in `Usb_wLength`
  or the mark for an empty packet, on which the answer to a request for a string that
  does not exist depends. `DataIsAnswer`: what the host receives is the answer to its
  own request, in order, cut to the length it asked for and complete before the
  status. `VerdictRight`: a transfer ends well only if the device performs or answers
  the request, and is stalled only if it refuses it, with the one exception of the halt
  of endpoint 0 (see below). `HostKnowsDevice`: when the interrupt has nothing to do, what the host was
  told has happened and nothing else; host and device agree on the address at every
  moment of a transfer. `TransferEnds`: a transfer the interrupt has begun on ends.

### Where code and README part

- *retry_after_damage.* The even byte pending in the packer when a session fails is
  still pending in the next one (`stm_hex.c:60`). After a damaged line in a section
  of odd length, sending the file again writes that half-word twice and is answered
  "Program Error", where the README (line 109) shows "Program OK!". The
  failing try may leave a byte of its own behind.
- *lower_case_eof.* The parser takes `:00000001ff` for the end of the file, but
  `cli_process` compares the text with `:00000001FF` (`cli.c:310`). The session
  stays open and `status` is read as a hex line.
- *led_after_reset.* `usb_cdc_get_char` waits without looking at `usb_cdc_ready`
  again (`hw_config.c:128`), so after a bus reset the LED stays on until a byte
  arrives, where the README (line 56) has it indicate the connection.

Some limits show in configurations that are not runs, since nothing in the repository
promises otherwise:

- With `MaxResets = 2`, `NoHandoverLost` and `AllAnswered` are violated: a bus reset
  while an answer is in flight leaves `usb_cdc_tx_done` false and the main loop waiting.
- With `ZeroLength = TRUE`, `ImplementsTerminal` and `NoHandoverLost` are violated: an
  empty packet that arrives between the two loads of the comparison makes the main loop
  read the first byte of the last packet again.
- `VerdictRight` without `StallsItself` is violated. Comments in `usb_int.c` (87-88 and
  126) have both directions of endpoint 0 at NAK from before a handler until after it,
  but SET_FEATURE(ENDPOINT_HALT) for endpoint 0 IN writes STALL to the endpoint in the
  middle of the handler (`usb_core.c:395`), when the flag is already cleared and the
  host may be polling for its status. Until `usb_int.c:128` writes the saved status a
  few instructions later the host can be answered with STALL, although the request is
  accepted. The halt itself is gone with that write.
- `ImplementsShell` is violated by a line of a command and 256 further words, which
  the `int8_t` of `prvGetNumberOfParameters` counts as none. No command of the
  bootloader reads a parameter.
- A SETUP that arrives while an interrupt is due (`hurried`) may be lost when the other
  flag is cleared, answered with a stall, or, for SET_ADDRESS, too early. A host that follows USB's timing does not
  send one; `DataIsAnswer`, `VerdictRight` and `HostKnowsDevice` speak of the other
  requests, also of those that follow a hurried one.

### Bounds

- Flash: three pages of four bytes at address 8; the bootloader takes three bytes, so
  that its end is in the middle of a page and its last cell is shared with no one.
  Two application pages are enough for a walk with a middle and an end. Addresses
  are modulo 32 and not 2^32, so that an offset of 24 wraps around. A byte has two
  bits: the erased value, zero, and two others, so that swapped or lost bytes show.
- Lines: chosen for their edges, see `MCBootloader`. They may come in any order, any
  number of times. `MaxBlocks` bounds the key-stream blocks of one session, 4 or 6;
  it limits a session to four to six short data records, enough for a gap, an
  overlap, a repeated address and a wrap-around in one session.
- `power_up` has the flash of `bootloader` with six lines: both commands, an unknown
  one, the end of file, and two records, one with an odd address.
- Power cycles and sessions are not bounded. In `Procedure`, three tries and two
  damaged lines, which fall on any two lines, of one try or of two.
- Encrypter: files of two free lines, a good line and an end of file. Blocks of two
  bytes, so that records are empty, shorter, equal and longer.
- UsbCdc: packets of two bytes and an input of five; every way of cutting the input
  into packets is explored, and an answer longer than a packet. `MaxResets` counts
  the reset of attachment: 1 is a line that stays up.

- Console: all lines of up to three characters over two letters and the space, so that
  names are beginnings of each other, words are cut and joined, and a shorter line
  follows a longer one; the buffer holds exactly the longest line with its terminator
  and starts with letters or spaces. Two pages, three pieces of `info`, and a
  `StatusSize` at which one more text would not fit. Sessions are not bounded.
- ControlEndpoint: packets of four bytes and descriptors of up to three, which keeps
  the device's relation (its descriptors of at most 44 bytes are shorter than its
  packets of 64), and packets of two bytes with descriptors of two to five, so that
  answers take one to three packets, whole packets and not. The halt of endpoint 0 IN is
  among the requests of both runs. One bus reset after the
  one of attachment falls on any step. The number of transfers is not bounded.

Deadlock is checked in the runs of Bootloader, StartUp and Console and on the serial
line. The runs of Procedure and Encrypter end with the last try and the last line, in
`usb_resets` the main loop may wait for good (see above), and in the control runs
the host need not go on, so these say `CHECK_DEADLOCK FALSE`.

### Fairness

`WF(Work)` in Bootloader: the main loop has nothing to wait for once it has a line,
and the flash driver's waits are bounded by time-outs. In Procedure also the person,
who goes on with the procedure. In UsbCdc `DeviceSpec` has weak fairness of the
interrupt and of the main loop, which is all a single core with an unmasked
interrupt gives; `AttachedSpec` adds a host that attaches, configures, polls and
sends, which `AllAnswered` needs and `LedShowsConnection` is checked without. StartUp
adds `WF(Start)`, code without a wait that is not bounded; Console has `WF(Answer)`,
the calls that the main loop makes without reading in between. ControlEndpoint has
`WF(Interrupt)` and `WF(Transfer)`: a host goes on with a transfer it has begun, but
neither a request nor a reset has to come.

## Proofs

Every theorem holds for every value of the constants that the named assumptions
allow: every layout, block length, cipher, set of lines, set of faults and set of torn
words; every file and every number of tries; every buffer size and list of commands;
every set of requests, packet size, descriptor length, input and number of resets.
`Bootloader_proofs` begins with lemmas on the layout (division, pages, types), the
controller and the packer, `Encrypter_proofs` with lemmas on the text of a record.

| Module | Theorem | States |
|---|---|---|
| `Bootloader_proofs` | `Invariance` | `Spec => []IInv` |
| | `TypeCorrect` | `Spec => []TypeOK` |
| | `LockDisciplineHolds` | `Spec => []LockDiscipline` |
| | `ProgramOKHolds` | `Spec => []ProgramOKMeansWritten` |
| | `BootloaderIntactHolds` | `Spec => BootloaderIntact` |
| `Session_proofs` | `ProgramOKOnlyHolds` | `Spec => []ProgramOKMeansOnlyWritten` |
| | `EraseClearsHolds` | `Spec => EraseClearsApplication` |
| | `WellFormedHolds` | `Spec => WellFormedFileAccepted` |
| | `LeftoversHold` | `Spec => []LeftoversOnlyAfterError` |
| | `FlasherImplemented` | `Spec => ImplementsFlasher` |
| `StartUp_proofs` | `LockedAtStartHolds` | `PowerSpec => []LockedAtStart` |
| | `ProtectionSetHolds` | `PowerSpec => ProtectionSet` |
| | `WellFormedAfterStart` | `PowerSpec => WellFormedFileAccepted` |
| `Procedure_proofs` | `DamageReportedHolds` | `HexFile => (ProcSpec => []DamageReported)` |
| | `FileSentHolds` | `WellMade => (ProcSpec => []FileSentStatusOk)` |
| `Encrypter_proofs` | `PlaintextHolds` | `Spec => []DeviceGetsPlaintext` |
| | `DamageNoticedHolds` | `Spec => []DamageNoticed` |
| `Console_proofs` | `BufferIndexHolds` | `Spec => []BufferIndexInBounds` |
| | `NothingLeftOverHolds` | `Spec => []NothingLeftOver` |
| | `TypeCorrect` | `Spec => []TypeOK` |
| | `StatusHolds` | `Spec => []StatusTerminated` |
| | `ShellImplemented` | `NamesApart /\ FewWords => (Spec => ImplementsShell)` |
| `ControlEndpoint_proofs` | `TypeCorrect` | `Spec => []TypeOK` |
| | `NothingLeftOverHolds` | `Short => (Spec => []NothingLeftOver)` |
| | `DataHolds` | `Readable => (Spec => []DataIsAnswer)` |
| | `VerdictHolds` | `Readable => (Spec => []VerdictRight)` |
| | `HostKnowsHolds` | `Readable => (Spec => []HostKnowsDevice)` |
| `UsbCdc_proofs` | `TypeCorrect` | `DeviceSpec => []TypeOK` |
| | `IndexInBoundsHolds` | `DeviceSpec => []IndexInBounds` |
| | `PacketMemoryOwnedHolds` | `DeviceSpec => []PacketMemoryOwned` |
| | `Refinement` | `Steady => (DeviceSpec => ImplementsTerminal)` |
| | `NoHandoverLostHolds` | `Steady => (DeviceSpec => []NoHandoverLost)` |

The assumptions: the flash is a whole number of pages, a page is a whole number of
32-bit words, and one page above the flash is still addressable (`LayoutAssumption`);
an option byte's errors are errors of the controller (`OptionAssumption`); the lines
that are typed, and the names of the commands, fit into the buffer
(`ConsoleAssumption`); a packet of endpoint 0 holds at least two bytes, no descriptor
is empty, and requests that read are marked as reads (`ControlAssumption`); a key
stream undoes itself (`EncrypterAssumption`); nobody who follows the README meets a
flash fault (`ProcedureAssumption`); otherwise the types of the constants
(`BootloaderAssumption`, `TextAssumption`, `UsbAssumption`). Some theorems have a
hypothesis besides:

- `Short`: a status and every descriptor are shorter than a packet, as the device's are.
- `Readable`: `Short`, or the host asks for no string that does not exist. A device
  with longer descriptors would answer such a request with what is left in
  `Usb_wLength`.
- `Steady`: one bus reset and no empty packets.
- `HexFile` and `WellMade`: see Procedure above. A section of odd length is not
  `WellMade`, and `retry_after_damage` shows what becomes of it; `lower_case_eof` is a
  file without the text that ends a session.
- `NamesApart`: the commands' names are words and no two are the same, as in `cli.c`.
  `FewWords`: no line has more than 127 words. This excludes lines that can be typed;
  what they get is told above.

Without `Short`, `Steady`, `WellMade` or `FewWords` the statements are false.

`ProgramOKMeansWritten` is not inductive: it says nothing until the session ends.
`IInv` follows each byte the session was fed. `FedBytesHeld`: it is pending in the
packer, waits in `words`, or is stored. `PendingIsLast` and `WordsExplained` say why
a write does no harm: each half of a waiting half-word is the byte last fed there, is
superseded by the pending byte, or is padding over what is already stored, and the
controller accepts padding over a stored byte only if they are equal.
`HalfWordsApart` keeps two waiting half-words from overwriting each other, and
`PhaseInv` ties the phases of the command line to the lock. At the end of a session
nothing is pending and nothing waits, so everything is stored. The proof has a lemma
per action.

`BootloaderIntact` follows from `IInv` and three facts on the layout: the application
begins above the bootloader's last byte, no page of the application holds a cell of the
bootloader, and `erase_addr` never falls below the application.

*The session.* `SInv` adds three invariants. `ErasedSoFar`: while an erase has met no
fault, the pages below `erase_addr` are blank and the controller is ready; it gives
`EraseClearsApplication`, and a blank application at the start of a session.
`OnlyFed`: what is not blank in the application was fed, or waits in the other half of
a half-word that was; at the end of a session that is `ProgramOKMeansOnlyWritten`.
`Ascending`: while the records ascend, all cells ahead are blank, the pending byte is
the last one fed, and each waiting half-word has a blank cell in the application. So
no write is refused, which is `WellFormedFileAccepted`: an error then takes a fault.

*The flasher.* Each action is a step of Flasher or a stutter. `PhaseInv` says in which
phase it is taken, `HalfWordsApart` that a waiting half-word is a cell, and
`ProgramOKMeansWritten` after the last line that the file is there. A page or cell
that is written is one of the application because `erase_addr` and the range check of
`on_flash_word` stay inside it.

*The start-up.* Until `stage` is "up", `Booting` holds: nothing but the controller has
moved. When the boot pin is read with the flash locked, `Booting` gives `SInv`, whatever
error flags are set. `OptionInv` relates `protected` to the option byte and the stage.

*The procedure.* A step of Procedure is a step of Bootloader, so `SInv` holds in it.
`TryInv` says where a try stands: as long as lines are left to be sent, the session has
not ended, or it has ended in an error; this is `DamageReported`. `FileSentStatusOk`
needs `FileInv`: the line being read has not been overtaken by what was fed, the
address offset is the one that stands at this line of the file, and the packer holds a
byte exactly in the middle of a half-word. By `Ascending` of `SInv` the flash then
takes every half-word, whatever the tries before it left.

*The encrypter.* The invariant says that there is a sequence of counters `c`, one for
each line, such that each line written holds its record encrypted from `c` on and the
device's position is the counter of the line it gets next. What remains is text: that a
record encrypted, written and parsed is the record, and that a changed character
changes the checksum or is refused. The sum over the bytes is a recursive function; its
lemmas go by induction, by a least counterexample (`WFMin` of WellFoundedInduction).

*The console.* `PositionInv` ties `command_buf_pos` to the line the user sees, and
`StaticsInv` each handler's static to the command being answered: a position in an
answer is not at its start only while the interpreter holds the command it belongs to.
`StatusInv` says that the status is empty in a session and one verdict otherwise.
The refinement adds `EditInv`: the buffer up to the position is what the user sees, and
the text that is answered is a line. `MatchesIs` and `HeadsOnce` show that the
comparison with the buffer finds the one command whose name is the first word of the
line, `ParametersIs` that the spaces counted are the words, `AnswerIs` that a line begins
with its whole answer ahead, and `HandlerSays` that a call takes one piece off it.

*The control endpoint.* The type invariant needs `AddressInv`, the check of the address
when SET_ADDRESS is taken, at the time it is set. `NothingLeftOver` needs
`NothingStarted`: `IN_DATA` is `ControlState`'s first value, with nothing to copy, and
with short descriptors no transfer enters it again. The other three follow from
`TransferInv`, which gives the phases of a transfer that was not hurried: the request is
due, refused, a halt of endpoint 0 being written, without data and its status due or
taken, or with data, of which a packet is offered, taken, or the last one is taken, and
then its status is due or the transfer is answered. In each phase it says what the registers, `save` and `loaded` hold at every
point of `CTR_LP`, so that a `Restore` that writes what was read earlier writes the
right status; while endpoint 0 bears its own halt (`StatusGiven`) it says that only the
host of that request can meet the STALL. After a bus reset (`NoTransfer`) it says what
may still be pending from before it.

*The serial line.* `IndexInv` says what the main loop knows between its accesses: the
index is below the packet size also when an interrupt has replaced the counters since.
`TxInv` and `RxInv` tie the owners of the packet memories to the endpoint statuses.
The refinement adds `BusInv` (the line is up or was never used), `RxFlow` and `TxFlow`
(where each byte is: in the packet memory, the buffer, the register, or consumed). Each
step of the driver is then a step of Terminal or leaves its variables alone. `Kept` adds
who has the packet memories when a flag or a status keeps the other side out, and that
the status the main loop writes back is the one it has read; it gives `NoHandoverLost`.

Only model-checked: the liveness properties (`LineCompletes`, `TryAnswered`,
`AllAnswered`, `TransferEnds`, `AnswerFinished`), since fairness and ENABLED are out of
the prover's reach. `NoHandoverLost` is the safety half of `AllAnswered`, and is proved.
Every other property of the runs that hold is a theorem, with the
hypotheses above.

## Not modelled

- `cmd_led_ctl` and `FreeRTOS_CLIGetParameter`, which it alone calls: `LED_CLI_CTL` is
  not defined (`config/bl_conf.h`).
- Lines longer than `command_buf`, and refused records of more than 201 characters:
  the code does not limit either, and what happens then is not defined by C.
- Operations on the option bytes that time out: the driver leaves `OPTER` or `OPTPG`
  set, and what the controller makes of a page erase after that is not documented.
- The application's vector table, which the code does not look at before the jump.
- Suspend and resume, `CTR_HP`, isochronous and double-buffered endpoints and the
  control state PAUSE, none of which this device enters.
- The control state OUT_DATA: the library enters it for a read request whose direction
  bit says that the host sends the data (`usb_core.c:886`). `ControlAssumption`
  excludes such requests, so the control runs and theorems are for a host that sends
  none; requests of the class with data of the host are refused and are modelled.
- In ControlEndpoint a handler between the clearing of the flag and the last write is one
  step, unless it writes to the register itself (`WritesOwn`). During that step both
  directions are at NAK, so what a host that is not in a hurry does next waits for the
  last write, and only a hurried SETUP could come in between. The bus reset's handler is
  one step as well.
- AES itself: the cipher is a constant, and only CTR mode's bookkeeping is modelled.
- `usb_cdc_read`, `usb_cdc_rx_avail` and `usb_cdc_stop`, which are never executed.
- The test application, clocks, pins, CMSIS and the rest of the vendor's peripheral
  library. They are most of the repository's lines: of its 47 600, some 45 000 are
  register definitions and drivers for timers, CAN, I2C, ADC and other peripherals,
  of which the program calls a few functions at start-up that keep no state.

## Plan

Done: the flash, packer and command line and the proof of what "Program OK!" means; the
README's procedure; records and the encrypter; the serial line, its abstraction and the
proof of the refinement; the console and the proof that it implements Shell; the
start-up; the control endpoint and the proof of its transfers; the abstract flasher; the
proofs listed above. Left, in this order:

1. Procedure stated over Flasher, which is proved to be what Bootloader implements.
2. Console composed with Bootloader, so that a piece of `erase` and the page it erases
   are one step.
3. Proofs: what Flasher and Terminal promise on their own, so that it need not be
   proved of the code twice.
