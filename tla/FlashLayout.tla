---------------------------- MODULE FlashLayout ----------------------------
(***************************************************************************)
(* The partition of the internal flash into bootloader and application,    *)
(* as src/bl_data.c computes it, and the cells the flash controller        *)
(* programs: half-words at even addresses, each a pair of bytes.           *)
(***************************************************************************)
EXTENDS Integers

CONSTANTS
  FlashBase,   \* FLASH_BASE, the address of the first byte of the flash
  FlashSize,   \* FLASH_TOTAL_SIZE in bytes, read from the chip
  PageSize,    \* FLASH_PAGE_SIZE in bytes
  BootSize,    \* bytes of flash the linked bootloader image occupies
  AddrSpace,   \* 2^32: number of addresses a uint32_t can name
  FF           \* 0xFF, the value of an erased byte and the largest byte

\* What the chip and the linker guarantee of the layout.  A page is a whole
\* number of the 32-bit words bl_data_is_page_clean reads, and the flash is
\* a whole number of pages starting at a page boundary.
ASSUME LayoutAssumption ==
  /\ PageSize \in Nat \ {0} /\ PageSize % 4 = 0
  /\ FlashBase \in Nat /\ FlashBase % PageSize = 0
  /\ FlashSize \in Nat /\ FlashSize % PageSize = 0
  /\ BootSize \in 1 .. FlashSize
  /\ AddrSpace \in Nat /\ AddrSpace % 2 = 0
  /\ FlashBase + FlashSize + PageSize <= AddrSpace
  /\ FF \in Nat \ {0}

Addr == 0 .. AddrSpace - 1
Byte == 0 .. FF

(***************************************************************************)
(* bl_data_get_*_addr.                                                     *)
(***************************************************************************)
FirstAddr == FlashBase
LastAddr  == FlashBase + BootSize - 1
\* Mutant: the bootloader's last page counted as the application's first.
AppFirstRoundedDown == (LastAddr \div PageSize) * PageSize

AppFirst  == ((LastAddr + PageSize) \div PageSize) * PageSize
AppLast   == FlashBase + FlashSize - 1

(***************************************************************************)
(* Flash cells.                                                            *)
(***************************************************************************)
Word  == [lo : Byte, hi : Byte]
Blank == [lo |-> FF, hi |-> FF]
Zero  == [lo |-> 0, hi |-> 0]

Cells     == {a \in FlashBase .. AppLast : a % 2 = 0}
BootCells == {a \in Cells : a <= LastAddr}
AppCells  == {a \in Cells : a >= AppFirst}

\* The cells of the page that holds address a.
PageCells(a) == {c \in Cells : c \div PageSize = a \div PageSize}

\* Mutant: only the first half-word is looked at.
FirstCellClean(cells, a) == cells[a] = Blank

\* bl_data_is_page_clean
PageClean(cells, a) == \A c \in PageCells(a) : cells[c] = Blank
=============================================================================
