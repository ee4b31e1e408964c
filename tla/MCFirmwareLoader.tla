--------------------------- MODULE MCFirmwareLoader --------------------------
(* The ESP32's regions, scaled down with their order and their overlaps kept: *)
(* DROM reaches over everything up to IROM, and the regions in it leave a gap *)
(* behind DRAM and one behind IRAM.                                           *)
EXTENDS FirmwareLoader

Region(base, size, type) == [base |-> base, size |-> size, type |-> type]
MCRegions ==
  {Region(0, 1, "MMIO"), Region(1, 9, "FLASH"), Region(2, 2, "RAM"),
   Region(5, 1, "ROM"), Region(6, 2, "RAM"), Region(9, 3, "FLASH")}

Seg(vaddr, offset, filesz, memsz) ==
  [vaddr |-> vaddr, offset |-> offset, filesz |-> filesz, memsz |-> memsz]
Bits(offset, size) == [offset |-> offset, size |-> size, kind |-> "bits"]
Symbols(offset, size) == [offset |-> offset, size |-> size, kind |-> "symbols"]
Bss(offset, size) == [offset |-> offset, size |-> size, kind |-> "nobits"]
File(segments, sections, size) ==
  [opens |-> TRUE, header |-> TRUE, segments |-> segments, sections |-> sections,
   size |-> size]

(* Sums of two words wrap at 16.  "sections" has no program headers, "bare"   *)
(* no section headers; "rolled" has a sum that wraps in a program header and  *)
(* in a section without bits, "folded" in a section with bits.                *)
InRam == <<Seg(6, 2, 2, 2), Seg(2, 4, 1, 2)>>
Whole == <<Bits(2, 3), Bss(5, 1), Symbols(7, 1), Bits(8, 1)>>
MCElf ==
  [app       |-> File(InRam \o <<Seg(0, 5, 1, 1)>>, Whole, 9),
   bare      |-> File(<<Seg(6, 3, 1, 2), Seg(6, 4, 1, 1)>>, <<>>, 6),
   sections  |-> File(<<>>, <<Bits(3, 1), Symbols(4, 1)>>, 5),
   toolong   |-> File(<<Seg(3, 2, 1, 2), Seg(9, 3, 1, 1)>>, <<Bits(3, 1)>>, 4),
   truncated |-> File(InRam, Whole, 6),
   cut       |-> File(InRam, <<Bits(2, 1)>>, 4),
   rolled    |-> File(<<Seg(2, 3, 1, 1), Seg(6, 15, 2, 2)>>, <<Bss(15, 2)>>, 4),
   folded    |-> File(<<Seg(6, 3, 1, 1)>>, <<Bits(15, 2)>>, 4),
   picture   |-> [File(InRam, Whole, 9) EXCEPT !.header = FALSE],
   missing   |-> [File(InRam, Whole, 9) EXCEPT !.opens = FALSE]]
MCFiles == DOMAIN MCElf
=============================================================================
