--------------------------- MODULE FirmwareLoader ---------------------------
(***************************************************************************)
(* File > Load Firmware of the desktop simulator: SimulationEngine's        *)
(* loadFirmware (DesktopApp/src/core/simulation_engine.cpp) over ElfLoader  *)
(* (simulator/core/elf_loader/elf_loader.cpp) and the regions of            *)
(* MemoryModel (simulator/core/memory/memory_model.cpp).  It all runs in    *)
(* the Qt thread, so a load is one step, but the loader is one object for   *)
(* every load: what a load leaves in it, the next load finds.               *)
(*                                                                          *)
(* A byte of memory is told by the file it was loaded for and by whether it *)
(* is the file's, a zero of its BSS, or a stray byte from beyond the file.  *)
(***************************************************************************)
EXTENDS Integers, Sequences, FiniteSetsExt

CONSTANTS
  Files,      \* the files that the user picks
  Elf,        \* what is in each of them, see ElfFile
  Regions,    \* [base, size, type] of the regions add_region() has added
  WordSize,   \* sums of two uint32_t are taken modulo WordSize
  MaxTables   \* bound: symbol tables the loader's vector is followed to

(* The addresses whose bytes can change: those of the RAM regions. *)
Addresses ==
  UNION {r.base .. r.base + r.size - 1 : r \in {s \in Regions : s.type = "RAM"}}

Word == 0 .. WordSize - 1

(* "opens" and "header" say whether the file can be opened and whether its   *)
(* header names an Xtensa executable.  A program header loads filesz bytes   *)
(* from an offset of the file and zeroes up to memsz.  (Its addresses are    *)
(* not reduced: no region reaches the end of the address space, where the    *)
(* writes of a segment end before they could wrap.)                          *)
Segment == [vaddr : Nat, offset : Word, filesz : Word, memsz : Word]
Section == [offset : Word, size : Word, kind : {"bits", "nobits", "symbols"}]
ElfFile == [opens : BOOLEAN, header : BOOLEAN, segments : Seq(Segment),
            sections : Seq(Section), size : Nat]

ASSUME LoaderAssumption ==
  /\ WordSize \in Nat \ {0}
  /\ Elf \in [Files -> ElfFile]
  /\ Regions \subseteq [base : Nat, size : Nat,
                        type : {"RAM", "ROM", "FLASH", "MMIO"}]
  /\ \A r, s \in Regions : r.base = s.base => r = s
  /\ \A r, s \in Regions :    \* no region begins inside RAM or MMIO
       r.type \in {"RAM", "MMIO"} /\ s.base \in r.base .. r.base + r.size - 1
         => s = r
  /\ MaxTables \in Nat
  /\ "none" \notin Files

VARIABLES
  loader,            \* [file, segments, sections, symbols] of elf_loader_
  memory,            \* the bytes of the RAM regions
  pc,                \* the file whose entry point it is, or "none"
  firmware_loaded_,
  firmware_info_,    \* [filename, symbols]
  aborted,           \* an exception has left main()
  last               \* history: the latest load, how it ended, and whether it
                     \* was the second attempt at a refused file

loaderVars == <<loader, memory, pc, firmware_loaded_, firmware_info_, aborted, last>>

(* ElfLoader::reset() *)
EmptyLoader ==
  [file |-> "none", segments |-> <<>>, sections |-> <<>>, symbols |-> <<>>]

InitLoader ==
  /\ loader = EmptyLoader
  /\ memory = [a \in Addresses |-> <<"none", "zero">>]
  /\ pc = "none"
  /\ firmware_loaded_ = FALSE
  /\ firmware_info_ = [filename |-> "none", symbols |-> <<>>]
  /\ aborted = FALSE
  /\ last = [file |-> "none", outcome |-> "loaded", retried |-> FALSE]

-----------------------------------------------------------------------------
(* ElfLoader *)

(* A range of the file passes the loader's test "offset + length > size" as  *)
(* soon as the sum modulo WordSize does; it lies in the file if the sum      *)
(* itself does, and is read outside the file if only the test passes.        *)
Passes(offset, length, size) == (offset + length) % WordSize <= size
LiesWithin(offset, length, size) == offset + length <= size
Strays(offset, length, size) ==
  Passes(offset, length, size) /\ ~LiesWithin(offset, length, size)

(* parse_program_headers() and parse_section_headers(): without headers in   *)
(* the file the vectors keep those of the file before.                       *)
ParseHeaders(l, f) ==
  [l EXCEPT !.file = f,
            !.segments = IF Elf[f].segments = <<>> THEN @ ELSE Elf[f].segments,
            !.sections = IF Elf[f].sections = <<>> THEN @ ELSE Elf[f].sections]

(* parse_symbol_table(): the symbols are appended to those already there.    *)
(* Under the headers of another file they are whatever lies at its offsets.  *)
ParseSymbols(l) ==
  IF /\ Len(l.symbols) < MaxTables
     /\ \E i \in DOMAIN l.sections :
          /\ l.sections[i].kind = "symbols"
          /\ Passes(l.sections[i].offset, l.sections[i].size, Elf[l.file].size)
  THEN [l EXCEPT !.symbols = Append(@, l.file)]
  ELSE l

Parsed(l, f) == ParseSymbols(ParseHeaders(l, f))

(* parse_section_data() and parse_string_tables() copy every section that    *)
(* has bits and passes the test.                                             *)
CopiesOutside(l) ==
  \E i \in DOMAIN l.sections :
    /\ l.sections[i].kind # "nobits"
    /\ Strays(l.sections[i].offset, l.sections[i].size, Elf[l.file].size)

SectionsPass(l) ==
  \A i \in DOMAIN l.sections :
    Passes(l.sections[i].offset, l.sections[i].size, Elf[l.file].size)

(* Mutation: the bounds of the program headers are not checked. *)
ConsistentSections(l) == SectionsPass(l)

(* validate_consistency() *)
Consistent(l) ==
  /\ \A i \in DOMAIN l.segments :
       Passes(l.segments[i].offset, l.segments[i].filesz, Elf[l.file].size)
  /\ SectionsPass(l)

(* Mutation: a failed load leaves what it has parsed. *)
LoadFileKeeping(l, f) ==
  IF ~Elf[f].opens THEN [loader |-> l, ok |-> FALSE]
  ELSE IF ~Elf[f].header THEN [loader |-> EmptyLoader, ok |-> FALSE]
  ELSE [loader |-> Parsed(l, f), ok |-> Consistent(Parsed(l, f))]

(* load_file(): a file that cannot be opened leaves the loader as it was, an *)
(* ElfLoadException resets it.                                               *)
LoadFile(l, f) ==
  IF ~Elf[f].opens THEN [loader |-> l, ok |-> FALSE]
  ELSE IF Elf[f].header /\ Consistent(Parsed(l, f))
       THEN [loader |-> Parsed(l, f), ok |-> TRUE]
       ELSE [loader |-> EmptyLoader, ok |-> FALSE]

(* Mutation: the BSS is not zeroed. *)
SpanOfData(s) == s.vaddr .. s.vaddr + s.filesz - 1

(* What load_segments_to_memory() writes for a program header: the bytes of  *)
(* the file, or of whatever lies behind it, then zeroes up to memsz.         *)
Span(s) == s.vaddr .. s.vaddr + Max({s.filesz, s.memsz}) - 1

Byte(s, f, a) ==
  <<f, IF a >= s.vaddr + s.filesz THEN "zero"
       ELSE IF s.offset + (a - s.vaddr) < Elf[f].size THEN "data" ELSE "stray">>

(* load_segments_to_memory(): <<k, a>> is the write of segment k to address  *)
(* a, and the segments are written in turn, each upwards.                    *)
Writes(l) ==
  UNION {{<<k, a>> : a \in Span(l.segments[k])} : k \in DOMAIN l.segments}

Precedes(v, w) == v[1] < w[1] \/ (v[1] = w[1] /\ v[2] < w[2])

-----------------------------------------------------------------------------
(* MemoryModel *)

(* Mutation: lower_bound() instead of upper_bound(). *)
FindRegionBelow(address) ==
  {r \in Regions :
     /\ r.base < address /\ address < r.base + r.size
     /\ \A s \in Regions : s.base < address => s.base <= r.base}

(* find_region(): the region with the greatest base up to the address, when  *)
(* it reaches the address; the regions below it are not tried.               *)
FindRegion(address) ==
  {r \in Regions :
     /\ r.base <= address /\ address < r.base + r.size
     /\ \A s \in Regions : s.base <= address => s.base <= r.base}

(* write_byte() throws outside RAM and MMIO, and writes nothing to MMIO that *)
(* has no handler.                                                           *)
Throws(address) == \A r \in FindRegion(address) : r.type \notin {"RAM", "MMIO"}

Stores(address) == \E r \in FindRegion(address) : r.type = "RAM"

(* The last of the writes to an address is what remains there. *)
MemoryAfter(l, writes) ==
  [a \in Addresses |->
     LET writers == {k \in DOMAIN l.segments : <<k, a>> \in writes}
     IN IF writers = {} \/ ~Stores(a) THEN memory[a]
        ELSE Byte(l.segments[Max(writers)], l.file, a)]

-----------------------------------------------------------------------------
(* SimulationEngine::loadFirmware() *)

Remember(f, outcome) ==
  last' = [file |-> f, outcome |-> outcome,
           retried |-> last.file = f /\ last.outcome = "refused"]

Refuse(f, l) ==
  /\ loader' = l
  /\ firmware_loaded_' = FALSE
  /\ Remember(f, "refused")
  /\ UNCHANGED <<memory, pc, firmware_info_, aborted>>

(* Nothing up to main() catches the exception of write_byte(). *)
Abort(f, l, written) ==
  /\ loader' = l
  /\ memory' = MemoryAfter(l, written)
  /\ aborted' = TRUE
  /\ Remember(f, "aborted")
  /\ UNCHANGED <<pc, firmware_loaded_, firmware_info_>>

Complete(f, l) ==
  /\ loader' = l
  /\ memory' = MemoryAfter(l, Writes(l))
  /\ pc' = l.file
  /\ firmware_loaded_' = TRUE
  /\ firmware_info_' = [filename |-> f, symbols |-> l.symbols]
  /\ Remember(f, "loaded")
  /\ UNCHANGED aborted

(* A read outside the file ends the application or brings stray bytes, as    *)
(* the heap has it: in a section while the file is parsed, in segment k when *)
(* its turn comes to be written.                                             *)
LoadFirmwareFile(f) ==
  LET result == LoadFile(loader, f)
      l == result.loader
      writes == Writes(l)
      faults == {w \in writes : Throws(w[2])}
  IN /\ ~aborted
     /\ \/ ~result.ok /\ Refuse(f, l)
        \/ result.ok /\ faults = {} /\ Complete(f, l)
        \/ \E v \in faults :
             /\ result.ok /\ \A w \in faults : ~Precedes(w, v)
             /\ Abort(f, l, {w \in writes : Precedes(w, v)})
        \/ \E k \in DOMAIN l.segments :
             /\ result.ok /\ \A v \in faults : v[1] >= k
             /\ Strays(l.segments[k].offset, l.segments[k].filesz, Elf[f].size)
             /\ Abort(f, l, {w \in writes : w[1] < k})
        \/ /\ Elf[f].opens /\ Elf[f].header /\ CopiesOutside(Parsed(loader, f))
           /\ Abort(f, Parsed(loader, f), {})

(* The application is started again. *)
Restart ==
  /\ loader' = EmptyLoader
  /\ memory' = [a \in Addresses |-> <<"none", "zero">>]
  /\ pc' = "none"
  /\ firmware_loaded_' = FALSE
  /\ firmware_info_' = [filename |-> "none", symbols |-> <<>>]
  /\ aborted' = FALSE
  /\ last' = [file |-> "none", outcome |-> "loaded", retried |-> FALSE]

LoaderNext == Restart \/ \E f \in Files : LoadFirmwareFile(f)

LoaderSpec == InitLoader /\ [][LoaderNext]_loaderVars

-----------------------------------------------------------------------------
(* The headers of a file that stay within it, and those of which the sum of  *)
(* offset and length does not fit a uint32_t.                                *)
WellFormed(f) ==
  /\ Elf[f].opens /\ Elf[f].header
  /\ \A i \in DOMAIN Elf[f].segments :
       LiesWithin(Elf[f].segments[i].offset, Elf[f].segments[i].filesz, Elf[f].size)
  /\ \A i \in DOMAIN Elf[f].sections :
       LiesWithin(Elf[f].sections[i].offset, Elf[f].sections[i].size, Elf[f].size)

SumsWrap(f) ==
  \/ \E i \in DOMAIN Elf[f].segments :
       Elf[f].segments[i].offset + Elf[f].segments[i].filesz >= WordSize
  \/ \E i \in DOMAIN Elf[f].sections :
       Elf[f].sections[i].offset + Elf[f].sections[i].size >= WordSize

(* When the engine says that a well-formed firmware is loaded, every byte of *)
(* its segments is in memory unless a later segment covers it, its BSS is    *)
(* zero even where an earlier firmware had data, and the program counter is  *)
(* its entry point.                                                          *)
LoadedIsInMemory ==
  firmware_loaded_ /\ ~aborted /\ WellFormed(firmware_info_.filename) =>
    LET f == firmware_info_.filename
        segments == Elf[f].segments
    IN /\ pc = f
       /\ \A i \in DOMAIN segments :
            \A a \in segments[i].vaddr .. segments[i].vaddr + segments[i].memsz - 1 :
              /\ \E r \in Regions : r.type = "RAM" /\ a \in r.base .. r.base + r.size - 1
              /\ \A j \in DOMAIN segments : j > i => a \notin Span(segments[j])
              => memory[a] = <<f, IF a < segments[i].vaddr + segments[i].filesz
                                  THEN "data" ELSE "zero">>

(* Overlapping regions never hide memory that can be written: a load that    *)
(* ends the application had a byte for an address that lies in no RAM and in *)
(* no MMIO region at all, or it read a range that passed the loader's test   *)
(* and lies outside the file.                                                *)
OnlyUnwritableAborts ==
  aborted =>
    \/ \E w \in Writes(loader) :
         \A r \in Regions :
           w[2] \in r.base .. r.base + r.size - 1 => r.type \in {"ROM", "FLASH"}
    \/ \E k \in DOMAIN loader.segments :
         Strays(loader.segments[k].offset, loader.segments[k].filesz, Elf[loader.file].size)
    \/ CopiesOutside(loader)

(* A file that is refused, for whatever reason and after whatever loads,     *)
(* leaves the machine as it was.  So does one that is not well formed, be it *)
(* refused or the end of the application, as long as no sum of its own       *)
(* headers wraps: with such a sum it can pass the tests and be mapped.       *)
RefusedChangesNothing ==
  [][/\ last'.file # "none"
     /\ \/ last'.outcome = "refused"
        \/ ~WellFormed(last'.file) /\ ~SumsWrap(last'.file)
     => UNCHANGED <<memory, pc>>]_loaderVars

(* A well-formed file can be refused because of the headers that an earlier  *)
(* load has left; loading it once more then succeeds.                        *)
RetryWorks ==
  last.retried /\ WellFormed(last.file) => last.outcome # "refused"

=============================================================================
