--------------------------- MODULE DesktopProofs ---------------------------
(***************************************************************************)
(* Theorems about the components of the desktop simulator, in this order:  *)
(* the engine and its two threads, the firmware that it loads, its UART,   *)
(* the pins under the window of GpioBench, and the queue of timed events.  *)
(* No variable and no operator is shared among the five modules.           *)
(***************************************************************************)
EXTENDS SimulationEngine, FirmwareLoader, UartController, GpioBench, EventScheduler,
        Counting, FiniteSetTheorems, TLAPS

(* SimulationEngine: although its two threads share no lock, start() never   *)
(* assigns over a thread that was not joined, stop() waits for no thread     *)
(* that was not told to end, and the buttons follow the state.               *)

LEMMA InitIInv == Init => IInv
<1> SUFFICES ASSUME Init PROVE IInv
  OBVIOUS
<1>1. TypeOK
  <2>1. 0 \in 0 .. MaxSignals
    BY EngineAssumption
  <2> QED  BY <2>1, Zenon DEF Init, TypeOK
<1>2. FlagMatchesThread
  BY DEF Init, FlagMatchesThread
<1>3. StopIsUnderWay
  BY DEF Init, StopIsUnderWay
<1>4. StepsWhenNotRunning
  BY DEF Init, StepsWhenNotRunning
<1>5. ButtonsFollow
  BY DEF Init, ButtonsFollow, IsRunning
<1> QED  BY <1>1, <1>2, <1>3, <1>4, <1>5 DEF IInv

(* What the buttons may do: begin an operation, stopping the engine first.  *)
LEMMA UserSteps ==
  ASSUME IInv, Start \/ Stop \/ Pause \/ Step \/ Reset \/ LoadFirmware \/ Shutdown
  PROVE  IInv'
<1> USE DEF IInv, TypeOK, FlagMatchesThread, StopIsUnderWay, StepsWhenNotRunning,
            ButtonsFollow, IsRunning
<1>1. CASE Start
  BY <1>1 DEF Start, GoGui
<1>2. CASE Stop
  BY <1>2 DEF Stop, BeginStop
<1>3. CASE Pause
  BY <1>3 DEF Pause, GoGui
<1>4. CASE Step
  BY <1>4 DEF Step
<1>5. ASSUME NEW operation \in {"reset", "load", "destroyed"}, StopFirst(operation)
      PROVE  IInv'
  <2>1. gui = "idle" /\ gui' \in {"stop emit", "reset", "load", "destroyed"}
    BY <1>5 DEF StopFirst, BeginStop
  <2>2. sim_thread_running_' = sim_thread_running_ /\ sim' = sim
    BY <1>5 DEF StopFirst, BeginStop
  <2>3. TypeOK'
    <3>1. next' \in {"idle", "reset", "load", "destroyed"} /\ state_' \in {state_, "STOPPED"}
      BY <1>5 DEF StopFirst, BeginStop
    <3>2. uiRunning' = uiRunning /\ signals' = signals
      BY <1>5 DEF StopFirst, BeginStop
    <3> QED  BY <2>1, <2>2, <3>1, <3>2
  <2>4. (FlagMatchesThread /\ StopIsUnderWay /\ StepsWhenNotRunning)'
    BY <2>1, <2>2
  <2>5. ButtonsFollow'
    BY <1>5 DEF StopFirst, BeginStop
  <2> QED  BY <2>3, <2>4, <2>5
<1>6. CASE Reset
  BY <1>5, <1>6 DEF Reset
<1>7. CASE LoadFirmware
  BY <1>5, <1>7 DEF LoadFirmware
<1>8. CASE Shutdown
  BY <1>5, <1>8 DEF Shutdown
<1> QED  BY <1>1, <1>2, <1>3, <1>4, <1>6, <1>7, <1>8

(* What the Qt thread goes on to do.                                        *)
LEMMA GuiSteps ==
  ASSUME IInv, GuiContinues
  PROVE  IInv'
<1> USE DEF IInv, TypeOK, FlagMatchesThread, StopIsUnderWay, StepsWhenNotRunning,
            ButtonsFollow, IsRunning
<1>1. CASE Emit
  <2>1. uiRunning' = IsRunning /\ uiRunning' \in BOOLEAN
    BY <1>1, Zenon DEF Emit
  <2>2. TypeOK'
    BY <1>1, <2>1 DEF Emit, GoGui
  <2>3. (FlagMatchesThread /\ StopIsUnderWay)'
    BY <1>1 DEF Emit, GoGui
  <2>5. StepsWhenNotRunning'
    BY <1>1 DEF Emit, GoGui
  <2>4. ButtonsFollow'
    BY <1>1, <2>1, Zenon DEF Emit
  <2> QED  BY <2>2, <2>3, <2>4, <2>5
<1>2. CASE StartThread
  BY <1>2 DEF StartThread, GoGui
<1>3. CASE SignalThread
  BY <1>3 DEF SignalThread, GoGui
<1>4. CASE Join
  BY <1>4 DEF Join
<1>5. CASE SetPaused
  BY <1>5 DEF SetPaused, GoGui
<1>6. CASE SetStepping
  BY <1>6 DEF SetStepping, GoGui
<1>7. CASE SetStopped
  BY <1>7 DEF SetStopped, GoGui
<1>8. CASE FinishLoad
  BY <1>8 DEF FinishLoad, GoGui
<1>9. CASE UpdateUI
  <2>1. signals' \in 0 .. MaxSignals
    BY <1>9, EngineAssumption DEF UpdateUI
  <2> QED  BY <1>9, <2>1, Zenon DEF UpdateUI
<1> QED  BY <1>1, <1>2, <1>3, <1>4, <1>5, <1>6, <1>7, <1>8, <1>9, GuiContinues DEF GuiContinues

(* What the simulation thread does.                                         *)
LEMMA SimulationSteps ==
  ASSUME IInv, Simulation
  PROVE  IInv'
<1> USE DEF IInv, TypeOK, FlagMatchesThread, StopIsUnderWay, StepsWhenNotRunning,
            ButtonsFollow, IsRunning
<1>1. CASE LoopTest
  BY <1>1, ZenonT(30) DEF LoopTest, GoSim
<1>2. CASE Tick
  BY <1>2, ZenonT(30) DEF Tick, GoSim
<1>3. CASE SetError
  BY <1>3 DEF SetError, GoSim
<1>4. CASE EmitQueued
  <2>1. signals' \in 0 .. MaxSignals /\ signals' # 0
    <3>1. signals \in 0 .. MaxSignals
      OBVIOUS
    <3>2. signals' = IF signals < MaxSignals THEN signals + 1 ELSE signals
      BY <1>4 DEF EmitQueued
    <3> HIDE DEF IInv
    <3> QED  BY <3>1, <3>2, EngineAssumption
  <2> QED  BY <1>4, <2>1 DEF EmitQueued, GoSim
<1> QED  BY <1>1, <1>2, <1>3, <1>4 DEF Simulation

LEMMA NextIInv == IInv /\ [Next]_vars => IInv'
<1> SUFFICES ASSUME IInv, [Next]_vars PROVE IInv'
  OBVIOUS
<1>1. CASE UNCHANGED vars
  <2>1. TypeOK' /\ FlagMatchesThread' /\ StopIsUnderWay'
    BY <1>1, ZenonT(30) DEF vars, IInv, TypeOK, FlagMatchesThread, StopIsUnderWay
  <2>2. StepsWhenNotRunning' /\ ButtonsFollow'
    BY <1>1 DEF vars, IInv, StepsWhenNotRunning, ButtonsFollow, IsRunning
  <2> QED  BY <2>1, <2>2 DEF IInv
<1> QED  BY <1>1, UserSteps, GuiSteps, SimulationSteps DEF Next

LEMMA Inductive == Spec => []IInv
BY InitIInv, NextIInv, PTL DEF Spec

-----------------------------------------------------------------------------
(* Every variable keeps its type.                                           *)
THEOREM TypeCorrect == Spec => []TypeOK
<1>1. IInv => TypeOK
  BY DEF IInv
<1> QED  BY <1>1, Inductive, PTL

(* A thread that should run has not ended, and one that should not is       *)
(* joined: sim_thread_running_ is cleared by stop() alone, which joins.     *)
THEOREM TheFlagTellsOfTheThread == Spec => []FlagMatchesThread
<1>1. IInv => FlagMatchesThread
  BY DEF IInv
<1> QED  BY <1>1, Inductive, PTL

(* start() creates a thread only where no joinable one would be assigned    *)
(* over, which std::thread answers by ending the program.                   *)
THEOREM ThreadsAreJoinedFirst == Spec => []NoThreadIsReplaced
<1>1. IInv => NoThreadIsReplaced
  BY DEF IInv, TypeOK, FlagMatchesThread, StopIsUnderWay, NoThreadIsReplaced
<1> QED  BY <1>1, Inductive, PTL

(* The Start and Stop buttons show whether the engine runs, or a signal     *)
(* that corrects them is queued.                                            *)
THEOREM ButtonsAreCorrected == Spec => []ButtonsCatchUp
<1>1. IInv => ButtonsCatchUp
  BY DEF IInv, ButtonsFollow, ButtonsCatchUp
<1> QED  BY <1>1, Inductive, PTL

-----------------------------------------------------------------------------
(* FirmwareLoader, for any files and any regions that satisfy its assumption *)

LoaderType ==
  [file : Files \cup {"none"}, segments : Seq(Segment), sections : Seq(Section),
   symbols : Seq(Files)]

(* What is in the loader reads outside its file.                             *)
ReadsOutside ==
  \/ \E k \in DOMAIN loader.segments :
       Strays(loader.segments[k].offset, loader.segments[k].filesz, Elf[loader.file].size)
  \/ CopiesOutside(loader)

(* A refused file has either not been opened or left the loader empty, and   *)
(* an application that was killed holds the byte or the range that did it.   *)
LoaderInv ==
  /\ loader \in LoaderType
  /\ last.outcome = "refused" /\ WellFormed(last.file) => loader = EmptyLoader
  /\ last.retried /\ WellFormed(last.file) => last.outcome # "refused"
  /\ aborted => (\E w \in Writes(loader) : Throws(w[2])) \/ ReadsOutside

(* What lies in the file passes the test, and what passes it lies in the     *)
(* file or is one of the sums that wrap.                                     *)
LEMMA Tests ==
  ASSUME NEW m \in Word, NEW n \in Word, NEW size \in Nat
  PROVE  /\ LiesWithin(m, n, size) => Passes(m, n, size)
         /\ Passes(m, n, size) /\ m + n < WordSize => LiesWithin(m, n, size)
<1>1. WordSize \in Nat \ {0} /\ m + n \in Nat
  BY LoaderAssumption DEF Word
<1>2. (m + n) % WordSize <= m + n /\ (m + n < WordSize => (m + n) % WordSize = m + n)
  BY <1>1
<1>3. (m + n) % WordSize \in Nat
  BY <1>1
<1> QED  BY <1>1, <1>2, <1>3 DEF LiesWithin, Passes

(* The parts of a file have their types.                                     *)
LEMMA FileParts ==
  ASSUME NEW f \in Files
  PROVE  /\ Elf[f].segments \in Seq(Segment) /\ Elf[f].sections \in Seq(Section)
         /\ Elf[f].size \in Nat
         /\ \A i \in DOMAIN Elf[f].segments :
              Elf[f].segments[i].offset \in Word /\ Elf[f].segments[i].filesz \in Word
         /\ \A i \in DOMAIN Elf[f].sections :
              Elf[f].sections[i].offset \in Word /\ Elf[f].sections[i].size \in Word
<1>1. Elf[f].segments \in Seq(Segment) /\ Elf[f].sections \in Seq(Section) /\ Elf[f].size \in Nat
  BY LoaderAssumption DEF ElfFile
<1>2. /\ \A i \in DOMAIN Elf[f].segments : Elf[f].segments[i] \in Segment
      /\ \A i \in DOMAIN Elf[f].sections : Elf[f].sections[i] \in Section
  BY <1>1
<1> QED  BY <1>1, <1>2 DEF Segment, Section

(* What parsing leaves in the loader: the headers of the file, or where it   *)
(* has none the ones that were there.                                        *)
LEMMA ParsedFields ==
  ASSUME NEW l \in LoaderType, NEW f \in Files
  PROVE  /\ Parsed(l, f) \in LoaderType /\ Parsed(l, f).file = f
         /\ Parsed(l, f).segments =
              IF Elf[f].segments = <<>> THEN l.segments ELSE Elf[f].segments
         /\ Parsed(l, f).sections =
              IF Elf[f].sections = <<>> THEN l.sections ELSE Elf[f].sections
<1> DEFINE h == ParseHeaders(l, f)
<1>1. /\ h \in LoaderType /\ h.file = f
      /\ h.segments = IF Elf[f].segments = <<>> THEN l.segments ELSE Elf[f].segments
      /\ h.sections = IF Elf[f].sections = <<>> THEN l.sections ELSE Elf[f].sections
  BY FileParts DEF ParseHeaders, LoaderType
<1> HIDE DEF h
<1>2. Append(h.symbols, h.file) \in Seq(Files)
  BY <1>1 DEF LoaderType
<1>3. /\ ParseSymbols(h) \in LoaderType /\ ParseSymbols(h).file = h.file
      /\ ParseSymbols(h).segments = h.segments /\ ParseSymbols(h).sections = h.sections
  BY <1>1, <1>2 DEF ParseSymbols, LoaderType
<1> QED  BY <1>1, <1>3 DEF Parsed, h

LEMMA EmptyLoaderType == EmptyLoader \in LoaderType
BY DEF EmptyLoader, LoaderType

(* From an empty loader, what is parsed are the file's own headers, so a     *)
(* well-formed file is loaded.                                               *)
LEMMA EmptyAccepts ==
  ASSUME NEW f \in Files, WellFormed(f)
  PROVE  LoadFile(EmptyLoader, f).ok
<1> DEFINE p == Parsed(EmptyLoader, f)
<1>1. p.segments = Elf[f].segments /\ p.sections = Elf[f].sections /\ p.file = f
  BY EmptyLoaderType, ParsedFields DEF EmptyLoader
<1> HIDE DEF p
<1>2. ASSUME NEW i \in DOMAIN p.segments
      PROVE  Passes(p.segments[i].offset, p.segments[i].filesz, Elf[p.file].size)
  BY <1>1, <1>2, FileParts, Tests DEF WellFormed
<1>3. ASSUME NEW i \in DOMAIN p.sections
      PROVE  Passes(p.sections[i].offset, p.sections[i].size, Elf[p.file].size)
  BY <1>1, <1>3, FileParts, Tests DEF WellFormed
<1>4. Consistent(p)
  BY <1>2, <1>3 DEF Consistent, SectionsPass
<1> QED  BY <1>4 DEF LoadFile, WellFormed, p

(* A refused file is left outside the loader: it was not opened, or the      *)
(* loader is empty.                                                          *)
LEMMA RefusedLoader ==
  ASSUME NEW l, NEW f \in Files, ~LoadFile(l, f).ok, WellFormed(f)
  PROVE  LoadFile(l, f).loader = EmptyLoader
BY DEF LoadFile, WellFormed

(* An accepted file is well formed or has a sum that wraps: the headers kept *)
(* from an earlier file can only have made the tests stricter.               *)
LEMMA AcceptedIsWellFormed ==
  ASSUME NEW l \in LoaderType, NEW f \in Files, LoadFile(l, f).ok, ~SumsWrap(f)
  PROVE  WellFormed(f)
<1> DEFINE p == Parsed(l, f)
<1>1. /\ p.file = f
      /\ Elf[f].segments # <<>> => p.segments = Elf[f].segments
      /\ Elf[f].sections # <<>> => p.sections = Elf[f].sections
  BY ParsedFields
<1>2. Elf[f].opens /\ Elf[f].header /\ Consistent(p)
  BY DEF LoadFile
<1> HIDE DEF p
<1>3. ASSUME NEW i \in DOMAIN Elf[f].sections
      PROVE  LiesWithin(Elf[f].sections[i].offset, Elf[f].sections[i].size, Elf[f].size)
  <2> DEFINE x == Elf[f].sections[i]
  <2>1. p.sections = Elf[f].sections
    BY <1>1, <1>3
  <2>2. Passes(x.offset, x.size, Elf[f].size)
    BY <1>1, <1>2, <1>3, <2>1 DEF Consistent, SectionsPass
  <2>3. x.offset \in Word /\ x.size \in Word /\ Elf[f].size \in Nat
    BY <1>3, FileParts
  <2>4. x.offset + x.size < WordSize
    <3>1. ~(x.offset + x.size >= WordSize)
      BY <1>3 DEF SumsWrap
    <3> QED  BY <2>3, <3>1, LoaderAssumption DEF Word
  <2> QED  BY <2>2, <2>3, <2>4, Tests
<1>4. ASSUME NEW i \in DOMAIN Elf[f].segments
      PROVE  LiesWithin(Elf[f].segments[i].offset, Elf[f].segments[i].filesz, Elf[f].size)
  <2> DEFINE x == Elf[f].segments[i]
  <2>1. p.segments = Elf[f].segments
    BY <1>1, <1>4
  <2>2. Passes(x.offset, x.filesz, Elf[f].size)
    BY <1>1, <1>2, <1>4, <2>1 DEF Consistent
  <2>3. x.offset \in Word /\ x.filesz \in Word /\ Elf[f].size \in Nat
    BY <1>4, FileParts
  <2>4. x.offset + x.filesz < WordSize
    <3>1. ~(x.offset + x.filesz >= WordSize)
      BY <1>4 DEF SumsWrap
    <3> QED  BY <2>3, <3>1, LoaderAssumption DEF Word
  <2> QED  BY <2>2, <2>3, <2>4, Tests
<1> QED  BY <1>2, <1>3, <1>4 DEF WellFormed

(* The loader keeps its type through every load.                             *)
LEMMA LoadFileType ==
  ASSUME NEW l \in LoaderType, NEW f \in Files
  PROVE  LoadFile(l, f).loader \in LoaderType
<1>1. LoadFile(l, f).loader \in {l, Parsed(l, f), EmptyLoader}
  BY DEF LoadFile
<1> QED  BY <1>1, ParsedFields, EmptyLoaderType

(* The ways a load can go on, and what each leaves in the loader.            *)
LEMMA LoadEnds ==
  ASSUME NEW f \in Files, LoadFirmwareFile(f)
  PROVE  LET result == LoadFile(loader, f)
         IN \/ ~result.ok /\ Refuse(f, result.loader)
            \/ /\ result.ok /\ Complete(f, result.loader)
            \/ /\ result.ok
               /\ (\E w \in Writes(result.loader) : Throws(w[2])) \/
                    (\E k \in DOMAIN result.loader.segments :
                       Strays(result.loader.segments[k].offset,
                              result.loader.segments[k].filesz, Elf[f].size))
               /\ \E written : Abort(f, result.loader, written)
            \/ CopiesOutside(Parsed(loader, f)) /\ Abort(f, Parsed(loader, f), {})
BY DEF LoadFirmwareFile

(* find_region() finds every address of a RAM or MMIO region there.          *)
LEMMA WritableIsFound ==
  ASSUME NEW r \in Regions, r.type \in {"RAM", "MMIO"},
         NEW a \in r.base .. r.base + r.size - 1
  PROVE  r \in FindRegion(a) /\ ~Throws(a)
<1>1. r.base \in Nat /\ r.size \in Nat /\ \A s \in Regions : s.base \in Nat
  BY LoaderAssumption
<1>2. ASSUME NEW s \in Regions, s.base <= a PROVE s.base <= r.base
  <2>1. CASE s.base <= r.base
    BY <2>1
  <2>2. CASE s.base > r.base
    <3>1. s.base \in r.base .. r.base + r.size - 1
      BY <1>1, <1>2, <2>2
    <3> QED  BY <1>1, <2>2, <3>1, LoaderAssumption
  <2> QED  BY <1>1, <2>1, <2>2
<1>3. r \in FindRegion(a)
  BY <1>1, <1>2 DEF FindRegion
<1>4. ~Throws(a)
  BY <1>3 DEF Throws
<1> QED  BY <1>3, <1>4

(* LoaderInv holds at the start and after every load. *)
LEMMA LoaderInvariance == LoaderSpec => []LoaderInv
<1>1. InitLoader => LoaderInv
  BY DEF InitLoader, LoaderInv, LoaderType, EmptyLoader
<1>2. ASSUME LoaderInv, [LoaderNext]_loaderVars PROVE LoaderInv'
  <2>1. CASE UNCHANGED loaderVars
    BY <1>2, <2>1 DEF LoaderInv, loaderVars, WellFormed, Writes, Throws, ReadsOutside, CopiesOutside
  <2>2. CASE Restart
    BY <2>2 DEF Restart, LoaderInv, LoaderType, EmptyLoader
  <2>3. ASSUME NEW f \in Files, LoadFirmwareFile(f) PROVE LoaderInv'
    <3> DEFINE result == LoadFile(loader, f)
    <3>0. ~aborted
      BY <2>3 DEF LoadFirmwareFile
    <3>1. result.loader \in LoaderType /\ loader \in LoaderType
      BY <1>2, LoadFileType DEF LoaderInv
    <3>2. CASE ~result.ok /\ Refuse(f, result.loader)
      <4>1. ~aborted'
        BY <3>0, <3>2 DEF Refuse
      <4>2. loader' = result.loader /\ last'.file = f /\ last'.outcome = "refused"
        BY <3>2 DEF Refuse, Remember
      <4>3. WellFormed(f) => loader' = EmptyLoader
        BY <3>2, <4>2, RefusedLoader
      <4>4. ~(last'.retried /\ WellFormed(f))
        <5> SUFFICES ASSUME last'.retried, WellFormed(f) PROVE FALSE
          OBVIOUS
        <5>1. last.file = f /\ last.outcome = "refused"
          BY <3>2 DEF Refuse, Remember
        <5>2. loader = EmptyLoader
          BY <1>2, <5>1 DEF LoaderInv
        <5> QED  BY <3>2, <5>2, EmptyAccepts
      <4> QED  BY <3>1, <4>1, <4>2, <4>3, <4>4 DEF LoaderInv, WellFormed
    <3>3. CASE result.ok /\ Complete(f, result.loader)
      <4>1. ~aborted' /\ loader' = result.loader /\ last'.outcome = "loaded"
        BY <3>0, <3>3 DEF Complete, Remember
      <4> QED  BY <3>1, <4>1 DEF LoaderInv
    <3>4. ASSUME result.ok, NEW written, Abort(f, result.loader, written),
                 \/ \E w \in Writes(result.loader) : Throws(w[2])
                 \/ \E k \in DOMAIN result.loader.segments :
                      Strays(result.loader.segments[k].offset,
                             result.loader.segments[k].filesz, Elf[f].size)
          PROVE  LoaderInv'
      <4>1. loader' = result.loader /\ last'.outcome = "aborted"
        BY <3>4 DEF Abort, Remember
      <4>2. result.loader.file = f
        BY <3>1, <3>4, ParsedFields DEF LoadFile
      <4>3. (\E w \in Writes(loader') : Throws(w[2])) \/ ReadsOutside'
        BY <3>4, <4>1, <4>2 DEF ReadsOutside
      <4> QED  BY <3>1, <4>1, <4>3 DEF LoaderInv, Writes, Throws
    <3>5. CASE CopiesOutside(Parsed(loader, f)) /\ Abort(f, Parsed(loader, f), {})
      <4>1. loader' = Parsed(loader, f) /\ last'.outcome = "aborted"
        BY <3>5 DEF Abort, Remember
      <4>2. ReadsOutside'
        BY <3>5, <4>1 DEF ReadsOutside, CopiesOutside
      <4> QED  BY <3>1, <4>1, <4>2, ParsedFields DEF LoaderInv
    <3> HIDE DEF result
    <3>6. QED  BY <2>3, LoadEnds, <3>2, <3>3, <3>4, <3>5 DEF result
  <2> QED  BY <1>2, <2>1, <2>2, <2>3 DEF LoaderNext
<1> QED  BY <1>1, <1>2, PTL DEF LoaderSpec

(* A well-formed file that was refused is accepted the second time, for any  *)
(* sequence of loads before.                                                 *)
THEOREM Retry == LoaderSpec => []RetryWorks
<1>1. LoaderInv => RetryWorks
  BY DEF LoaderInv, RetryWorks
<1> QED  BY <1>1, LoaderInvariance, PTL

(* Only a byte outside every RAM and MMIO region, or a read outside the      *)
(* file, kills the application.                                              *)
THEOREM Aborting == LoaderSpec => []OnlyUnwritableAborts
<1>1. LoaderInv => OnlyUnwritableAborts
  <2> SUFFICES ASSUME LoaderInv, aborted, ~ReadsOutside PROVE OnlyUnwritableAborts
    BY DEF OnlyUnwritableAborts, ReadsOutside
  <2>1. PICK w \in Writes(loader) : Throws(w[2])
    BY DEF LoaderInv
  <2>2. ASSUME NEW r \in Regions,
               w[2] \in r.base .. r.base + r.size - 1
        PROVE  r.type \in {"ROM", "FLASH"}
    <3>1. r.type \notin {"RAM", "MMIO"}
      BY <2>1, <2>2, WritableIsFound
    <3> QED  BY <3>1, LoaderAssumption
  <2> QED  BY <2>1, <2>2 DEF OnlyUnwritableAborts
<1> QED  BY <1>1, LoaderInvariance, PTL

(* Memory is a function of the addresses, so that an application killed      *)
(* before it has written anything leaves it as it is.                        *)
MemoryIsMapped == memory = [a \in Addresses |-> memory[a]]

LEMMA MemoryInvariance == LoaderSpec => []MemoryIsMapped
<1>1. InitLoader => MemoryIsMapped
  BY DEF InitLoader, MemoryIsMapped
<1>2. ASSUME MemoryIsMapped, [LoaderNext]_loaderVars PROVE MemoryIsMapped'
  BY <1>2 DEF LoaderNext, Restart, LoadFirmwareFile, Refuse, Complete, Abort, MemoryAfter,
              loaderVars, MemoryIsMapped
<1> QED  BY <1>1, <1>2, PTL DEF LoaderSpec

(* What is refused, or is not well formed without a sum that wraps, changes  *)
(* neither the memory nor the program counter.                               *)
THEOREM Refusal == LoaderSpec => RefusedChangesNothing
<1>1. ASSUME LoaderInv, MemoryIsMapped, [LoaderNext]_loaderVars,
             last'.file # "none",
             last'.outcome = "refused" \/ (~WellFormed(last'.file) /\ ~SumsWrap(last'.file)),
             ~UNCHANGED loaderVars
      PROVE  UNCHANGED <<memory, pc>>
  <2>1. ~Restart
    BY <1>1 DEF Restart
  <2>2. PICK f \in Files : LoadFirmwareFile(f)
    BY <1>1, <2>1 DEF LoaderNext
  <2> DEFINE result == LoadFile(loader, f)
  <2>3. CASE Refuse(f, result.loader)
    BY <2>3 DEF Refuse
  <2>4. ASSUME result.ok,
               Complete(f, result.loader) \/ \E written : Abort(f, result.loader, written)
        PROVE  FALSE
    <3>1. last'.file = f /\ last'.outcome # "refused"
      BY <2>4 DEF Complete, Abort, Remember
    <3> QED  BY <1>1, <2>4, <3>1, AcceptedIsWellFormed DEF LoaderInv
  <2>5. CASE Abort(f, Parsed(loader, f), {})
    <3>1. memory' = MemoryAfter(Parsed(loader, f), {}) /\ pc' = pc
      BY <2>5 DEF Abort
    <3>2. MemoryAfter(Parsed(loader, f), {}) = [a \in Addresses |-> memory[a]]
      BY DEF MemoryAfter
    <3> QED  BY <1>1, <3>1, <3>2 DEF MemoryIsMapped
  <2> HIDE DEF result
  <2> QED  BY <2>2, LoadEnds, <2>3, <2>4, <2>5 DEF result
<1>2. ASSUME LoaderInv, MemoryIsMapped, [LoaderNext]_loaderVars
      PROVE  [/\ last'.file # "none"
              /\ \/ last'.outcome = "refused"
                 \/ ~WellFormed(last'.file) /\ ~SumsWrap(last'.file)
              => UNCHANGED <<memory, pc>>]_loaderVars
  BY <1>1, <1>2
<1> QED  BY <1>2, LoaderInvariance, MemoryInvariance, PTL DEF LoaderSpec, RefusedChangesNothing

(* An accepted file's own program headers are in the loader if it has any.   *)
LEMMA AcceptedLoader ==
  ASSUME NEW l \in LoaderType, NEW f \in Files, LoadFile(l, f).ok
  PROVE  /\ LoadFile(l, f).loader = Parsed(l, f) /\ Parsed(l, f).file = f
         /\ Elf[f].segments # <<>> => Parsed(l, f).segments = Elf[f].segments
BY ParsedFields DEF LoadFile

LEMMA LargerOfTwo ==
  ASSUME NEW m \in Nat, NEW n \in Nat
  PROVE  Max({m, n}) \in Nat /\ m <= Max({m, n}) /\ n <= Max({m, n})
<1>1. \E x \in {m, n} : \A y \in {m, n} : x >= y
  <2>1. CASE m <= n
    BY <2>1
  <2>2. CASE n <= m
    BY <2>2
  <2> QED  BY <2>1, <2>2
<1>2. Max({m, n}) \in {m, n} /\ \A y \in {m, n} : Max({m, n}) >= y
  BY <1>1 DEF Max
<1> QED  BY <1>2

(* A byte of a segment that no later segment covers is in memory once all    *)
(* segments are written, if its address lies in RAM.                         *)
LEMMA SegmentIsWritten ==
  ASSUME NEW l \in LoaderType, NEW i \in DOMAIN l.segments,
         NEW a \in l.segments[i].vaddr .. l.segments[i].vaddr + l.segments[i].memsz - 1,
         \A j \in DOMAIN l.segments : j > i => a \notin Span(l.segments[j]),
         NEW r \in Regions, r.type = "RAM", a \in r.base .. r.base + r.size - 1
  PROVE  MemoryAfter(l, Writes(l))[a] = Byte(l.segments[i], l.file, a)
<1> DEFINE writers == {k \in DOMAIN l.segments : <<k, a>> \in Writes(l)}
           s == l.segments[i]
<1>1. l.segments \in Seq(Segment) /\ DOMAIN l.segments \in SUBSET Nat /\ s \in Segment
  BY DEF LoaderType
<1>2. a \in Addresses /\ Stores(a)
  BY WritableIsFound DEF Addresses, Stores
<1>3. a \in Span(s)
  <2>1. s.filesz \in Nat /\ s.memsz \in Nat /\ s.vaddr \in Nat
    BY <1>1 DEF Segment, Word
  <2>2. s.memsz <= Max({s.filesz, s.memsz}) /\ Max({s.filesz, s.memsz}) \in Nat
    BY <2>1, LargerOfTwo
  <2> HIDE DEF s
  <2>3. a \in s.vaddr .. s.vaddr + s.memsz - 1
    BY DEF s
  <2> QED  BY <2>1, <2>2, <2>3 DEF Span
<1>4. \A k \in DOMAIN l.segments : k \in writers <=> a \in Span(l.segments[k])
  BY DEF Writes
<1>5. i \in writers /\ \A k \in writers : k \in Nat /\ i >= k
  BY <1>1, <1>3, <1>4
<1> HIDE DEF writers
<1>6. Max(writers) = i
  <2>1. \E x \in writers : \A y \in writers : x >= y
    BY <1>5
  <2>2. Max(writers) \in writers /\ \A y \in writers : Max(writers) >= y
    BY <2>1 DEF Max
  <2> QED  BY <1>5, <2>2
<1> QED  BY <1>2, <1>5, <1>6 DEF MemoryAfter, writers

(* The bytes that a segment of a well-formed file loads are the file's.      *)
LEMMA OwnByte ==
  ASSUME NEW f \in Files, WellFormed(f), NEW i \in DOMAIN Elf[f].segments,
         NEW a \in Elf[f].segments[i].vaddr ..
                     Elf[f].segments[i].vaddr + Elf[f].segments[i].memsz - 1
  PROVE  Byte(Elf[f].segments[i], f, a) =
           <<f, IF a < Elf[f].segments[i].vaddr + Elf[f].segments[i].filesz
                THEN "data" ELSE "zero">>
<1> DEFINE s == Elf[f].segments[i]
<1>0. s \in Segment
  <2>1. Elf[f].segments \in Seq(Segment)
    BY FileParts
  <2> QED  BY <2>1
<1>1. s.vaddr \in Nat /\ s.offset \in Nat /\ s.filesz \in Nat /\ Elf[f].size \in Nat
  BY <1>0, FileParts DEF Segment, Word
<1>2. s.offset + s.filesz <= Elf[f].size
  BY DEF WellFormed, LiesWithin
<1>3. a \in Int
  BY <1>1
<1> HIDE DEF s
<1>4. a < s.vaddr + s.filesz => s.offset + (a - s.vaddr) < Elf[f].size
  BY <1>1, <1>2, <1>3
<1>5. a >= s.vaddr + s.filesz <=> ~(a < s.vaddr + s.filesz)
  BY <1>1, <1>3
<1>6. Byte(s, f, a) = <<f, IF a < s.vaddr + s.filesz THEN "data" ELSE "zero">>
  BY <1>4, <1>5 DEF Byte
<1> QED  BY <1>6 DEF s

(* The firmware that the engine reports as loaded is in memory, whatever     *)
(* was loaded, refused or left in the loader before.                         *)
THEOREM LoadedFirmware == LoaderSpec => []LoadedIsInMemory
<1>1. InitLoader => LoadedIsInMemory
  BY DEF InitLoader, LoadedIsInMemory
<1>2. ASSUME LoaderInv, LoadedIsInMemory, [LoaderNext]_loaderVars
      PROVE  LoadedIsInMemory'
  <2>1. CASE UNCHANGED loaderVars
    BY <1>2, <2>1 DEF LoadedIsInMemory, loaderVars
  <2>2. CASE Restart
    BY <2>2 DEF Restart, LoadedIsInMemory
  <2>3. ASSUME NEW f \in Files, LoadFirmwareFile(f) PROVE LoadedIsInMemory'
    <3> DEFINE l == LoadFile(loader, f).loader
    <3>1. CASE Refuse(f, l)
      BY <3>1 DEF Refuse, LoadedIsInMemory
    <3>2. ASSUME NEW k, NEW w, Abort(f, k, w) PROVE LoadedIsInMemory'
      BY <3>2 DEF Abort, LoadedIsInMemory
    <3>3. CASE LoadFile(loader, f).ok /\ Complete(f, l)
      <4>1. l \in LoaderType
        BY <1>2, LoadFileType DEF LoaderInv
      <4>2. l.file = f /\ (Elf[f].segments # <<>> => l.segments = Elf[f].segments)
        BY <1>2, <3>3, AcceptedLoader DEF LoaderInv
      <4>3. firmware_info_'.filename = f /\ pc' = f /\ memory' = MemoryAfter(l, Writes(l))
        BY <3>3, <4>2 DEF Complete
      <4> HIDE DEF l
      <4>4. ASSUME WellFormed(f), NEW i \in DOMAIN Elf[f].segments,
                   NEW a \in Elf[f].segments[i].vaddr ..
                               Elf[f].segments[i].vaddr + Elf[f].segments[i].memsz - 1,
                   NEW r \in Regions, r.type = "RAM", a \in r.base .. r.base + r.size - 1,
                   \A j \in DOMAIN Elf[f].segments : j > i => a \notin Span(Elf[f].segments[j])
            PROVE  memory'[a] = <<f, IF a < Elf[f].segments[i].vaddr + Elf[f].segments[i].filesz
                                     THEN "data" ELSE "zero">>
        <5>1. l.segments = Elf[f].segments
          BY <4>2, <4>4
        <5>2. MemoryAfter(l, Writes(l))[a] = Byte(l.segments[i], l.file, a)
          BY <4>1, <4>4, <5>1, SegmentIsWritten
        <5>3. Byte(Elf[f].segments[i], f, a) =
                <<f, IF a < Elf[f].segments[i].vaddr + Elf[f].segments[i].filesz
                     THEN "data" ELSE "zero">>
          BY <4>4, OwnByte
        <5> QED  BY <4>2, <4>3, <5>1, <5>2, <5>3
      <4> QED  BY <4>3, <4>4 DEF LoadedIsInMemory
    <3> QED  BY <2>3, LoadEnds, <3>1, <3>2, <3>3
  <2> QED  BY <1>2, <2>1, <2>2, <2>3 DEF LoaderNext
<1> QED  BY <1>1, <1>2, LoaderInvariance, PTL DEF LoaderSpec

-----------------------------------------------------------------------------
(* UartController *)

(* The byte whose frame is sent is at the front of the transmit FIFO, which  *)
(* holds nothing while nothing is sent.                                      *)
TransmitterInv ==
  /\ tx_fifo \in Seq(Bytes)
  /\ tx_active \in BOOLEAN
  /\ FrontIsOnTheLine

LEMMA StartFrameKeeps ==
  ASSUME NEW fifo \in Seq(Bytes), fifo # <<>>, StartFrame(fifo)
  PROVE  TransmitterInv'
BY DEF StartFrame, TransmitterInv, FrontIsOnTheLine

LEMMA IdleKeeps ==
  ASSUME tx_fifo = <<>>, tx_active = FALSE
  PROVE  TransmitterInv
<1>1. tx_fifo \in Seq(Bytes)
  OBVIOUS
<1>2. ~tx_active /\ tx_active \in BOOLEAN
  OBVIOUS
<1> QED  BY <1>1, <1>2, Zenon DEF TransmitterInv, FrontIsOnTheLine

LEMMA TransmitKeeps ==
  ASSUME TransmitterInv, tx_active, NEW time, Transmit(time)
  PROVE  TransmitterInv'
<1>1. tx_fifo \in Seq(Bytes) /\ tx_fifo # <<>> /\ Tail(tx_fifo) \in Seq(Bytes)
  BY DEF TransmitterInv, FrontIsOnTheLine
<1>2. \/ UNCHANGED <<tx_fifo, tx_active, tx_current_byte>>
      \/ Tail(tx_fifo) # <<>> /\ StartFrame(Tail(tx_fifo))
      \/ tx_fifo' = <<>> /\ tx_active' = FALSE
  BY Zenon DEF Transmit
<1>3. CASE UNCHANGED <<tx_fifo, tx_active, tx_current_byte>>
  BY <1>3 DEF TransmitterInv, FrontIsOnTheLine
<1>4. CASE Tail(tx_fifo) # <<>> /\ StartFrame(Tail(tx_fifo))
  BY <1>1, <1>4, StartFrameKeeps
<1>5. CASE tx_fifo' = <<>> /\ tx_active' = FALSE
  <2>1. tx_fifo' \in Seq(Bytes)
    BY <1>5
  <2>2. ~tx_active' /\ tx_active' \in BOOLEAN
    BY <1>5
  <2> QED  BY <1>5, <2>1, <2>2, Zenon DEF TransmitterInv, FrontIsOnTheLine
<1> QED  BY <1>2, <1>3, <1>4, <1>5

LEMMA TransmitterInvariance == UartSpec => []TransmitterInv
<1>1. UartInit => TransmitterInv
  BY IdleKeeps DEF UartInit
<1>2. TransmitterInv /\ [UartNext]_uartVars => TransmitterInv'
  <2> SUFFICES ASSUME TransmitterInv, [UartNext]_uartVars PROVE TransmitterInv'
    OBVIOUS
  <2>1. ASSUME NEW byte \in Bytes, WriteByte(byte) PROVE TransmitterInv'
    <3>1. tx_fifo \in Seq(Bytes) /\ Append(tx_fifo, byte) \in Seq(Bytes)
          /\ Append(tx_fifo, byte) # <<>>
      BY DEF TransmitterInv
    <3>2. CASE tx_active
      <4>1. /\ tx_fifo' = Append(tx_fifo, byte)
            /\ UNCHANGED <<tx_active, tx_current_byte>>
        BY <2>1, <3>2, Zenon DEF WriteByte
      <4> QED  BY <3>1, <3>2, <4>1 DEF TransmitterInv, FrontIsOnTheLine
    <3>3. CASE ~tx_active
      <4>1. StartFrame(Append(tx_fifo, byte))
        BY <2>1, <3>3 DEF WriteByte
      <4> QED  BY <3>1, <4>1, StartFrameKeeps
    <3> QED  BY <3>2, <3>3
  <2>2. ASSUME NEW elapsed \in Elapsed, TickUart(elapsed) PROVE TransmitterInv'
    <3>1. CASE tx_active
      <4>1. \E time : Transmit(time)
        BY <2>2, <3>1, Zenon DEF TickUart
      <4> QED  BY <3>1, <4>1, TransmitKeeps
    <3>2. CASE ~tx_active
      <4>1. UNCHANGED tx
        BY <2>2, <3>2, Zenon DEF TickUart
      <4> QED  BY <4>1 DEF tx, TransmitterInv, FrontIsOnTheLine
    <3> QED  BY <3>1, <3>2
  <2>3. ASSUME UNCHANGED tx PROVE TransmitterInv'
    BY <2>3 DEF tx, TransmitterInv, FrontIsOnTheLine
  <2>4. CASE ResetUart
    <3>1. tx_fifo' = <<>> /\ tx_active' = FALSE
      BY <2>4 DEF ResetUart
    <3>2. tx_fifo' \in Seq(Bytes)
      BY <3>1
    <3>3. ~tx_active' /\ tx_active' \in BOOLEAN
      BY <3>1
    <3> QED  BY <3>1, <3>2, <3>3, Zenon DEF TransmitterInv, FrontIsOnTheLine
  <2> QED  BY <2>1, <2>2, <2>3, <2>4 DEF UartNext, ReceiveBit, ReadByte, Configure, uartVars
<1> QED  BY <1>1, <1>2, PTL DEF UartSpec

(* processTX pops the byte whose frame it has sent, whatever was written or  *)
(* reset while the frame was on the line.                                    *)
THEOREM TheFrontIsSent == UartSpec => []FrontIsOnTheLine
<1>1. TransmitterInv => FrontIsOnTheLine
  BY DEF TransmitterInv
<1> QED  BY <1>1, TransmitterInvariance, PTL

(* Every way in which processRX ends a frame also forgets its start bit.     *)
LEMMA ReceiverRemembers ==
  ASSUME Receive, rx_start_bit_detected', ~rx_active'
  PROVE  rx_start_bit_detected /\ ~rx_active
<1>1. ASSUME NEW index, NEW byte, NEW counted, ReceiveIn(index, byte, counted)
      PROVE  FALSE
  BY <1>1 DEF ReceiveIn, CountBitTime, AbandonFrame, FinishReceiving, Sample
<1>2. UNCHANGED rx
  BY <1>1 DEF Receive
<1> QED  BY <1>1, <1>2 DEF Receive, rx

(* A receiver that listens for a start bit goes on doing so until reset().   *)
THEOREM OnlyAResetDeafens == UartSpec => OnlyResetDeafens
<1>1. [UartNext]_uartVars =>
        [rx_start_bit_detected' /\ ~rx_active' =>
           ResetUart \/ (rx_start_bit_detected /\ ~rx_active)]_uartVars
  <2> SUFFICES ASSUME UartNext, rx_start_bit_detected', ~rx_active', ~ResetUart
               PROVE  rx_start_bit_detected /\ ~rx_active
    OBVIOUS
  <2>1. ASSUME NEW elapsed \in Elapsed, TickUart(elapsed)
        PROVE  rx_start_bit_detected /\ ~rx_active
    <3>1. Receive
      BY <2>1, Zenon DEF TickUart
    <3> QED  BY <3>1, ReceiverRemembers
  <2>2. ASSUME UNCHANGED <<rx_start_bit_detected, rx_active>>
        PROVE  rx_start_bit_detected /\ ~rx_active
    BY <2>2
  <2> QED  BY <2>1, <2>2 DEF UartNext, WriteByte, ReceiveBit, ReadByte, Configure, rx
<1> QED  BY <1>1, PTL DEF UartSpec, OnlyResetDeafens

(* The looped wire.  Position is where the receiver is when the transmitter  *)
(* is at tx_bit_index: the parity bit that is not sent has an index for the   *)
(* transmitter only.                                                          *)
Position ==
  IF config.parity = "NONE" /\ tx_bit_index > config.data_bits
  THEN tx_bit_index - 1 ELSE tx_bit_index

FrameAwaited ==
  /\ ~rx_active
  /\ tx_bit_index = -1
  /\ bit_ticks = 0
  /\ in_flight = tx_fifo

FrameReceived ==
  /\ ~rx_active
  /\ Position > config.data_bits + 1
  /\ in_flight = Tail(tx_fifo)

FrameInStep ==
  /\ rx_active
  /\ in_flight = tx_fifo
  /\ rx_bit_index = Position
  /\ Position <= config.data_bits + 1
  /\ current_bit_time = 2 * bit_ticks
  /\ rx_current_byte = OnWire(tx_current_byte) \cap 0 .. rx_bit_index - 1

LineIsIdle ==
  /\ ~tx_active
  /\ ~rx_active
  /\ tx_pin_level
  /\ in_flight = <<>>

FrameIsSent ==
  /\ tx_active
  /\ bit_ticks = 0 \/ 2 * bit_ticks = config.bit_time
  /\ tx_bit_index \in Int
  /\ tx_bit_index >= -1
  /\ config.parity = "NONE" => tx_bit_index # config.data_bits
  /\ tx_pin_level = LevelAt(tx_bit_index)
  /\ FrameAwaited \/ FrameInStep \/ FrameReceived

(* While the wire keeps its timing the receiver waits for the frame that has  *)
(* just started, is at the transmitter's bit with the bits it has seen, or    *)
(* has the whole frame; the bytes in flight are those of the transmit FIFO,   *)
(* without the first once it is received.                                     *)
InStep ==
  /\ errors \subseteq {"overrun"}
  /\ rx_fifo \in Seq(SUBSET (0 .. 7))
  /\ rx_active \in BOOLEAN
  /\ rx_start_bit_detected = rx_active
  /\ bit_ticks \in Nat
  /\ tx_pin_level \in BOOLEAN
  /\ LineIsIdle \/ FrameIsSent

LinkInv ==
  bench = "loop" => config \in LinkConfigs /\ (~skewed => InStep)

LEMMA WholeDivision ==
  /\ \A time \in Nat \ {0} : time \div time = 1
  /\ \A time \in Nat, part \in Nat : part < time => part \div time = 0
<1>1. ASSUME NEW time \in Nat \ {0} PROVE time \div time = 1
  OBVIOUS
<1>2. ASSUME NEW time \in Nat, NEW part \in Nat, part < time
      PROVE  part \div time = 0
  BY <1>2, Z3
<1> QED  BY <1>1, <1>2

LEMMA Least == 
  /\ Min({1}) = 1
  /\ \A a, b \in Nat : a <= b => Min({a, b}) = a
  /\ \A a, b \in Nat : Min({a, b}) \in Nat
<1>1. Min({1}) = 1
  BY DEF Min
<1>2. ASSUME NEW a \in Nat, NEW b \in Nat, a <= b PROVE Min({a, b}) = a
  BY <1>2 DEF Min
<1>3. ASSUME NEW a \in Nat, NEW b \in Nat PROVE Min({a, b}) \in Nat
  BY DEF Min
<1> QED  BY <1>1, <1>2, <1>3

(* What is assumed of a looped wire that keeps its timing, and of a tick on it. *)
LEMMA LinkFacts ==
  ASSUME LinkConfigsWork, config \in LinkConfigs
  PROVE  /\ config.bit_time \in Nat \ {0}
         /\ config.bit_time <= MaxBacklog
         /\ MaxBacklog \in Nat
         /\ config.data_bits \in 1 .. 8
         /\ config.stop_bits \in 1 .. 3
         /\ config.parity = "NONE" => config.stop_bits = 3
         /\ Bytes \subseteq SUBSET (0 .. 7)
<1>1. config \in ConfigSet
  BY UartAssumption
<1> QED  BY <1>1, UartAssumption DEF LinkConfigsWork, ConfigSet

(* Half a bit time that was left over and half a bit time that elapses.      *)
LEMMA TimeOfATick ==
  ASSUME LinkConfigsWork, config \in LinkConfigs, NEW elapsed \in Nat,
         2 * elapsed = config.bit_time, bit_ticks \in Nat,
         bit_ticks = 0 \/ 2 * bit_ticks = config.bit_time
  PROVE  Min({bit_ticks + elapsed, MaxBacklog}) = bit_ticks + elapsed
<1>1. bit_ticks + elapsed \in Nat /\ bit_ticks + elapsed <= MaxBacklog
  BY LinkFacts
<1> QED  BY <1>1, LinkFacts, Least

(* A transmitter that has half a bit time waits. *)
LEMMA TransmitWaits ==
  ASSUME LinkConfigsWork, config \in LinkConfigs, tx_bit_index \in Int,
         NEW time \in Nat, 2 * time = config.bit_time, Transmit(time)
  PROVE  /\ UNCHANGED tx
         /\ bit_ticks' = time
<1>1. time \div config.bit_time = 0 /\ config.bit_time # 0
  BY LinkFacts, WholeDivision
<1>2. {bits \in 1 .. 0 : FrameIsComplete(IndexAfter(bits))} = {}
  OBVIOUS
<1>3. time - 0 * config.bit_time = time
  BY LinkFacts
<1>4. IndexAfter(0) = tx_bit_index
  BY LinkFacts DEF IndexAfter
<1> QED  BY <1>1, <1>2, <1>3, <1>4 DEF Transmit, tx

(* A transmitter that has a whole bit time goes on to the next bit. *)
NextBit(index) ==
  /\ ~FrameIsComplete(index)
  /\ bit_ticks' = 0
  /\ tx_bit_index' = index
  /\ tx_pin_level' = LevelAt(index)
  /\ UNCHANGED <<tx_fifo, tx_active, tx_current_byte>>

EndOfFrame(index) ==
  /\ FrameIsComplete(index)
  /\ bit_ticks' = 0
  /\ \/ Tail(tx_fifo) # <<>> /\ StartFrame(Tail(tx_fifo))
     \/ /\ Tail(tx_fifo) = <<>>
        /\ tx_fifo' = <<>>
        /\ tx_active' = FALSE
        /\ tx_pin_level' = tx_pin_level

LEMMA TransmitMoves ==
  ASSUME LinkConfigsWork, config \in LinkConfigs, tx_bit_index \in Int,
         Transmit(config.bit_time)
  PROVE  NextBit(IndexAfter(1)) \/ EndOfFrame(IndexAfter(1))
<1> DEFINE ends(due) == {bits \in 1 .. due : FrameIsComplete(IndexAfter(bits))}
<1>1. config.bit_time \div config.bit_time = 1 /\ config.bit_time # 0
  BY LinkFacts, WholeDivision
<1>2. config.bit_time - 1 * config.bit_time = 0
  BY LinkFacts
<1>3. CASE FrameIsComplete(IndexAfter(1))
  <2>1. ends(1) = {1}
    BY <1>3
  <2>2. Min(ends(1)) = 1 /\ ends(1) # {}
    BY <2>1, Least
  <2> QED  BY <1>1, <1>2, <1>3, <2>2 DEF Transmit, EndOfFrame
<1>4. CASE ~FrameIsComplete(IndexAfter(1))
  <2>1. ends(1) = {}
    BY <1>4
  <2> QED  BY <1>1, <1>2, <1>4, <2>1 DEF Transmit, NextBit
<1> QED  BY <1>3, <1>4

(* The index that follows is the one after the receiver's, and a frame that   *)
(* is complete for the transmitter has shown the receiver its stop bit.       *)
LEMMA NextPosition ==
  ASSUME LinkConfigsWork, config \in LinkConfigs,
         tx_bit_index \in Int, tx_bit_index >= -1,
         config.parity = "NONE" => tx_bit_index # config.data_bits,
         NEW index, index = IndexAfter(1)
  PROVE  /\ index \in Int
         /\ index >= 0
         /\ config.parity = "NONE" => index # config.data_bits
         /\ Position + 1 = IF config.parity = "NONE" /\ index > config.data_bits
                           THEN index - 1 ELSE index
         /\ FrameIsComplete(index) => Position >= config.data_bits + 1
<1>1. config.data_bits \in 1 .. 8 /\ config.stop_bits \in 1 .. 3
      /\ (config.parity = "NONE" => config.stop_bits = 3)
  BY LinkFacts
<1>2. CASE config.parity = "NONE"
  BY <1>1, <1>2 DEF IndexAfter, Position, FrameIsComplete, ParityBits
<1>3. CASE config.parity # "NONE"
  BY <1>1, <1>3 DEF IndexAfter, Position, FrameIsComplete, ParityBits
<1> QED  BY <1>2, <1>3

LEMMA Levels ==
  ASSUME LinkConfigsWork, config \in LinkConfigs, tx_current_byte \in SUBSET (0 .. 7)
  PROVE  /\ LevelAt(-1) = FALSE
         /\ \A index \in 0 .. config.data_bits - 1 :
              LevelAt(index) = (index \in OnWire(tx_current_byte))
         /\ LevelAt(config.data_bits) = ParityBit(tx_current_byte)
         /\ \A index \in Int : index > config.data_bits => LevelAt(index) = TRUE
         /\ \A index \in Int : LevelAt(index) \in BOOLEAN
<1>1. config.data_bits \in 1 .. 8
  BY LinkFacts
<1>2. LevelAt(-1) = FALSE
  BY <1>1 DEF LevelAt
<1>3. ASSUME NEW index \in 0 .. config.data_bits - 1
      PROVE  LevelAt(index) = (index \in OnWire(tx_current_byte))
  <2>1. index < config.data_bits /\ index # config.data_bits
    BY <1>1
  <2>2. LevelAt(index) = (index \in tx_current_byte)
    BY <2>1, Zenon DEF LevelAt
  <2>3. (index \in tx_current_byte) = (index \in OnWire(tx_current_byte))
    BY <1>1 DEF OnWire
  <2> QED  BY <2>2, <2>3, Zenon
<1>4. LevelAt(config.data_bits) = ParityBit(tx_current_byte)
  BY <1>1 DEF LevelAt
<1>5. ASSUME NEW index \in Int, index > config.data_bits
      PROVE  LevelAt(index) = TRUE
  BY <1>1, <1>5 DEF LevelAt
<1>6. ParityBit(tx_current_byte) \in BOOLEAN
  BY DEF ParityBit
<1>7. ASSUME NEW index \in Int PROVE LevelAt(index) \in BOOLEAN
  <2>1. CASE index < config.data_bits
    <3>1. index # config.data_bits
      BY <1>1, <2>1
    <3>2. LevelAt(index) = (index \in tx_current_byte)
      BY <2>1, <3>1, Zenon DEF LevelAt
    <3>3. (index \in tx_current_byte) \in BOOLEAN
      OBVIOUS
    <3> QED  BY <3>2, <3>3, Zenon
  <2>2. CASE index = config.data_bits
    BY <1>4, <1>6, <2>2
  <2>3. CASE index > config.data_bits
    BY <1>5, <2>3
  <2> QED  BY <1>1, <2>1, <2>2, <2>3
<1> QED  BY <1>2, <1>3, <1>4, <1>5, <1>7

(* What processRX does with a receiver that is idle, that is between two      *)
(* samples and that has counted a bit time.                                   *)
LEMMA ReceiverIdles ==
  ASSUME ~rx_active, rx_pin_level, Receive
  PROVE  UNCHANGED <<rx, in_flight>>
BY DEF Receive

LEMMA ReceiverStarts ==
  ASSUME LinkConfigsWork, config \in LinkConfigs, config.bit_time >= 2,
         ~rx_active, ~rx_pin_level, ~rx_start_bit_detected, Receive
  PROVE  CountBitTime(-1, {}, 0)
<1>1. ~SampleIsDue(0)
  BY LinkFacts DEF SampleIsDue
<1> QED  BY <1>1 DEF Receive, ReceiveIn

LEMMA ReceiverWaits ==
  ASSUME LinkConfigsWork, config \in LinkConfigs, config.bit_time >= 2,
         rx_active, current_bit_time = 0, Receive
  PROVE  CountBitTime(rx_bit_index, rx_current_byte, 0)
<1>1. ~SampleIsDue(0)
  BY LinkFacts DEF SampleIsDue
<1> QED  BY <1>1 DEF Receive, ReceiveIn

LEMMA ReceiverSamples ==
  ASSUME LinkConfigsWork, config \in LinkConfigs, rx_bit_index \in Int,
         rx_active, current_bit_time = config.bit_time, Receive,
         rx_bit_index < 0 => ~rx_pin_level
  PROVE  IF rx_bit_index > config.data_bits THEN FinishReceiving
         ELSE Sample(rx_bit_index, rx_current_byte)
<1>1. SampleIsDue(config.bit_time)
  BY LinkFacts DEF SampleIsDue
<1>2. rx_bit_index < 0 => ~(rx_bit_index > config.data_bits)
  BY LinkFacts
<1> QED  BY <1>1, <1>2 DEF Receive, ReceiveIn

(* A byte that is received was accepted first, and is cut to its data bits.  *)
DeliversNext ==
  Len(rx_fifo') > Len(rx_fifo) =>
    /\ in_flight # <<>>
    /\ rx_fifo' = Append(rx_fifo, OnWire(Head(in_flight)))

LEMMA NothingDelivered ==
  ASSUME rx_fifo \in Seq(SUBSET (0 .. 7)), rx_fifo' = rx_fifo
  PROVE  DeliversNext
BY DEF DeliversNext

(* What every step of the looped wire's clock may rely on. *)
LinkTicks(elapsed) ==
  /\ config \in LinkConfigs
  /\ config' = config
  /\ InStep
  /\ TransmitterInv
  /\ elapsed \in Nat
  /\ 2 * elapsed = config.bit_time
  /\ config.bit_time >= 2
  /\ rx_pin_level = tx_pin_level
  /\ Receive

LEMMA LevelsSent ==
  ASSUME LinkConfigsWork, config \in LinkConfigs, TransmitterInv, tx_active
  PROVE  /\ LevelAt(-1) = FALSE
         /\ \A index \in 0 .. config.data_bits - 1 :
              LevelAt(index) = (index \in OnWire(tx_current_byte))
         /\ LevelAt(config.data_bits) = ParityBit(tx_current_byte)
         /\ \A index \in Int : index > config.data_bits => LevelAt(index) = TRUE
<1>1. tx_current_byte \in Bytes
  BY DEF TransmitterInv, FrontIsOnTheLine
<1>2. tx_current_byte \in SUBSET (0 .. 7)
  BY <1>1, LinkFacts
<1> QED  BY <1>2, Levels

LEMMA TickWhenIdle ==
  ASSUME LinkConfigsWork, NEW elapsed, LinkTicks(elapsed), LineIsIdle,
         bit_ticks' = Min({bit_ticks + elapsed, MaxBacklog}), UNCHANGED tx
  PROVE  InStep' /\ DeliversNext
<1>1. UNCHANGED <<rx, in_flight>>
  BY ReceiverIdles DEF LinkTicks, LineIsIdle
<1>2. bit_ticks' \in Nat
  <2>1. bit_ticks + elapsed \in Nat /\ MaxBacklog \in Nat
    BY LinkFacts DEF LinkTicks, InStep
  <2> QED  BY <2>1, Least
<1>3. LineIsIdle'
  BY <1>1 DEF LineIsIdle, tx, rx
<1>4. InStep'
  BY <1>1, <1>2, <1>3 DEF LinkTicks, InStep, tx, rx
<1>5. DeliversNext
  BY <1>1, NothingDelivered DEF LinkTicks, InStep, rx
<1> QED  BY <1>4, <1>5

LEMMA TickBetweenBits ==
  ASSUME LinkConfigsWork, NEW elapsed, LinkTicks(elapsed), FrameIsSent,
         bit_ticks = 0, Transmit(elapsed)
  PROVE  InStep' /\ DeliversNext
<1>1. UNCHANGED tx /\ bit_ticks' = elapsed
  BY TransmitWaits DEF LinkTicks, FrameIsSent
<1>2. tx_pin_level' = LevelAt(tx_bit_index)' /\ Position' = Position
      /\ OnWire(tx_current_byte)' = OnWire(tx_current_byte)
  BY <1>1 DEF FrameIsSent, LinkTicks, LevelAt, OnWire, ParityBit, Position, tx
<1>3. CASE FrameAwaited
  <2>1. ~rx_pin_level
    BY <1>3, LevelsSent DEF LinkTicks, FrameIsSent, FrameAwaited
  <2>2. CountBitTime(-1, {}, 0)
    BY <1>3, <2>1, ReceiverStarts DEF LinkTicks, FrameAwaited, InStep
  <2>3. FrameInStep'
    BY <1>1, <1>2, <1>3, <2>2, LinkFacts
      DEF LinkTicks, FrameAwaited, FrameInStep, CountBitTime, Position, tx
  <2>4. InStep'
    BY <1>1, <1>2, <2>2, <2>3 DEF LinkTicks, InStep, FrameIsSent, CountBitTime, tx
  <2> QED  BY <2>2, <2>4, NothingDelivered DEF LinkTicks, InStep, CountBitTime
<1>4. CASE FrameInStep
  <2>1. CountBitTime(rx_bit_index, rx_current_byte, 0)
    BY <1>4, ReceiverWaits DEF LinkTicks, FrameInStep
  <2>2. FrameInStep'
    BY <1>1, <1>2, <1>4, <2>1 DEF LinkTicks, FrameInStep, CountBitTime, tx
  <2>3. InStep'
    BY <1>1, <1>2, <2>1, <2>2 DEF LinkTicks, InStep, FrameIsSent, CountBitTime, tx
  <2> QED  BY <2>1, <2>3, NothingDelivered DEF LinkTicks, InStep, CountBitTime
<1>5. CASE FrameReceived
  <2>1. tx_bit_index > config.data_bits
    BY <1>5, LinkFacts DEF FrameReceived, FrameIsSent, LinkTicks, Position
  <2>2. rx_pin_level
    BY <2>1, LevelsSent DEF LinkTicks, FrameIsSent
  <2>3. UNCHANGED <<rx, in_flight>>
    BY <1>5, <2>2, ReceiverIdles DEF LinkTicks, FrameReceived
  <2>4. FrameReceived'
    BY <1>1, <1>2, <1>5, <2>3 DEF LinkTicks, FrameReceived, tx, rx
  <2>5. InStep'
    BY <1>1, <1>2, <2>3, <2>4 DEF LinkTicks, InStep, FrameIsSent, tx, rx
  <2> QED  BY <2>3, <2>5, NothingDelivered DEF LinkTicks, InStep, rx
<1> QED  BY <1>3, <1>4, <1>5 DEF FrameIsSent

(* The transmitter's next frame, or none, once the receiver has the last one. *)
LEMMA FrameMakesWay ==
  ASSUME LinkConfigsWork, config \in LinkConfigs, config' = config, TransmitterInv,
         tx_active, tx_pin_level, NEW index, EndOfFrame(index),
         ~rx_active', in_flight' = Tail(tx_fifo)
  PROVE  /\ bit_ticks' \in Nat
         /\ tx_pin_level' \in BOOLEAN
         /\ LineIsIdle' \/ FrameIsSent'
<1>1. bit_ticks' = 0
  BY DEF EndOfFrame
<1>2. CASE Tail(tx_fifo) # <<>> /\ StartFrame(Tail(tx_fifo))
  <2>1. tx_fifo \in Seq(Bytes) /\ tx_fifo # <<>>
    BY DEF TransmitterInv, FrontIsOnTheLine
  <2>2. Head(Tail(tx_fifo)) \in Bytes
    BY <1>2, <2>1
  <2>3. tx_current_byte' \in SUBSET (0 .. 7)
    BY <1>2, <2>2, LinkFacts DEF StartFrame
  <2>4. LevelAt(-1)' = FALSE
    <3>1. config.data_bits \in 1 .. 8
      BY LinkFacts
    <3>2. -1 < config'.data_bits /\ -1 # config'.data_bits /\ -1 \notin tx_current_byte'
      BY <2>3, <3>1
    <3>3. LevelAt(-1)' = (-1 \in tx_current_byte')
      BY <3>2, Zenon DEF LevelAt
    <3>4. (-1 \in tx_current_byte') = FALSE
      BY <3>2
    <3> QED  BY <3>3, <3>4, Zenon
  <2>5. tx_active' = TRUE /\ tx_bit_index' = -1 /\ tx_pin_level' = FALSE
        /\ tx_fifo' = Tail(tx_fifo)
    BY <1>2 DEF StartFrame
  <2>6. FrameAwaited'
    BY <1>1, <2>5 DEF FrameAwaited
  <2>7. tx_pin_level' = LevelAt(tx_bit_index)'
    BY <2>4, <2>5
  <2>8. config'.data_bits # -1
    BY LinkFacts
  <2>9. FrameIsSent'
    BY <1>1, <2>5, <2>6, <2>7, <2>8 DEF FrameIsSent
  <2> QED  BY <1>1, <2>5, <2>9
<1>3. CASE Tail(tx_fifo) = <<>> /\ tx_active' = FALSE /\ tx_pin_level' = tx_pin_level
  <2>1. LineIsIdle'
    BY <1>3 DEF LineIsIdle
  <2> QED  BY <1>1, <1>3, <2>1 DEF LineIsIdle
<1> QED  BY <1>2, <1>3 DEF EndOfFrame

LEMMA FrameGoesOn ==
  ASSUME LinkConfigsWork, config \in LinkConfigs, config' = config,
         FrameIsSent, TransmitterInv, NextBit(IndexAfter(1))
  PROVE  /\ Position' = Position + 1
         /\ bit_ticks' \in Nat
         /\ tx_pin_level' \in BOOLEAN
         /\ FrameInStep' \/ FrameReceived' => FrameIsSent'
<1> DEFINE following == IndexAfter(1)
<1>1. /\ following \in Int
      /\ following >= 0
      /\ config.parity = "NONE" => following # config.data_bits
      /\ Position + 1 = IF config.parity = "NONE" /\ following > config.data_bits
                        THEN following - 1 ELSE following
  BY NextPosition DEF FrameIsSent
<1>2. LevelAt(following) \in BOOLEAN
  <2>1. tx_current_byte \in Bytes
    BY DEF TransmitterInv, FrontIsOnTheLine, FrameIsSent
  <2>2. tx_current_byte \in SUBSET (0 .. 7)
    BY <2>1, LinkFacts
  <2> QED  BY <1>1, <2>2, Levels
<1> HIDE DEF following
<1>3. /\ tx_bit_index' = following
      /\ bit_ticks' = 0
      /\ tx_pin_level' = LevelAt(following)
      /\ UNCHANGED <<tx_fifo, tx_active, tx_current_byte>>
  BY DEF NextBit, following
<1>4. Position' = Position + 1
  BY <1>1, <1>3 DEF Position
<1>5. tx_pin_level' = LevelAt(tx_bit_index)'
  BY <1>3 DEF LevelAt, ParityBit, OnWire
<1> QED  BY <1>1, <1>2, <1>3, <1>4, <1>5 DEF FrameIsSent

(* The receiver takes its sample in the tick that moves the transmitter on. *)
LEMMA TickAtABit ==
  ASSUME LinkConfigsWork, NEW elapsed, LinkTicks(elapsed), FrameIsSent,
         2 * bit_ticks = config.bit_time, Transmit(config.bit_time)
  PROVE  InStep' /\ DeliversNext
<1>1. /\ config \in LinkConfigs /\ config' = config
      /\ TransmitterInv /\ tx_active
      /\ tx_fifo \in Seq(Bytes) /\ tx_fifo # <<>> /\ Head(tx_fifo) = tx_current_byte
      /\ tx_bit_index \in Int /\ tx_bit_index >= -1
      /\ rx_pin_level = LevelAt(tx_bit_index)
      /\ rx_fifo \in Seq(SUBSET (0 .. 7))
      /\ errors \subseteq {"overrun"}
  BY DEF LinkTicks, InStep, FrameIsSent, TransmitterInv, FrontIsOnTheLine
<1>2. config.data_bits \in 1 .. 8
  BY <1>1, LinkFacts
<1>3. NextBit(IndexAfter(1)) \/ EndOfFrame(IndexAfter(1))
  BY <1>1, TransmitMoves
<1>4. EndOfFrame(IndexAfter(1)) => Position >= config.data_bits + 1
  BY <1>1, NextPosition DEF EndOfFrame, FrameIsSent
<1>5. Position > config.data_bits => tx_bit_index > config.data_bits
  BY <1>1, <1>2 DEF Position
<1>6. Position > config.data_bits => rx_pin_level = TRUE
  BY <1>1, <1>5, LevelsSent
<1>7. Position \in Int
  BY <1>1, <1>2 DEF Position
<1>8. ~FrameAwaited
  BY DEF FrameAwaited, LinkTicks
<1>9. CASE FrameInStep /\ Position <= config.data_bits
  <2>1. rx_bit_index < 0 => ~rx_pin_level
    <3>1. SUFFICES ASSUME rx_bit_index < 0 PROVE tx_bit_index = -1
      BY <1>1, LevelsSent
    <3> QED  BY <1>1, <1>2, <1>9, <3>1 DEF FrameInStep, Position
  <2>2. Sample(rx_bit_index, rx_current_byte)
    BY <1>1, <1>2, <1>7, <1>9, <2>1, ReceiverSamples DEF FrameInStep, LinkTicks
  <2>3. NextBit(IndexAfter(1))
    BY <1>2, <1>3, <1>4, <1>7, <1>9
  <2>4. /\ Position' = Position + 1
        /\ bit_ticks' \in Nat
        /\ tx_pin_level' \in BOOLEAN
        /\ FrameInStep' \/ FrameReceived' => FrameIsSent'
    BY <1>1, <2>3, FrameGoesOn
  <2>5. OnWire(tx_current_byte)' = OnWire(tx_current_byte)
    BY <1>1, <2>3 DEF NextBit, OnWire
  <2>6. rx_current_byte' = OnWire(tx_current_byte) \cap 0 .. rx_bit_index' - 1
    <3>1. CASE Position < 0
      <4>1. rx_bit_index = -1 /\ rx_bit_index' = 0 /\ rx_current_byte' = rx_current_byte
        BY <1>1, <1>2, <1>9, <2>2, <3>1 DEF Sample, FrameInStep, Position
      <4>2. rx_current_byte = OnWire(tx_current_byte) \cap 0 .. rx_bit_index - 1
        BY <1>9 DEF FrameInStep
      <4> QED  BY <4>1, <4>2
    <3>2. CASE Position \in 0 .. config.data_bits - 1
      <4>1. tx_bit_index = Position
        BY <1>1, <1>2, <3>2 DEF Position
      <4>2. rx_pin_level = (Position \in OnWire(tx_current_byte))
        BY <1>1, <3>2, <4>1, LevelsSent
      <4>3. rx_bit_index = Position /\ rx_bit_index' = Position + 1
            /\ rx_current_byte = OnWire(tx_current_byte) \cap 0 .. Position - 1
        BY <1>9, <2>2 DEF Sample, FrameInStep
      <4>4. CASE rx_pin_level
        <5>1. Position \in OnWire(tx_current_byte)
          BY <4>2, <4>4
        <5>2. rx_current_byte' = rx_current_byte \cup {Position}
          BY <2>2, <3>2, <4>3, <4>4 DEF Sample
        <5> QED  BY <3>2, <4>3, <5>1, <5>2
      <4>5. CASE ~rx_pin_level
        <5>1. Position \notin OnWire(tx_current_byte)
          BY <4>2, <4>5
        <5>2. rx_current_byte' = rx_current_byte
          BY <2>2, <4>5 DEF Sample
        <5> QED  BY <3>2, <4>3, <5>1, <5>2
      <4> QED  BY <4>4, <4>5
    <3>3. CASE Position = config.data_bits
      BY <1>2, <1>9, <2>2, <3>3 DEF Sample, FrameInStep, OnWire
    <3> QED  BY <1>2, <1>7, <1>9, <3>1, <3>2, <3>3
  <2>7. errors' \subseteq {"overrun"}
    <3>1. CASE Position = config.data_bits /\ config.parity # "NONE"
      <4>1. tx_bit_index = config.data_bits
        BY <1>2, <3>1 DEF Position
      <4>2. rx_pin_level = ParityBit(tx_current_byte)
        BY <1>1, <4>1, LevelsSent
      <4>3. OnWire(rx_current_byte) = OnWire(tx_current_byte)
        BY <1>2, <1>9, <3>1 DEF OnWire, FrameInStep
      <4>4. ParityBit(rx_current_byte) = ParityBit(tx_current_byte)
        BY <4>3 DEF ParityBit
      <4> QED  BY <1>1, <2>2, <4>2, <4>4 DEF Sample, Fail
    <3>2. CASE ~(Position = config.data_bits /\ config.parity # "NONE")
      BY <1>1, <1>9, <2>2, <3>2 DEF Sample, Fail, FrameInStep
    <3> QED  BY <3>1, <3>2
  <2>8. FrameInStep'
    <3>1. rx_active' /\ current_bit_time' = 0 /\ in_flight' = in_flight
          /\ rx_bit_index' = rx_bit_index + 1
      BY <2>2 DEF Sample
    <3>2. tx_fifo' = tx_fifo /\ bit_ticks' = 0 /\ config' = config
      BY <1>1, <2>3 DEF NextBit
    <3>3. in_flight = tx_fifo /\ rx_bit_index = Position
      BY <1>9 DEF FrameInStep
    <3>4. Position' <= config.data_bits + 1
      BY <1>2, <1>7, <1>9, <2>4
    <3>5. rx_bit_index' = Position' /\ current_bit_time' = 2 * bit_ticks'
      BY <2>4, <3>1, <3>2, <3>3
    <3>6. in_flight' = tx_fifo' /\ (config.data_bits)' = config.data_bits
      BY <3>1, <3>2, <3>3
    <3>7. rx_current_byte' = (OnWire(tx_current_byte) \cap 0 .. rx_bit_index - 1)'
      BY <2>5, <2>6
    <3> QED  BY <3>1, <3>4, <3>5, <3>6, <3>7 DEF FrameInStep
  <2>9. InStep'
    BY <1>1, <2>2, <2>4, <2>7, <2>8 DEF InStep, Sample
  <2> QED  BY <1>1, <2>2, <2>9, NothingDelivered DEF Sample
<1>10. CASE FrameInStep /\ Position = config.data_bits + 1
  <2>1. FinishReceiving
    BY <1>1, <1>2, <1>10, ReceiverSamples, SMTT(20) DEF FrameInStep, LinkTicks
  <2>2. rx_current_byte = OnWire(tx_current_byte)
    BY <1>2, <1>10 DEF FrameInStep, OnWire
  <2>3. rx_current_byte \in SUBSET (0 .. 7)
    BY <1>2, <2>2 DEF OnWire
  <2>4. in_flight = tx_fifo /\ in_flight' = Tail(tx_fifo) /\ ~rx_active'
    BY <1>1, <1>10, <2>1 DEF FrameInStep, FinishReceiving
  <2>5. rx_fifo' = rx_fifo \/ rx_fifo' = Append(rx_fifo, OnWire(Head(in_flight)))
    BY <1>1, <2>1, <2>2, <2>4 DEF FinishReceiving
  <2>6. rx_fifo' \in Seq(SUBSET (0 .. 7))
    <3>1. Append(rx_fifo, rx_current_byte) \in Seq(SUBSET (0 .. 7))
      BY <1>1, <2>3
    <3>2. rx_fifo' = rx_fifo \/ rx_fifo' = Append(rx_fifo, rx_current_byte)
      BY <2>1 DEF FinishReceiving
    <3> QED  BY <1>1, <3>1, <3>2
  <2>7. errors' \subseteq {"overrun"}
    BY <1>1, <1>2, <1>6, <1>10, <2>1 DEF FinishReceiving, Fail
  <2>8. DeliversNext
    BY <1>1, <2>4, <2>5, NothingDelivered DEF DeliversNext
  <2>9. /\ bit_ticks' \in Nat
        /\ tx_pin_level' \in BOOLEAN
        /\ LineIsIdle' \/ FrameIsSent'
    <3>1. CASE NextBit(IndexAfter(1))
      <4>1. FrameReceived'
        BY <1>1, <1>2, <1>10, <2>4, <3>1, FrameGoesOn DEF FrameReceived, NextBit
      <4> QED  BY <1>1, <3>1, <4>1, FrameGoesOn
    <3>2. CASE EndOfFrame(IndexAfter(1))
      <4>1. tx_pin_level
        BY <1>1, <1>2, <1>6, <1>10 DEF LinkTicks
      <4> QED  BY <1>1, <2>4, <3>2, <4>1, FrameMakesWay
    <3> QED  BY <1>3, <3>1, <3>2
  <2>10. rx_start_bit_detected' = rx_active' /\ rx_active' \in BOOLEAN
    BY <2>1 DEF FinishReceiving
  <2> QED  BY <2>6, <2>7, <2>8, <2>9, <2>10 DEF InStep
<1>11. CASE FrameReceived
  <2>1. UNCHANGED <<rx, in_flight>>
    BY <1>2, <1>6, <1>7, <1>11, ReceiverIdles DEF LinkTicks, FrameReceived
  <2>2. in_flight' = Tail(tx_fifo) /\ ~rx_active'
    BY <1>11, <2>1 DEF FrameReceived, rx
  <2>3. /\ bit_ticks' \in Nat
        /\ tx_pin_level' \in BOOLEAN
        /\ LineIsIdle' \/ FrameIsSent'
    <3>1. CASE NextBit(IndexAfter(1))
      <4>1. FrameReceived'
        BY <1>1, <1>2, <1>7, <1>11, <2>2, <3>1, FrameGoesOn DEF FrameReceived, NextBit
      <4> QED  BY <1>1, <3>1, <4>1, FrameGoesOn
    <3>2. CASE EndOfFrame(IndexAfter(1))
      <4>1. tx_pin_level
        BY <1>2, <1>6, <1>7, <1>11 DEF LinkTicks, FrameReceived
      <4> QED  BY <1>1, <2>2, <3>2, <4>1, FrameMakesWay
    <3> QED  BY <1>3, <3>1, <3>2
  <2>4. InStep'
    BY <2>1, <2>3 DEF LinkTicks, InStep, rx
  <2> QED  BY <1>1, <2>1, <2>4, NothingDelivered DEF rx
<1> QED  BY <1>2, <1>7, <1>8, <1>9, <1>10, <1>11 DEF FrameIsSent, FrameInStep

LEMMA TickKeepsStep ==
  ASSUME LinkConfigsWork, LinkInv, TransmitterInv, bench = "loop", ~skewed,
         NEW elapsed \in Elapsed, TickUart(elapsed), ~skewed'
  PROVE  InStep' /\ DeliversNext
<1>1. config \in LinkConfigs /\ InStep
  BY DEF LinkInv
<1>2. /\ rx_pin_level = tx_pin_level /\ 2 * elapsed = config.bit_time
      /\ Receive /\ config' = config
  BY Zenon DEF TickUart, OnTime
<1>3. elapsed \in Nat /\ config.bit_time >= 2 /\ bit_ticks \in Nat
  BY <1>1, <1>2, LinkFacts, UartAssumption DEF InStep
<1>4. LinkTicks(elapsed)
  BY <1>1, <1>2, <1>3 DEF LinkTicks
<1> DEFINE time == Min({bit_ticks + elapsed, MaxBacklog})
<1>5. IF tx_active THEN Transmit(time) ELSE bit_ticks' = time /\ UNCHANGED tx
  BY Zenon DEF TickUart
<1>6. CASE LineIsIdle
  BY <1>4, <1>5, <1>6, TickWhenIdle DEF LineIsIdle
<1>7. CASE FrameIsSent
  <2>1. tx_active /\ (bit_ticks = 0 \/ 2 * bit_ticks = config.bit_time)
    BY <1>7 DEF FrameIsSent
  <2>2. time = bit_ticks + elapsed
    BY <1>1, <1>2, <1>3, <2>1, TimeOfATick
  <2>3. CASE bit_ticks = 0
    <3>1. time = elapsed
      BY <1>3, <2>2, <2>3
    <3>2. Transmit(elapsed)
      BY <1>5, <2>1, <3>1, Zenon
    <3> QED  BY <1>4, <1>7, <2>3, <3>2, TickBetweenBits
  <2>4. CASE 2 * bit_ticks = config.bit_time
    <3>1. time = config.bit_time
      BY <1>1, <1>2, <1>3, <2>2, <2>4, LinkFacts
    <3>2. Transmit(config.bit_time)
      BY <1>5, <2>1, <3>1, Zenon
    <3> QED  BY <1>4, <1>7, <2>4, <3>2, TickAtABit
  <2> QED  BY <2>1, <2>3, <2>4
<1> QED  BY <1>1, <1>6, <1>7 DEF InStep

LEMMA WriteKeepsStep ==
  ASSUME LinkConfigsWork, LinkInv, TransmitterInv, bench = "loop", ~skewed,
         NEW byte \in Bytes, WriteByte(byte), ~skewed'
  PROVE  InStep'
<1>1. config \in LinkConfigs /\ InStep
  BY DEF LinkInv
<1>2. /\ UNCHANGED <<config, bit_ticks, rx>>
      /\ in_flight' = Append(in_flight, byte)
      /\ tx_active \/ ~(bit_ticks > 0)
      /\ tx_fifo \in Seq(Bytes)
  BY DEF WriteByte, TransmitterInv
<1>3. CASE FrameIsSent
  <2>1. tx_fifo' = Append(tx_fifo, byte) /\ tx_fifo # <<>>
        /\ UNCHANGED <<tx_active, tx_current_byte, tx_bit_index, tx_pin_level>>
    BY <1>3 DEF WriteByte, FrameIsSent, TransmitterInv, FrontIsOnTheLine
  <2>2. Tail(tx_fifo') = Append(Tail(tx_fifo), byte)
    BY <1>2, <2>1
  <2>3. LevelAt(tx_bit_index)' = LevelAt(tx_bit_index) /\ Position' = Position
        /\ OnWire(tx_current_byte)' = OnWire(tx_current_byte)
    BY <1>2, <2>1 DEF LevelAt, ParityBit, OnWire, Position
  <2>4. FrameAwaited' \/ FrameInStep' \/ FrameReceived'
    BY <1>2, <1>3, <2>1, <2>2, <2>3
      DEF FrameIsSent, FrameAwaited, FrameInStep, FrameReceived, rx
  <2>5. FrameIsSent'
    BY <1>2, <1>3, <2>1, <2>3, <2>4 DEF FrameIsSent
  <2> QED  BY <1>1, <1>2, <2>1, <2>5 DEF InStep, rx
<1>4. CASE LineIsIdle
  <2>1. tx_fifo = <<>> /\ in_flight = <<>> /\ bit_ticks = 0 /\ ~tx_active
    BY <1>1, <1>2, <1>4 DEF LineIsIdle, TransmitterInv, FrontIsOnTheLine, InStep
  <2>2. StartFrame(Append(<<>>, byte)) /\ in_flight' = Append(<<>>, byte)
    BY <1>2, <2>1 DEF WriteByte
  <2>3. tx_fifo' = in_flight' /\ tx_active' = TRUE /\ tx_current_byte' = byte
        /\ tx_bit_index' = -1 /\ tx_pin_level' = FALSE /\ bit_ticks' = 0
    BY <1>2, <2>1, <2>2 DEF StartFrame
  <2>4. byte \in SUBSET (0 .. 7) /\ config.data_bits \in 1 .. 8
    BY <1>1, LinkFacts
  <2>5. tx_pin_level' = LevelAt(tx_bit_index)'
    <3>1. config'.data_bits \in 1 .. 8 /\ tx_current_byte' \in SUBSET (0 .. 7)
      BY <1>2, <2>3, <2>4
    <3>2. -1 < config'.data_bits /\ -1 # config'.data_bits /\ -1 \notin tx_current_byte'
      BY <3>1
    <3>3. LevelAt(-1)' = (-1 \in tx_current_byte')
      BY <3>2, Zenon DEF LevelAt
    <3>4. (-1 \in tx_current_byte') = FALSE
      BY <3>2
    <3>5. LevelAt(-1)' = FALSE
      BY <3>3, <3>4, Zenon
    <3>6. tx_pin_level' = FALSE /\ tx_bit_index' = -1
      BY <2>3
    <3> QED  BY <3>5, <3>6
  <2>6. FrameAwaited'
    BY <1>2, <1>4, <2>3 DEF FrameAwaited, LineIsIdle, rx
  <2>7. FrameIsSent'
    BY <1>2, <2>3, <2>4, <2>5, <2>6 DEF FrameIsSent
  <2> QED  BY <1>1, <1>2, <2>3, <2>7 DEF InStep, rx
<1> QED  BY <1>1, <1>3, <1>4 DEF InStep

(* Nothing but the receiver moves when the program takes a byte from it, and  *)
(* nothing at all when the wire carries its level.                            *)
LEMMA ReadKeepsStep ==
  ASSUME InStep, UNCHANGED <<config, tx, bit_ticks, in_flight>>,
         UNCHANGED <<rx_active, rx_start_bit_detected, rx_current_byte,
                     rx_bit_index, current_bit_time, errors>>,
         rx_fifo' \in Seq(SUBSET (0 .. 7))
  PROVE  InStep'
<1>1. LevelAt(tx_bit_index)' = LevelAt(tx_bit_index) /\ Position' = Position
      /\ OnWire(tx_current_byte)' = OnWire(tx_current_byte)
  BY DEF LevelAt, ParityBit, OnWire, Position, tx
<1>2. LineIsIdle => LineIsIdle'
  BY DEF LineIsIdle, tx
<1>3. /\ FrameAwaited => FrameAwaited'
      /\ FrameInStep => FrameInStep'
      /\ FrameReceived => FrameReceived'
  BY <1>1 DEF FrameAwaited, FrameInStep, FrameReceived, tx
<1>4. FrameIsSent => FrameIsSent'
  BY <1>1, <1>3 DEF FrameIsSent, tx
<1> QED  BY <1>2, <1>4 DEF InStep, tx

LinkStep == bench = "loop" /\ ~skewed' => DeliversNext

LEMMA LinkKeeps ==
  ASSUME LinkConfigsWork, LinkInv, TransmitterInv, [UartNext]_uartVars
  PROVE  LinkInv' /\ [LinkStep]_uartVars
<1>1. CASE bench # "loop"
  <2>1. bench' = bench
    BY DEF UartNext, WriteByte, TickUart, ReceiveBit, ReadByte, Configure, ResetUart,
           uartVars, link
  <2> QED  BY <1>1, <2>1 DEF LinkInv, LinkStep
<1>2. CASE bench = "loop"
  <2>1. ASSUME NEW byte \in Bytes, WriteByte(byte) PROVE LinkInv' /\ LinkStep
    <3>1. UNCHANGED <<config, rx, bench>> /\ (skewed => skewed')
      BY <2>1 DEF WriteByte
    <3>2. ~skewed' => InStep'
      BY <1>2, <2>1, <3>1, WriteKeepsStep
    <3> QED  BY <1>2, <3>1, <3>2, NothingDelivered DEF LinkInv, LinkStep, InStep, rx
  <2>2. ASSUME NEW elapsed \in Elapsed, TickUart(elapsed) PROVE LinkInv' /\ LinkStep
    <3>1. UNCHANGED <<config, bench>> /\ (skewed => skewed')
      BY <2>2, Zenon DEF TickUart
    <3> QED  BY <1>2, <2>2, <3>1, TickKeepsStep DEF LinkInv, LinkStep
  <2>3. ASSUME UNCHANGED <<config, tx, bit_ticks, in_flight>>, UNCHANGED link,
               UNCHANGED <<rx_active, rx_start_bit_detected, rx_current_byte,
                           rx_bit_index, current_bit_time, errors>>,
               \/ rx_fifo' = rx_fifo
               \/ rx_fifo # <<>> /\ rx_fifo' = Tail(rx_fifo)
        PROVE  LinkInv' /\ LinkStep
    <3>1. ASSUME InStep PROVE InStep' /\ DeliversNext
      <4>1. rx_fifo \in Seq(SUBSET (0 .. 7))
        BY <3>1 DEF InStep
      <4>2. rx_fifo' \in Seq(SUBSET (0 .. 7)) /\ ~(Len(rx_fifo') > Len(rx_fifo))
        BY <2>3, <4>1
      <4> QED  BY <2>3, <3>1, <4>2, ReadKeepsStep DEF DeliversNext
    <3> QED  BY <1>2, <2>3, <3>1 DEF LinkInv, LinkStep, link
  <2>4. ASSUME NEW level \in BOOLEAN, ReceiveBit(level) PROVE LinkInv' /\ LinkStep
    BY <2>3, <2>4 DEF ReceiveBit, rx
  <2>5. CASE ReadByte
    BY <2>3, <2>5 DEF ReadByte
  <2>6. ASSUME NEW new \in Configs, Configure(new) PROVE FALSE
    BY <1>2, <2>6 DEF Configure
  <2>7. CASE ResetUart
    <3>1. UNCHANGED <<config, bench>> /\ skewed' /\ rx_fifo' = <<>>
      BY <1>2, <2>7 DEF ResetUart
    <3>2. InStep => DeliversNext
      BY <3>1 DEF InStep, DeliversNext
    <3> QED  BY <1>2, <3>1, <3>2 DEF LinkInv, LinkStep
  <2>8. CASE UNCHANGED uartVars
    BY <2>3, <2>8 DEF uartVars, rx, link
  <2> QED  BY <2>1, <2>2, <2>4, <2>5, <2>6, <2>7, <2>8 DEF UartNext
<1> QED  BY <1>1, <1>2

LEMMA LinkInvariance ==
  ASSUME LinkConfigsWork
  PROVE  UartSpec => [](LinkInv /\ TransmitterInv)
<1>1. UartInit => LinkInv
  <2> SUFFICES ASSUME UartInit, bench = "loop" PROVE config \in LinkConfigs /\ InStep
    BY DEF LinkInv
  <2>1. config \in LinkConfigs
    BY DEF UartInit
  <2>2. /\ errors = {} /\ rx_fifo = <<>> /\ bit_ticks = 0 /\ in_flight = <<>>
        /\ tx_active = FALSE /\ tx_pin_level = TRUE
        /\ rx_active = FALSE /\ rx_start_bit_detected = FALSE
    BY DEF UartInit
  <2>3. LineIsIdle
    BY <2>2, Zenon DEF LineIsIdle
  <2>4. rx_fifo \in Seq(SUBSET (0 .. 7)) /\ errors \subseteq {"overrun"}
        /\ bit_ticks \in Nat
    BY <2>2
  <2>5. rx_active \in BOOLEAN /\ rx_start_bit_detected = rx_active
        /\ tx_pin_level \in BOOLEAN
    BY <2>2
  <2> QED  BY <2>1, <2>3, <2>4, <2>5, Zenon DEF InStep
<1>2. LinkInv /\ TransmitterInv /\ [UartNext]_uartVars => LinkInv'
  BY LinkKeeps
<1> QED  BY <1>1, <1>2, TransmitterInvariance, PTL DEF UartSpec

(* On a looped wire that keeps its timing processRX finds no error in any     *)
(* frame that processTX sends, whatever the frame's size and parity.          *)
THEOREM TheLinkIsClean ==
  ASSUME LinkConfigsWork
  PROVE  UartSpec => []LinkIsClean
<1>1. LinkInv => LinkIsClean
  BY DEF LinkInv, InStep, LinkIsClean
<1> QED  BY <1>1, LinkInvariance, PTL

(* ... and delivers what writeByte accepted, in order and without duplicates. *)
THEOREM TheLinkDelivers ==
  ASSUME LinkConfigsWork
  PROVE  UartSpec => LinkDelivers
<1>1. LinkInv /\ TransmitterInv /\ [UartNext]_uartVars =>
        [/\ bench = "loop"
         /\ ~skewed'
         /\ Len(rx_fifo') > Len(rx_fifo)
         => /\ in_flight # <<>>
            /\ rx_fifo' = Append(rx_fifo, OnWire(Head(in_flight)))]_uartVars
  BY LinkKeeps DEF LinkStep, DeliversNext
<1> QED  BY <1>1, LinkInvariance, PTL DEF UartSpec, LinkDelivers

-----------------------------------------------------------------------------
(* GpioBench: the pins of GpioModel under everything the window does to them, *)
(* for any pins, boards and configurations.                                   *)
(*                                                                            *)
(* Each operation of GpioModel works on one pin, so the argument is local:    *)
(* Sound says what an operation may make of a pin, a lemma per operation      *)
(* shows that it is sound, and the invariant follows pin by pin.              *)

(* What is true of the pin numbered p in every reachable state.              *)
Good(p, s) ==
  /\ s.output_level => p \notin InputOnlyPins /\ s.mode \notin InputModes \cup {"ADC"}
  /\ s.interrupt_pending => s.interrupt_enabled
  /\ s.pwm_config = IF s.pwm_enabled THEN s.pwm_duty ELSE NoConfig

(* What an operation that emits nothing may make of s.                       *)
Sound(p, s, t) ==
  /\ t \in PinState
  /\ Good(p, s) => Good(p, t)
  /\ t.connected = s.connected
  /\ t.output_level = s.output_level

Result == [pin : PinState, events : Seq(BOOLEAN)]

(* What an operation may return for s: its output changes with an event.     *)
SoundResult(p, s, r) ==
  /\ r \in Result
  /\ Good(p, s) => Good(p, r.pin)
  /\ r.pin.connected = s.connected
  /\ r.events = <<>> => r.pin.output_level = s.output_level

LEMMA SoundTransitive ==
  ASSUME NEW p, NEW s, NEW t, NEW u, Sound(p, s, t), Sound(p, t, u)
  PROVE  Sound(p, s, u)
BY DEF Sound

LEMMA SoundDone ==
  ASSUME NEW p, NEW s, NEW t, Sound(p, s, t)
  PROVE  SoundResult(p, s, Done(t))
BY DEF Sound, SoundResult, Done, Result

LEMMA SoundEmit ==
  ASSUME NEW p, NEW s, NEW t \in PinState, NEW e \in BOOLEAN,
         Good(p, s) => Good(p, t), t.connected = s.connected
  PROVE  SoundResult(p, s, EmitEvent(Done(t), e))
<1>1. EmitEvent(Done(t), e) = [pin |-> t, events |-> <<e>>]
  BY DEF EmitEvent, Done
<1> QED  BY <1>1 DEF SoundResult, Result

-----------------------------------------------------------------------------
(* Levels and interrupts *)

LEMMA InputLevelType == ASSUME NEW s \in PinState PROVE InputLevel(s) \in BOOLEAN
<1>1. /\ s.pull_up \in BOOLEAN /\ s.pwm_high \in BOOLEAN /\ s.dac_high \in BOOLEAN
      /\ (s.output_level /\ ~s.open_drain) \in BOOLEAN
      /\ (s.adc_voltage >= 3) \in BOOLEAN
  BY DEF PinState
<1> QED  BY <1>1, Zenon DEF InputLevel

(* Fields that Good does not mention may change at will.                     *)
LEMMA SameIsSound ==
  ASSUME NEW p, NEW s \in PinState, NEW t \in PinState,
         t.output_level = s.output_level, t.mode = s.mode,
         t.interrupt_enabled = s.interrupt_enabled,
         t.interrupt_pending = s.interrupt_pending,
         t.pwm_config = s.pwm_config, t.pwm_enabled = s.pwm_enabled,
         t.pwm_duty = s.pwm_duty, t.connected = s.connected
  PROVE  Sound(p, s, t)
<1>1. Good(p, s) => Good(p, t)
  BY Zenon DEF Good
<1> QED  BY <1>1 DEF Sound

LEMMA PendingSound ==
  ASSUME NEW p, NEW s \in PinState, s.interrupt_enabled
  PROVE  Sound(p, s, [s EXCEPT !.interrupt_pending = TRUE])
<1> DEFINE t == [s EXCEPT !.interrupt_pending = TRUE]
<1>1. t \in PinState
  BY DEF PinState
<1>2. /\ t.output_level = s.output_level /\ t.mode = s.mode
      /\ t.interrupt_enabled = s.interrupt_enabled
      /\ t.pwm_config = s.pwm_config /\ t.pwm_enabled = s.pwm_enabled
      /\ t.pwm_duty = s.pwm_duty /\ t.connected = s.connected
  BY DEF PinState
<1>3. Good(p, s) => Good(p, t)
  <2> HIDE DEF t
  <2> QED  BY <1>2, Zenon DEF Good
<1> QED  BY <1>1, <1>2, <1>3 DEF Sound

LEMMA InputSound ==
  ASSUME NEW p, NEW s \in PinState, NEW level \in BOOLEAN
  PROVE  Sound(p, s, [s EXCEPT !.input_level = level])
BY SameIsSound DEF PinState

(* What CheckInterrupts and UpdateInput do to a result on its way.           *)
Carries(p, r, u) ==
  /\ u \in Result
  /\ Sound(p, r.pin, u.pin)
  /\ u.events = <<>> => r.events = <<>>

LEMMA EmitFields ==
  ASSUME NEW s, NEW events \in Seq(BOOLEAN), NEW e
  PROVE  EmitEvent([pin |-> s, events |-> events], e)
           = [pin |-> s, events |-> Append(events, e)]
BY DEF EmitEvent

LEMMA EmitCarries ==
  ASSUME NEW p, NEW r \in Result, NEW t, Sound(p, r.pin, t), NEW e \in BOOLEAN
  PROVE  Carries(p, r, EmitEvent([r EXCEPT !.pin = t], e))
<1>2. r.events \in Seq(BOOLEAN)
  BY DEF Result
<1>1. EmitEvent([r EXCEPT !.pin = t], e) = [pin |-> t, events |-> Append(r.events, e)]
  <2>1. r = [pin |-> r.pin, events |-> r.events]
    BY DEF Result
  <2>2. [r EXCEPT !.pin = t] = [pin |-> t, events |-> r.events]
    BY <2>1
  <2>3. EmitEvent([pin |-> t, events |-> r.events], e)
          = [pin |-> t, events |-> Append(r.events, e)]
    BY <1>2, EmitFields
  <2> QED  BY <2>2, <2>3, Zenon
<1>3. Append(r.events, e) \in Seq(BOOLEAN) /\ Append(r.events, e) # <<>>
  BY <1>2
<1>4. t \in PinState
  BY DEF Sound
<1> HIDE DEF PinState
<1> QED  BY <1>1, <1>3, <1>4 DEF Carries, Result

LEMMA SoundReflexive ==
  ASSUME NEW p, NEW s \in PinState PROVE Sound(p, s, s)
BY DEF Sound

LEMMA CarriesTransitive ==
  ASSUME NEW p, NEW r, NEW u, NEW v, Carries(p, r, u), Carries(p, u, v)
  PROVE  Carries(p, r, v)
BY SoundTransitive DEF Carries

LEMMA CheckCarries ==
  ASSUME NEW p, NEW r \in Result
  PROVE  Carries(p, r, CheckInterrupts(r))
<1>1. r.pin \in PinState
  BY DEF Result
<1>2. CASE r.pin.interrupt_enabled /\ ShouldTrigger(r.pin) /\ ~r.pin.interrupt_pending
  <2> DEFINE t == [r.pin EXCEPT !.interrupt_pending = TRUE]
  <2>1. Sound(p, r.pin, t)
    BY <1>1, <1>2, PendingSound
  <2>2. [r EXCEPT !.pin.interrupt_pending = TRUE] = [r EXCEPT !.pin = t]
    BY DEF Result
  <2>3. CheckInterrupts(r) = EmitEvent([r EXCEPT !.pin = t], FALSE)
    BY <1>2, <2>2, Zenon DEF CheckInterrupts
  <2> HIDE DEF t
  <2> QED  BY <2>1, <2>3, EmitCarries
<1>3. CASE ~(r.pin.interrupt_enabled /\ ShouldTrigger(r.pin) /\ ~r.pin.interrupt_pending)
  <2>1. CheckInterrupts(r) = r
    BY <1>3, Zenon DEF CheckInterrupts
  <2> QED  BY <1>1, <2>1, SoundReflexive DEF Carries
<1> QED  BY <1>2, <1>3

LEMMA UpdateCarries ==
  ASSUME NEW p, NEW r \in Result
  PROVE  Carries(p, r, UpdateInput(r))
<1> DEFINE level == InputLevel(r.pin)
           t == [r.pin EXCEPT !.input_level = level]
           low == [r.pin EXCEPT !.input_level = FALSE]
<1>1. r.pin \in PinState
  BY DEF Result
<1>2. level \in BOOLEAN
  BY <1>1, InputLevelType
<1>3. CASE r.pin.mode = "DISABLED"
  <2>1. UpdateInput(r) = [r EXCEPT !.pin = low]
    BY <1>3 DEF UpdateInput, Result
  <2>2. Sound(p, r.pin, low)
    BY <1>1, InputSound
  <2> HIDE DEF low
  <2>3. [r EXCEPT !.pin = low] = [pin |-> low, events |-> r.events]
    BY DEF Result
  <2> QED  BY <2>1, <2>2, <2>3 DEF Carries, Result, Sound
<1>4. CASE r.pin.mode # "DISABLED" /\ (r.pin.connected \/ level = r.pin.input_level)
  <2>1. UpdateInput(r) = r
    BY <1>4 DEF UpdateInput
  <2> QED  BY <1>1, <2>1, SoundReflexive DEF Carries
<1>5. CASE r.pin.mode # "DISABLED" /\ ~(r.pin.connected \/ level = r.pin.input_level)
  <2>1. [r EXCEPT !.pin.input_level = level] = [r EXCEPT !.pin = t]
    BY DEF Result
  <2>2. UpdateInput(r) = CheckInterrupts(EmitEvent([r EXCEPT !.pin = t], level))
    BY <1>5, <2>1 DEF UpdateInput
  <2>3. Sound(p, r.pin, t)
    BY <1>1, <1>2, InputSound
  <2> HIDE DEF t, level
  <2>4. Carries(p, r, EmitEvent([r EXCEPT !.pin = t], level))
    BY <1>2, <2>3, EmitCarries
  <2>5. Carries(p, EmitEvent([r EXCEPT !.pin = t], level), UpdateInput(r))
    BY <2>2, <2>4, CheckCarries DEF Carries
  <2> QED  BY <2>4, <2>5, CarriesTransitive
<1> QED  BY <1>3, <1>4, <1>5

(* A sound result stays sound when the input level is recomputed.            *)
LEMMA CarriedIsSound ==
  ASSUME NEW p, NEW s, NEW r, NEW u, SoundResult(p, s, r), Carries(p, r, u)
  PROVE  SoundResult(p, s, u)
BY DEF SoundResult, Carries, Sound

-----------------------------------------------------------------------------
(* Converters *)

LEMMA AdcSound ==
  ASSUME NEW p, NEW s \in PinState, NEW t \in AdcReadings(s)
  PROVE  Sound(p, s, t)
<1>1. PICK v \in 0 .. 4 : t = [s EXCEPT !.adc_voltage = v]
  BY DEF AdcReadings
<1> QED  BY <1>1, SameIsSound DEF PinState

LEMMA SetAdcSound ==
  ASSUME NEW p, NEW s \in PinState, NEW voltage \in 0 .. 4
  PROVE  Sound(p, s, SetAdcInput(s, voltage))
<1>1. CASE ~s.adc_enabled
  BY <1>1, SoundReflexive DEF SetAdcInput
<1>2. CASE s.adc_enabled
  <2>1. PICK v \in 0 .. 4 : SetAdcInput(s, voltage) = [s EXCEPT !.adc_voltage = v]
    BY <1>2 DEF SetAdcInput
  <2> QED  BY <2>1, SameIsSound DEF PinState
<1> QED  BY <1>1, <1>2

LEMMA DacSound ==
  ASSUME NEW p, NEW s \in PinState
  PROVE  Sound(p, s, UpdateDac(s))
<1>1. PICK high \in BOOLEAN : high = (s.dac_enabled /\ s.dac_value > 127)
  OBVIOUS
<1>2. Sound(p, s, [s EXCEPT !.dac_high = high])
  BY SameIsSound DEF PinState
<1> QED  BY <1>1, <1>2 DEF UpdateDac

LEMMA PwmSound ==
  ASSUME NEW p, NEW s \in PinState
  PROVE  Sound(p, s, UpdatePwm(s))
<1>1. PICK high \in BOOLEAN : high = (s.pwm_enabled /\ s.pwm_duty > 50)
  OBVIOUS
<1>2. Sound(p, s, [s EXCEPT !.pwm_high = high])
  BY SameIsSound DEF PinState
<1> QED  BY <1>1, <1>2 DEF UpdatePwm

-----------------------------------------------------------------------------
(* Configuration *)

LEMMA ConfigureSound ==
  ASSUME NEW p, NEW s \in PinState, NEW c \in Config, NEW r \in ConfigurePin(s, c)
  PROVE  SoundResult(p, s, r)
<1> DEFINE common == [s EXCEPT
        !.mode = c.mode, !.pull_up = c.pull_up, !.pull_down = c.pull_down,
        !.open_drain = c.open_drain, !.interrupt_type = c.interrupt_type,
        !.interrupt_enabled = FALSE, !.interrupt_pending = FALSE,
        !.adc_enabled = (c.mode = "ADC"),
        !.wide_range = IF c.mode = "ADC" THEN c.wide_range ELSE @,
        !.dac_enabled = (c.mode = "DAC"),
        !.dac_value = IF c.mode = "DAC" THEN c.dac_value ELSE @,
        !.pwm_enabled = (c.mode = "PWM"),
        !.pwm_duty = IF c.mode = "PWM" THEN c.pwm_duty ELSE @,
        !.pwm_config = IF c.mode = "PWM" THEN c.pwm_duty ELSE NoConfig,
        !.output_level = @ /\ c.mode \notin InputModes \cup {"ADC"}]
           dac == IF c.mode = "DAC" THEN UpdateDac(common) ELSE common
           pwm == IF c.mode = "PWM" THEN UpdatePwm(dac) ELSE dac
           adc == IF c.mode = "ADC" THEN AdcReadings(pwm) ELSE {pwm}
<1>1. common \in PinState
  <2>1. /\ c.mode \in Modes /\ c.interrupt_type \in Types \cup {"DISABLED"}
        /\ c.pull_up \in BOOLEAN /\ c.pull_down \in BOOLEAN /\ c.open_drain \in BOOLEAN
        /\ c.dac_value \in 0 .. 255 /\ c.pwm_duty \in Duties
        /\ c.wide_range \in BOOLEAN /\ s.wide_range \in BOOLEAN
        /\ s.dac_value \in 0 .. 255 /\ s.pwm_duty \in Duties \cup {0}
    BY DEF Config, PinState
  <2>2. PICK adc1 \in BOOLEAN, dac1 \in BOOLEAN, pwm1 \in BOOLEAN, output \in BOOLEAN :
          /\ adc1 = (c.mode = "ADC") /\ dac1 = (c.mode = "DAC")
          /\ pwm1 = (c.mode = "PWM")
          /\ output = (s.output_level /\ c.mode \notin InputModes \cup {"ADC"})
    OBVIOUS
  <2> DEFINE wide == IF c.mode = "ADC" THEN c.wide_range ELSE s.wide_range
             value == IF c.mode = "DAC" THEN c.dac_value ELSE s.dac_value
             duty == IF c.mode = "PWM" THEN c.pwm_duty ELSE s.pwm_duty
             given == IF c.mode = "PWM" THEN c.pwm_duty ELSE NoConfig
             t1 == [s EXCEPT !.mode = c.mode, !.pull_up = c.pull_up,
                             !.pull_down = c.pull_down, !.open_drain = c.open_drain,
                             !.interrupt_type = c.interrupt_type]
             t2 == [t1 EXCEPT !.interrupt_enabled = FALSE, !.interrupt_pending = FALSE]
             t3 == [t2 EXCEPT !.adc_enabled = adc1, !.wide_range = wide]
             t4 == [t3 EXCEPT !.dac_enabled = dac1, !.dac_value = value,
                              !.pwm_enabled = pwm1]
             t5 == [t4 EXCEPT !.pwm_duty = duty, !.pwm_config = given,
                              !.output_level = output]
  <2>3. /\ wide \in BOOLEAN /\ value \in 0 .. 255
        /\ duty \in Duties \cup {0} /\ given \in Duties \cup {NoConfig}
    BY <2>1
  <2>4. common = t5
    BY <2>2 DEF PinState
  <2> HIDE DEF wide, value, duty, given, common
  <2>5. t1 \in PinState
    BY <2>1, ZenonT(30) DEF PinState
  <2> HIDE DEF t1
  <2>6. t2 \in PinState
    BY <2>5, ZenonT(30) DEF PinState
  <2> HIDE DEF t2
  <2>7. t3 \in PinState
    BY <2>3, <2>6, ZenonT(30) DEF PinState
  <2> HIDE DEF t3
  <2>8. t4 \in PinState
    BY <2>3, <2>7, ZenonT(30) DEF PinState
  <2> HIDE DEF t4
  <2>9. t5 \in PinState
    BY <2>3, <2>8, ZenonT(30) DEF PinState
  <2> QED  BY <2>4, <2>9
<1>2. /\ common.mode = c.mode
      /\ common.interrupt_pending = FALSE
      /\ common.connected = s.connected
      /\ common.output_level = (s.output_level /\ c.mode \notin InputModes \cup {"ADC"})
      /\ common.pwm_enabled = (c.mode = "PWM")
      /\ common.pwm_duty = IF c.mode = "PWM" THEN c.pwm_duty ELSE s.pwm_duty
      /\ common.pwm_config = IF c.mode = "PWM" THEN c.pwm_duty ELSE NoConfig
  BY DEF PinState
<1>3. PICK t \in adc : r = EmitEvent(Done(t), s.mode # "DISABLED")
  BY DEF ConfigurePin
<1> HIDE DEF common
<1>4. Good(p, s) => Good(p, common)
  BY <1>2 DEF Good
<1>5. Sound(p, common, dac)
  BY <1>1, DacSound, SoundReflexive
<1> HIDE DEF dac
<1>6. Sound(p, dac, pwm)
  BY <1>5, PwmSound, SoundReflexive DEF Sound
<1> HIDE DEF pwm
<1>7. Sound(p, pwm, t)
  BY <1>6, AdcSound, SoundReflexive DEF Sound
<1>8. Sound(p, common, t)
  BY <1>5, <1>6, <1>7, SoundTransitive
<1> QED  BY <1>2, <1>3, <1>4, <1>8, SoundEmit DEF Sound

LEMMA ModeSound ==
  ASSUME NEW p, NEW s \in PinState, NEW mode \in Modes, NEW r \in SetPinMode(s, mode)
  PROVE  SoundResult(p, s, r)
<1>1. DefaultConfig(mode) \in Config
  BY GpioAssumption DEF DefaultConfig, Config
<1> QED  BY <1>1, ConfigureSound DEF SetPinMode

LEMMA SoundThenResult ==
  ASSUME NEW p, NEW s, NEW t, NEW r, Sound(p, s, t), SoundResult(p, t, r)
  PROVE  SoundResult(p, s, r)
BY DEF Sound, SoundResult

LEMMA FlagSound ==
  ASSUME NEW p, NEW s \in PinState, NEW enable \in BOOLEAN,
         NEW plain \in Modes, NEW flagged \in Modes,
         NEW r \in SetFlag(s, enable, plain, flagged)
  PROVE  SoundResult(p, s, r)
<1> DEFINE results == IF enable /\ s.mode = plain THEN SetPinMode(s, flagged)
                      ELSE IF ~enable /\ s.mode = flagged THEN SetPinMode(s, plain)
                      ELSE {Done(s)}
<1>1. PICK before \in results : r = UpdateInput(before)
  BY DEF SetFlag
<1>2. SoundResult(p, s, before)
  BY ModeSound, SoundDone, SoundReflexive
<1>3. Carries(p, before, r)
  BY <1>1, <1>2, UpdateCarries DEF SoundResult
<1> QED  BY <1>2, <1>3, CarriedIsSound

LEMMA PullsSound ==
  ASSUME NEW p, NEW s \in PinState, NEW enable \in BOOLEAN,
         NEW r \in SetPullUp(s, enable) \cup SetPullDown(s, enable) \cup SetOpenDrain(s, enable)
  PROVE  SoundResult(p, s, r)
<1> DEFINE up == [s EXCEPT !.pull_up = enable]
           down == [s EXCEPT !.pull_down = enable]
           drain == [s EXCEPT !.open_drain = enable]
<1>1. Sound(p, s, up) /\ Sound(p, s, down) /\ Sound(p, s, drain)
  <2>1. Sound(p, s, up)
    BY SameIsSound DEF PinState
  <2>2. Sound(p, s, down)
    BY SameIsSound DEF PinState
  <2>3. Sound(p, s, drain)
    BY SameIsSound DEF PinState
  <2> QED  BY <2>1, <2>2, <2>3
<1>2. {"INPUT", "INPUT_PULLUP", "INPUT_PULLDOWN", "OUTPUT", "OUTPUT_OD"} \subseteq Modes
  BY DEF Modes, InputModes
<1>3. \/ r \in SetFlag(up, enable, "INPUT", "INPUT_PULLUP")
      \/ r \in SetFlag(down, enable, "INPUT", "INPUT_PULLDOWN")
      \/ r \in SetFlag(drain, enable, "OUTPUT", "OUTPUT_OD")
  BY DEF SetPullUp, SetPullDown, SetOpenDrain
<1> HIDE DEF up, down, drain
<1>4. SoundResult(p, up, r) \/ SoundResult(p, down, r) \/ SoundResult(p, drain, r)
  BY <1>1, <1>2, <1>3, FlagSound DEF Sound
<1> QED  BY <1>1, <1>4, SoundThenResult

LEMMA OutputSound ==
  ASSUME NEW p, NEW s \in PinState, NEW level \in BOOLEAN, CanDrive(p, s)
  PROVE  SoundResult(p, s, SetOutputLevel(s, level))
<1> DEFINE t == [s EXCEPT !.output_level = level]
           read == UpdateInput(Done(t))
<1>1. t \in PinState
  BY DEF PinState
<1>2. /\ t.output_level = level /\ t.mode = s.mode
      /\ t.interrupt_enabled = s.interrupt_enabled
      /\ t.interrupt_pending = s.interrupt_pending
      /\ t.pwm_config = s.pwm_config /\ t.pwm_enabled = s.pwm_enabled
      /\ t.pwm_duty = s.pwm_duty /\ t.connected = s.connected
  BY DEF PinState
<1> HIDE DEF t
<1>3. Good(p, s) => Good(p, t)
  BY <1>2, Zenon DEF Good, CanDrive
<1>4. Done(t) \in Result /\ Done(t).pin = t /\ Done(t).events = <<>>
  BY <1>1 DEF Done, Result
<1>5. Carries(p, Done(t), read)
  BY <1>4, UpdateCarries
<1> HIDE DEF read
<1>6. /\ read \in Result /\ Sound(p, t, read.pin)
  BY <1>4, <1>5 DEF Carries
<1>7. CASE s.output_level = level
  <2>1. SetOutputLevel(s, level) = read
    BY <1>7 DEF SetOutputLevel, read, t
  <2> QED  BY <1>2, <1>3, <1>6, <1>7, <2>1 DEF SoundResult, Sound
<1>8. CASE s.output_level # level
  <2> DEFINE told == EmitEvent(read, level)
  <2>1. SetOutputLevel(s, level) = CheckInterrupts(told)
    BY <1>8 DEF SetOutputLevel, read, t
  <2>2. [read EXCEPT !.pin = read.pin] = read
    BY <1>6 DEF Result
  <2>3. read.pin \in PinState
    BY <1>6 DEF Result
  <2>4. Carries(p, read, told)
    BY <1>6, <2>2, <2>3, SoundReflexive, EmitCarries
  <2>5. told.events # <<>>
    <3>1. read.events \in Seq(BOOLEAN) /\ read = [pin |-> read.pin, events |-> read.events]
      BY <1>6 DEF Result
    <3>2. told = [pin |-> read.pin, events |-> Append(read.events, level)]
      BY <3>1, EmitFields
    <3> QED  BY <3>1, <3>2
  <2>6. Carries(p, told, SetOutputLevel(s, level))
    BY <2>1, <2>4, CheckCarries DEF Carries
  <2> HIDE DEF told
  <2>7. Sound(p, read.pin, SetOutputLevel(s, level).pin)
    BY <2>4, <2>6, SoundTransitive DEF Carries
  <2>8. Sound(p, t, SetOutputLevel(s, level).pin)
    BY <1>6, <2>7, SoundTransitive
  <2> QED  BY <1>2, <1>3, <2>5, <2>6, <2>8 DEF Carries, Sound, SoundResult
<1> QED  BY <1>7, <1>8

-----------------------------------------------------------------------------
(* Interrupt control, and functions beside the mode *)

LEMMA InterruptSound ==
  ASSUME NEW p, NEW s \in PinState, NEW type \in Types \cup {"DISABLED"},
         NEW enable \in BOOLEAN,
         NEW t \in {ConfigureInterrupt(s, type, enable), EnableInterrupt(s),
                    DisableInterrupt(s), ClearPending(s)}
  PROVE  Sound(p, s, t)
<1>1. PICK kind \in Types \cup {"DISABLED"}, enabled \in BOOLEAN, pending \in BOOLEAN :
        /\ t = [s EXCEPT !.interrupt_type = kind, !.interrupt_enabled = enabled,
                         !.interrupt_pending = pending]
        /\ (s.interrupt_pending => s.interrupt_enabled) => (pending => enabled)
  <2>1. CASE t = ConfigureInterrupt(s, type, enable)
    BY <2>1 DEF ConfigureInterrupt
  <2>2. CASE t = EnableInterrupt(s)
    <3>1. t = [s EXCEPT !.interrupt_type = s.interrupt_type, !.interrupt_enabled = TRUE,
                        !.interrupt_pending = s.interrupt_pending]
      BY <2>2 DEF EnableInterrupt, PinState
    <3>2. s.interrupt_type \in Types \cup {"DISABLED"} /\ s.interrupt_pending \in BOOLEAN
      BY DEF PinState
    <3> QED  BY <3>1, <3>2
  <2>3. CASE t = DisableInterrupt(s)
    <3>1. t = [s EXCEPT !.interrupt_type = s.interrupt_type, !.interrupt_enabled = FALSE,
                        !.interrupt_pending = FALSE]
      BY <2>3 DEF DisableInterrupt, PinState
    <3>2. s.interrupt_type \in Types \cup {"DISABLED"}
      BY DEF PinState
    <3> QED  BY <3>1, <3>2
  <2>4. CASE t = ClearPending(s)
    <3>1. t = [s EXCEPT !.interrupt_type = s.interrupt_type,
                        !.interrupt_enabled = s.interrupt_enabled,
                        !.interrupt_pending = FALSE]
      BY <2>4 DEF ClearPending, PinState
    <3>2. s.interrupt_type \in Types \cup {"DISABLED"} /\ s.interrupt_enabled \in BOOLEAN
      BY DEF PinState
    <3> QED  BY <3>1, <3>2
  <2> QED  BY <2>1, <2>2, <2>3, <2>4
<1>2. t \in PinState
  <2> DEFINE u == [s EXCEPT !.interrupt_type = kind]
             v == [u EXCEPT !.interrupt_enabled = enabled]
  <2>1. u \in PinState
    BY DEF PinState
  <2>2. t = [v EXCEPT !.interrupt_pending = pending]
    BY <1>1
  <2> HIDE DEF u
  <2>3. v \in PinState
    BY <2>1 DEF PinState
  <2> HIDE DEF v
  <2> QED  BY <2>2, <2>3 DEF PinState
<1>3. /\ t.output_level = s.output_level /\ t.mode = s.mode
      /\ t.interrupt_enabled = enabled /\ t.interrupt_pending = pending
      /\ t.pwm_config = s.pwm_config /\ t.pwm_enabled = s.pwm_enabled
      /\ t.pwm_duty = s.pwm_duty /\ t.connected = s.connected
  BY <1>1 DEF PinState
<1>4. Good(p, s) => Good(p, t)
  BY <1>1, <1>3, Zenon DEF Good
<1> QED  BY <1>2, <1>3, <1>4 DEF Sound

LEMMA EnableAdcSound ==
  ASSUME NEW p, NEW s \in PinState, NEW wide \in BOOLEAN, NEW t \in EnableAdc(s, wide)
  PROVE  Sound(p, s, t)
<1> DEFINE on == [s EXCEPT !.adc_enabled = TRUE, !.wide_range = wide]
<1>1. Sound(p, s, on)
  <2> DEFINE enabled == [s EXCEPT !.adc_enabled = TRUE]
  <2>1. ASSUME NEW b \in BOOLEAN PROVE Sound(p, s, [s EXCEPT !.adc_enabled = b])
    BY SameIsSound DEF PinState
  <2>2. Sound(p, s, enabled)
    BY <2>1
  <2>3. on = [enabled EXCEPT !.wide_range = wide]
    OBVIOUS
  <2> HIDE DEF enabled
  <2>4. enabled \in PinState
    BY <2>2 DEF Sound
  <2>5. Sound(p, enabled, [enabled EXCEPT !.wide_range = wide])
    BY <2>4, SameIsSound DEF PinState
  <2> QED  BY <2>2, <2>3, <2>5, SoundTransitive
<1>2. t \in AdcReadings(on)
  BY DEF EnableAdc
<1> HIDE DEF on
<1>3. Sound(p, on, t)
  BY <1>1, <1>2, AdcSound DEF Sound
<1> QED  BY <1>1, <1>3, SoundTransitive

LEMMA DisableConverterSound ==
  ASSUME NEW p, NEW s \in PinState, NEW t \in {DisableAdc(s), DisableDac(s)}
  PROVE  Sound(p, s, t)
<1>1. ASSUME NEW on \in BOOLEAN PROVE Sound(p, s, [s EXCEPT !.adc_enabled = on])
  BY SameIsSound DEF PinState
<1>2. ASSUME NEW on \in BOOLEAN PROVE Sound(p, s, [s EXCEPT !.dac_enabled = on])
  BY SameIsSound DEF PinState
<1> QED  BY <1>1, <1>2 DEF DisableAdc, DisableDac

LEMMA ReadAdcSound ==
  ASSUME NEW p, NEW s \in PinState, NEW r \in ReadAdc(s)
  PROVE  SoundResult(p, s, r)
<1>1. PICK t \in AdcReadings(s) : r = EmitEvent(Done(t), TRUE)
  BY DEF ReadAdc
<1>2. Sound(p, s, t)
  BY AdcSound
<1> QED  BY <1>1, <1>2, SoundEmit DEF Sound

LEMMA EnableDacSound ==
  ASSUME NEW p, NEW s \in PinState
  PROVE  Sound(p, s, EnableDac(s))
<1> DEFINE on == [s EXCEPT !.dac_enabled = TRUE]
<1>1. Sound(p, s, on)
  <2>1. ASSUME NEW b \in BOOLEAN PROVE Sound(p, s, [s EXCEPT !.dac_enabled = b])
    BY SameIsSound DEF PinState
  <2> QED  BY <2>1
<1>2. EnableDac(s) = UpdateDac(on)
  BY DEF EnableDac
<1> HIDE DEF on
<1> QED  BY <1>1, <1>2, DacSound, SoundTransitive DEF Sound

LEMMA WriteDacSound ==
  ASSUME NEW p, NEW s \in PinState, NEW value \in 0 .. 255
  PROVE  SoundResult(p, s, WriteDac(s, value))
<1> DEFINE written == [s EXCEPT !.dac_value = value]
           t == UpdateDac(written)
<1>1. Sound(p, s, written)
  BY SameIsSound DEF PinState
<1>2. WriteDac(s, value) \in {Done(t), EmitEvent(Done(t), value # 0)}
  BY DEF WriteDac
<1> HIDE DEF written
<1>3. Sound(p, s, t)
  BY <1>1, DacSound, SoundTransitive DEF Sound
<1> HIDE DEF t
<1> QED  BY <1>2, <1>3, SoundDone, SoundEmit DEF Sound

LEMMA EnablePwmSound ==
  ASSUME NEW p, NEW s \in PinState, NEW duty \in Duties
  PROVE  Sound(p, s, EnablePwm(s, duty))
<1> DEFINE on == [s EXCEPT !.pwm_enabled = TRUE, !.pwm_duty = duty, !.pwm_config = duty]
<1>1. on \in PinState
  BY DEF PinState
<1>2. /\ on.output_level = s.output_level /\ on.mode = s.mode
      /\ on.interrupt_enabled = s.interrupt_enabled
      /\ on.interrupt_pending = s.interrupt_pending
      /\ on.pwm_config = duty /\ on.pwm_enabled = TRUE
      /\ on.pwm_duty = duty /\ on.connected = s.connected
  BY DEF PinState
<1>3. EnablePwm(s, duty) = UpdatePwm(on)
  BY DEF EnablePwm
<1> HIDE DEF on
<1>4. Sound(p, s, on)
  <2>1. Good(p, s) => Good(p, on)
    BY <1>2, Zenon DEF Good
  <2> QED  BY <1>1, <1>2, <2>1 DEF Sound
<1> QED  BY <1>1, <1>3, <1>4, PwmSound, SoundTransitive

LEMMA DisablePwmSound ==
  ASSUME NEW p, NEW s \in PinState
  PROVE  Sound(p, s, DisablePwm(s))
<1> DEFINE off == [s EXCEPT !.pwm_enabled = FALSE, !.pwm_config = NoConfig]
<1>1. off \in PinState
  BY ZenonT(30) DEF PinState
<1>2. /\ off.output_level = s.output_level /\ off.mode = s.mode
      /\ off.interrupt_enabled = s.interrupt_enabled
      /\ off.interrupt_pending = s.interrupt_pending
      /\ off.pwm_config = NoConfig /\ off.pwm_enabled = FALSE
      /\ off.connected = s.connected
  BY DEF PinState
<1>3. DisablePwm(s) = off
  BY DEF DisablePwm
<1> HIDE DEF off
<1>4. Good(p, s) => Good(p, off)
  BY <1>2, Zenon DEF Good
<1> QED  BY <1>1, <1>2, <1>3, <1>4 DEF Sound

LEMMA DutySound ==
  ASSUME NEW p, NEW s \in PinState, NEW duty \in Duties
  PROVE  SoundResult(p, s, SetPwmDuty(s, duty))
<1> DEFINE given == IF s.pwm_config = NoConfig THEN NoConfig ELSE duty
           set == [s EXCEPT !.pwm_duty = duty, !.pwm_config = given]
           t == UpdatePwm(set)
<1>1. set \in PinState
  <2>1. given \in Duties \cup {NoConfig}
    OBVIOUS
  <2> HIDE DEF given
  <2> QED  BY <2>1 DEF PinState
<1>2. /\ set.output_level = s.output_level /\ set.mode = s.mode
      /\ set.interrupt_enabled = s.interrupt_enabled
      /\ set.interrupt_pending = s.interrupt_pending
      /\ set.pwm_config = given /\ set.pwm_enabled = s.pwm_enabled
      /\ set.pwm_duty = duty /\ set.connected = s.connected
  BY DEF PinState
<1>3. SetPwmDuty(s, duty) \in {Done(t), EmitEvent(Done(t), duty # 0)}
  BY DEF SetPwmDuty, PinState
<1> HIDE DEF set
<1>4. s.pwm_duty # NoConfig
  BY GpioAssumption DEF PinState, NoConfig
<1>5. Good(p, s) => Good(p, set)
  BY <1>2, <1>4 DEF Good
<1>6. Sound(p, set, t)
  BY <1>1, PwmSound
<1>7. Sound(p, s, t)
  BY <1>1, <1>2, <1>5, <1>6 DEF Sound
<1> HIDE DEF t
<1> QED  BY <1>3, <1>7, SoundDone, SoundEmit DEF Sound

(* Connecting and disconnecting a component change the connection alone.     *)
LEMMA ConnectionSound ==
  ASSUME NEW p, NEW s \in PinState, NEW on \in BOOLEAN, NEW r,
         r = UpdateInput(Done([s EXCEPT !.connected = on]))
  PROVE  /\ r \in Result
         /\ Good(p, s) => Good(p, r.pin)
         /\ r.pin.connected = on
         /\ r.pin.output_level = s.output_level
<1> DEFINE t == [s EXCEPT !.connected = on]
<1>1. t \in PinState
  BY DEF PinState
<1>2. /\ t.output_level = s.output_level /\ t.mode = s.mode
      /\ t.interrupt_enabled = s.interrupt_enabled
      /\ t.interrupt_pending = s.interrupt_pending
      /\ t.pwm_config = s.pwm_config /\ t.pwm_enabled = s.pwm_enabled
      /\ t.pwm_duty = s.pwm_duty /\ t.connected = on
  BY DEF PinState
<1> HIDE DEF t
<1>3. Good(p, s) => Good(p, t)
  BY <1>2, Zenon DEF Good
<1>4. Done(t) \in Result /\ Done(t).pin = t
  BY <1>1 DEF Done, Result
<1>5. Carries(p, Done(t), r)
  BY <1>4, UpdateCarries DEF t
<1> QED  BY <1>2, <1>3, <1>4, <1>5 DEF Carries, Sound

-----------------------------------------------------------------------------
(* The window *)

LEMMA ResetGood ==
  ASSUME NEW p PROVE ResetPin \in PinState /\ Good(p, ResetPin) /\ ~ResetPin.connected
<1>1. ResetPin \in PinState
  BY DEF ResetPin, PinState, Modes
<1>2. Good(p, ResetPin) /\ ~ResetPin.connected
  BY DEF ResetPin, Good
<1> QED  BY <1>1, <1>2

LEMMA FedSound ==
  ASSUME NEW p, NEW s \in PinState, NEW kind, NEW voltage \in 0 .. 4
  PROVE  Sound(p, s, FedBy(kind, s, voltage))
BY SetAdcSound, SoundReflexive DEF FedBy

LEMMA ShownType ==
  ASSUME NEW s \in PinState, NEW kind, NEW before \in BOOLEAN
  PROVE  ShownBy(kind, s, before) \in BOOLEAN
<1>1. s.output_level \in BOOLEAN /\ s.input_level \in BOOLEAN
  BY DEF PinState
<1> QED  BY <1>1, Zenon DEF ShownBy

(* What a step does to the channels of the logic analyzer and to the history *)
(* of its events.                                                            *)
Recorded ==
  \/ UNCHANGED <<wave, recent>>
  \/ wave' = [p \in Pins |-> <<>>] /\ recent' = [p \in Pins |-> <<>>]
  \/ \E p \in Pins, events \in Seq(BOOLEAN) :
       /\ wave' = [wave EXCEPT ![p] = AddPoints(@, events)]
       /\ recent' = [recent EXCEPT ![p] = Latest(@ \o events, MaxPoints)]

LEMMA DeliverRecords ==
  ASSUME NEW p \in Pins, NEW r \in Result, Deliver(p, r)
  PROVE  Recorded
<1>1. r.events \in Seq(BOOLEAN)
  BY DEF Result
<1>2. \/ UNCHANGED <<wave, recent>>
      \/ /\ wave' = [wave EXCEPT ![p] = AddPoints(@, r.events)]
         /\ recent' = [recent EXCEPT ![p] = Latest(@ \o r.events, MaxPoints)]
  BY DEF Deliver
<1> QED  BY <1>1, <1>2, Zenon DEF Recorded

(* What the callbacks of one operation on pin p leave: its pin as the        *)
(* operation returned it but for a potentiometer's voltage, an LED on it     *)
(* showing it if there was an event, and every other pin as it was.          *)
LEMMA DeliverStep ==
  ASSUME BenchTypeOK, NEW p \in Pins, NEW r \in Result, Deliver(p, r)
  PROVE  /\ pins' \in [Pins -> PinState]
         /\ shows' \in [Pins -> BOOLEAN]
         /\ Sound(p, r.pin, pins'[p])
         /\ \A q \in Pins \ {p} : pins'[q] = pins[q] /\ shows'[q] = shows[q]
         /\ placed[p] = "LED" =>
              shows'[p] = IF r.events = <<>> THEN shows[p] ELSE pins'[p].output_level
<1> DEFINE pin == IF r.events = <<>> THEN r.pin ELSE FedBy(placed[p], r.pin, slider[p])
           shown == IF r.events = <<>> THEN shows[p] ELSE ShownBy(placed[p], r.pin, shows[p])
<1>1. pins' = [pins EXCEPT ![p] = pin] /\ shows' = [shows EXCEPT ![p] = shown]
  BY DEF Deliver
<1>2. r.pin \in PinState /\ slider[p] \in 0 .. 4 /\ shows[p] \in BOOLEAN
  BY DEF Result, BenchTypeOK
<1>3. Sound(p, r.pin, pin)
  BY <1>2, FedSound, SoundReflexive
<1>4. shown \in BOOLEAN
  BY <1>2, ShownType
<1>5. placed[p] = "LED" => shown = IF r.events = <<>> THEN shows[p] ELSE pin.output_level
  BY DEF ShownBy, FedBy
<1> HIDE DEF pin, shown
<1>6. pin \in PinState
  BY <1>3 DEF Sound
<1> HIDE DEF PinState
<1> QED  BY <1>1, <1>3, <1>4, <1>5, <1>6 DEF BenchTypeOK

BenchInv ==
  /\ BenchTypeOK
  /\ \A p \in Pins : Good(p, pins[p])
  /\ ConnectedIsPlaced

(* What every step but the reset keeps. *)
Kept ==
  /\ BenchInv'
  /\ \A q \in Pins : LedIsTrue(q) => LedIsTrue(q)'
  /\ Recorded

(* An operation on a pin by a client that places and removes nothing.        *)
LEMMA OperateStep ==
  ASSUME BenchInv, NEW p \in Pins, NEW r, SoundResult(p, pins[p], r), Deliver(p, r),
         UNCHANGED <<placed, slider, capturing, board>>,
         held' \in [Pins -> BOOLEAN]
  PROVE  Kept
<1>1. r \in Result /\ Good(p, r.pin) /\ r.pin.connected = pins[p].connected
  BY DEF BenchInv, SoundResult
<1>2. /\ pins' \in [Pins -> PinState] /\ shows' \in [Pins -> BOOLEAN]
      /\ Sound(p, r.pin, pins'[p])
      /\ \A q \in Pins \ {p} : pins'[q] = pins[q] /\ shows'[q] = shows[q]
      /\ placed[p] = "LED" =>
           shows'[p] = IF r.events = <<>> THEN shows[p] ELSE pins'[p].output_level
  BY <1>1, DeliverStep DEF BenchInv
<1>3. BenchTypeOK'
  BY <1>2 DEF BenchTypeOK, BenchInv
<1>4. \A q \in Pins : Good(q, pins'[q])
  BY <1>1, <1>2 DEF Sound, BenchInv
<1>5. ConnectedIsPlaced'
  BY <1>1, <1>2 DEF Sound, BenchInv, ConnectedIsPlaced
<1>6. ASSUME NEW q \in Pins, LedIsTrue(q) PROVE LedIsTrue(q)'
  BY <1>1, <1>2, <1>6 DEF LedIsTrue, Sound, SoundResult
<1>7. Recorded
  BY <1>1, DeliverRecords
<1> QED  BY <1>3, <1>4, <1>5, <1>6, <1>7 DEF BenchInv, Kept

(* The operations of GpioModel on a pin of the board. *)
LEMMA PinStep ==
  ASSUME BenchInv, NEW p \in Pins,
         Reconfigure(p) \/ Drive(p) \/ ControlInterrupt(p) \/ UseAdc(p) \/ UseDac(p) \/ UsePwm(p)
  PROVE  Kept
<1> DEFINE s == pins[p]
<1>1. s \in PinState
  BY DEF BenchInv, BenchTypeOK
<1>2. ASSUME NEW results, Operate(p, results), \A r \in results : SoundResult(p, s, r)
      PROVE  Kept
  <2>1. PICK r \in results : Deliver(p, r)
    BY <1>2 DEF Operate
  <2>2. UNCHANGED <<placed, slider, held, capturing, board>>
    BY <1>2 DEF Operate
  <2>3. held' \in [Pins -> BOOLEAN]
    BY <2>2 DEF BenchInv, BenchTypeOK
  <2> QED  BY <1>2, <2>1, <2>2, <2>3, OperateStep
<1>3. ASSUME NEW t, Change(p, t), Sound(p, s, t)
      PROVE  Kept
  BY <1>2, <1>3, SoundDone DEF Change
<1>4. CASE Reconfigure(p)
  <2>1. ASSUME NEW c \in PinConfigs, Operate(p, ConfigurePin(s, c)) PROVE Kept
    <3>1. c \in Config
      BY BenchAssumption
    <3> QED  BY <1>1, <1>2, <2>1, <3>1, ConfigureSound
  <2>2. ASSUME NEW mode \in ModesTried, Operate(p, SetPinMode(s, mode)) PROVE Kept
    <3>1. mode \in Modes
      BY BenchAssumption
    <3> QED  BY <1>1, <1>2, <2>2, <3>1, ModeSound
  <2>3. ASSUME NEW enable \in BOOLEAN,
               \/ Operate(p, SetPullUp(s, enable))
               \/ Operate(p, SetPullDown(s, enable))
               \/ Operate(p, SetOpenDrain(s, enable))
        PROVE Kept
    BY <1>1, <1>2, <2>3, PullsSound
  <2> QED  BY <1>4, <2>1, <2>2, <2>3 DEF Reconfigure
<1>5. CASE Drive(p)
  <2>1. PICK level \in BOOLEAN : CanDrive(p, s) /\ Operate(p, {SetOutputLevel(s, level)})
    BY <1>5 DEF Drive
  <2> QED  BY <1>1, <1>2, <2>1, OutputSound
<1>6. CASE ControlInterrupt(p)
  <2>1. ASSUME NEW t, Change(p, t), NEW type \in Types \cup {"DISABLED"},
               NEW enable \in BOOLEAN,
               t \in {ConfigureInterrupt(s, type, enable), EnableInterrupt(s),
                      DisableInterrupt(s), ClearPending(s)}
        PROVE Kept
    BY <1>1, <1>3, <2>1, InterruptSound
  <2>2. ASSUME NEW type \in Types, NEW enable \in BOOLEAN,
               Change(p, ConfigureInterrupt(s, type, enable))
        PROVE Kept
    BY <2>1, <2>2
  <2>3. ASSUME NEW t \in {EnableInterrupt(s), DisableInterrupt(s), ClearPending(s)},
               Change(p, t)
        PROVE Kept
    <3>1. "DISABLED" \in Types \cup {"DISABLED"} /\ TRUE \in BOOLEAN
      OBVIOUS
    <3>2. t \in {ConfigureInterrupt(s, "DISABLED", TRUE), EnableInterrupt(s),
                 DisableInterrupt(s), ClearPending(s)}
      BY <2>3
    <3> QED  BY <2>1, <2>3, <3>1, <3>2
  <2> QED  BY <1>6, <2>2, <2>3 DEF ControlInterrupt
<1>7. CASE UseAdc(p)
  <2>1. ASSUME NEW wide \in BOOLEAN, NEW t \in EnableAdc(s, wide), Change(p, t)
        PROVE Kept
    BY <1>1, <1>3, <2>1, EnableAdcSound
  <2>2. CASE Change(p, DisableAdc(s))
    BY <1>1, <1>3, <2>2, DisableConverterSound
  <2>3. CASE Operate(p, ReadAdc(s))
    BY <1>1, <1>2, <2>3, ReadAdcSound
  <2> QED  BY <1>7, <2>1, <2>2, <2>3 DEF UseAdc
<1>8. CASE UseDac(p)
  <2>1. CASE Change(p, EnableDac(s))
    BY <1>1, <1>3, <2>1, EnableDacSound
  <2>2. CASE Change(p, DisableDac(s))
    BY <1>1, <1>3, <2>2, DisableConverterSound
  <2>3. ASSUME NEW value \in DacValues, Operate(p, {WriteDac(s, value)})
        PROVE Kept
    <3>1. value \in 0 .. 255
      BY BenchAssumption
    <3> QED  BY <1>1, <1>2, <2>3, <3>1, WriteDacSound
  <2> QED  BY <1>8, <2>1, <2>2, <2>3 DEF UseDac
<1>9. CASE UsePwm(p)
  <2>1. ASSUME NEW duty \in Duties, Change(p, EnablePwm(s, duty))
        PROVE Kept
    BY <1>1, <1>3, <2>1, EnablePwmSound
  <2>2. CASE Change(p, DisablePwm(s))
    BY <1>1, <1>3, <2>2, DisablePwmSound
  <2>3. ASSUME NEW duty \in Duties, Operate(p, {SetPwmDuty(s, duty)})
        PROVE Kept
    BY <1>1, <1>2, <2>3, DutySound
  <2> QED  BY <1>9, <2>1, <2>2, <2>3 DEF UsePwm
<1> QED  BY <1>4, <1>5, <1>6, <1>7, <1>8, <1>9

-----------------------------------------------------------------------------
(* The workspace *)

LEMMA AddStep ==
  ASSUME BenchInv, NEW p \in Pins, NEW kind \in Kinds, AddComponent(p, kind)
  PROVE  Kept
<1> DEFINE fed == FedBy(kind, pins[p], 3)
           r == ConnectComponent(fed)
           shown == ShownBy(kind, pins[p], FALSE)
<1>1. pins[p] \in PinState /\ Good(p, pins[p])
  BY DEF BenchInv, BenchTypeOK
<1>2. Sound(p, pins[p], fed)
  BY <1>1, FedSound
<1> HIDE DEF fed
<1>3. fed \in PinState /\ Good(p, fed)
  BY <1>1, <1>2 DEF Sound
<1>4. r = UpdateInput(Done([fed EXCEPT !.connected = TRUE]))
  BY DEF ConnectComponent
<1>5. r \in Result /\ Good(p, r.pin) /\ r.pin.output_level = fed.output_level
  BY <1>3, <1>4, ConnectionSound
<1> HIDE DEF r
<1>6. shown \in BOOLEAN /\ (kind = "LED" => shown = pins[p].output_level)
  BY <1>1, ShownType DEF ShownBy
<1> HIDE DEF shown
<1>7. /\ pins' = [pins EXCEPT ![p] = r.pin]
      /\ shows' = [shows EXCEPT ![p] = shown]
      /\ placed' = [placed EXCEPT ![p] = kind]
      /\ slider' = [slider EXCEPT ![p] = 3]
      /\ held' = [held EXCEPT ![p] = FALSE]
      /\ UNCHANGED <<capturing, board>>
  BY DEF AddComponent, r, fed, shown
<1>8. r.pin \in PinState
  BY <1>5 DEF Result
<1> HIDE DEF PinState
<1>9. BenchTypeOK'
  BY <1>6, <1>7, <1>8 DEF BenchTypeOK, BenchInv
<1>10. \A q \in Pins : Good(q, pins'[q])
  BY <1>5, <1>7 DEF BenchTypeOK, BenchInv
<1>11. ConnectedIsPlaced'
  BY <1>7 DEF BenchTypeOK, BenchInv, ConnectedIsPlaced, Kinds
<1>12. \A q \in Pins : LedIsTrue(q) => LedIsTrue(q)'
  BY <1>2, <1>5, <1>6, <1>7 DEF BenchTypeOK, BenchInv, LedIsTrue, Sound
<1>13. Recorded
  BY Zenon DEF AddComponent, Recorded
<1> QED  BY <1>9, <1>10, <1>11, <1>12, <1>13 DEF BenchInv, Kept

LEMMA RemoveStep ==
  ASSUME BenchInv, NEW p \in Pins, RemoveComponent(p)
  PROVE  Kept
<1> DEFINE r == DisconnectComponent(pins[p])
<1>1. pins[p] \in PinState /\ Good(p, pins[p])
  BY DEF BenchInv, BenchTypeOK
<1>2. r \in Result /\ Good(p, r.pin) /\ r.pin.connected = FALSE
  <2>1. r = UpdateInput(Done([pins[p] EXCEPT !.connected = FALSE]))
    BY DEF DisconnectComponent
  <2> HIDE DEF r
  <2> QED  BY <1>1, <2>1, ConnectionSound
<1>3. /\ Deliver(p, r) /\ placed' = [placed EXCEPT ![p] = "none"]
      /\ held' = [held EXCEPT ![p] = FALSE]
      /\ UNCHANGED <<slider, capturing, board>>
  BY DEF RemoveComponent
<1> HIDE DEF r
<1>4. /\ pins' \in [Pins -> PinState] /\ shows' \in [Pins -> BOOLEAN]
      /\ Sound(p, r.pin, pins'[p])
      /\ \A q \in Pins \ {p} : pins'[q] = pins[q] /\ shows'[q] = shows[q]
  BY <1>2, <1>3, DeliverStep DEF BenchInv
<1> HIDE DEF PinState
<1>5. BenchTypeOK'
  BY <1>3, <1>4 DEF BenchTypeOK, BenchInv
<1>6. \A q \in Pins : Good(q, pins'[q])
  BY <1>2, <1>4 DEF Sound, BenchInv
<1>7. pins'[p].connected = FALSE
  BY <1>2, <1>4 DEF Sound
<1>8. ConnectedIsPlaced'
  BY <1>3, <1>4, <1>7 DEF BenchInv, BenchTypeOK, ConnectedIsPlaced
<1>9. \A q \in Pins : LedIsTrue(q) => LedIsTrue(q)'
  BY <1>3, <1>4 DEF BenchTypeOK, BenchInv, LedIsTrue
<1>10. Recorded
  BY <1>2, <1>3, DeliverRecords
<1> QED  BY <1>5, <1>6, <1>8, <1>9, <1>10 DEF BenchInv, Kept

LEMMA JoinedRecord ==
  ASSUME NEW s, NEW first \in Seq(BOOLEAN), NEW second \in Seq(BOOLEAN)
  PROVE  [[pin |-> s, events |-> second] EXCEPT !.events = first \o @]
            = [pin |-> s, events |-> first \o second]
<1> DEFINE r == [pin |-> s, events |-> second]
<1>1. ASSUME NEW v PROVE [r EXCEPT !.events = v] = [pin |-> s, events |-> v]
  OBVIOUS
<1>2. r.events = second
  OBVIOUS
<1>3. [r EXCEPT !.events = first \o @] = [r EXCEPT !.events = first \o r.events]
  OBVIOUS
<1> HIDE DEF r
<1>4. [r EXCEPT !.events = first \o r.events] = [pin |-> s, events |-> first \o second]
  BY <1>1, <1>2, Zenon
<1>5. [r EXCEPT !.events = first \o @] = [pin |-> s, events |-> first \o second]
  BY <1>3, <1>4, Zenon
<1> QED  BY <1>5 DEF r

LEMMA JoinedEvents ==
  ASSUME NEW first \in Seq(BOOLEAN), NEW second \in Seq(BOOLEAN)
  PROVE  /\ first \o second \in Seq(BOOLEAN)
         /\ first \o second = <<>> => first = <<>> /\ second = <<>>
<1>1. first \o second \in Seq(BOOLEAN)
  OBVIOUS
<1>2. first \o second = <<>> => first = <<>> /\ second = <<>>
  OBVIOUS
<1> QED  BY <1>1, <1>2

LEMMA ButtonStep ==
  ASSUME BenchInv, NEW p \in Pins, PressButton(p) \/ ReleaseButton(p)
  PROVE  Kept
<1> DEFINE s == pins[p]
<1>1. s \in PinState /\ placed \in [Pins -> Kinds \cup {"none"}] /\ held \in [Pins -> BOOLEAN]
  BY DEF BenchInv, BenchTypeOK
<1>2. CASE PressButton(p)
  <2> DEFINE r == IF CanDrive(p, s) THEN SetOutputLevel(s, FALSE) ELSE Done(s)
  <2>1. SoundResult(p, s, r)
    BY <1>1, OutputSound, SoundDone, SoundReflexive
  <2>2. /\ Deliver(p, r) /\ held' = [held EXCEPT ![p] = TRUE]
        /\ UNCHANGED <<placed, slider, capturing, board>>
    BY <1>2 DEF PressButton
  <2> HIDE DEF r
  <2> QED  BY <1>1, <2>1, <2>2, OperateStep
<1>3. CASE ReleaseButton(p)
  <2>1. PICK pulled \in SetPullUp(s, TRUE) :
          \E moded \in SetPinMode(pulled.pin, "INPUT_PULLUP") :
            Deliver(p, [moded EXCEPT !.events = pulled.events \o @])
    BY <1>3 DEF ReleaseButton
  <2>2. PICK moded \in SetPinMode(pulled.pin, "INPUT_PULLUP") :
          Deliver(p, [moded EXCEPT !.events = pulled.events \o @])
    BY <2>1
  <2> DEFINE r == [moded EXCEPT !.events = pulled.events \o @]
  <2>3. SoundResult(p, s, pulled)
    BY <1>1, PullsSound
  <2>4. pulled.pin \in PinState /\ pulled.events \in Seq(BOOLEAN)
    BY <2>3 DEF SoundResult, Result
  <2>5. SoundResult(p, pulled.pin, moded)
    <3>1. "INPUT_PULLUP" \in Modes
      BY DEF Modes, InputModes
    <3> QED  BY <2>4, <3>1, ModeSound
  <2>6. moded.pin \in PinState /\ moded.events \in Seq(BOOLEAN)
    BY <2>5 DEF SoundResult, Result
  <2>7. r = [pin |-> moded.pin, events |-> pulled.events \o moded.events]
    <3>1. moded = [pin |-> moded.pin, events |-> moded.events]
      BY <2>5 DEF SoundResult, Result
    <3>2. [[pin |-> moded.pin, events |-> moded.events]
              EXCEPT !.events = pulled.events \o @]
            = [pin |-> moded.pin, events |-> pulled.events \o moded.events]
      BY <2>4, <2>6, JoinedRecord
    <3> QED  BY <3>1, <3>2, Zenon
  <2>8. r \in Result
    BY <2>4, <2>6, <2>7, JoinedEvents DEF Result
  <2>9. r.events = <<>> => pulled.events = <<>> /\ moded.events = <<>>
    BY <2>4, <2>6, <2>7, JoinedEvents
  <2>10. SoundResult(p, s, r)
    BY <2>3, <2>5, <2>6, <2>8, <2>9 DEF SoundResult
  <2>11. /\ Deliver(p, r) /\ held' = [held EXCEPT ![p] = FALSE]
         /\ UNCHANGED <<placed, slider, capturing, board>>
    BY <1>3, <2>2 DEF ReleaseButton
  <2> HIDE DEF r
  <2> QED  BY <1>1, <2>10, <2>11, OperateStep
<1> QED  BY <1>2, <1>3

LEMMA SliderStep ==
  ASSUME BenchInv, NEW p \in Pins, NEW voltage \in SliderValues, MoveSlider(p, voltage)
  PROVE  Kept
<1> DEFINE t == SetAdcInput(pins[p], voltage)
<1>1. voltage \in 0 .. 4
  BY BenchAssumption
<1>2. Sound(p, pins[p], t)
  BY <1>1, SetAdcSound DEF BenchInv, BenchTypeOK
<1>3. /\ pins' = [pins EXCEPT ![p] = t] /\ slider' = [slider EXCEPT ![p] = voltage]
      /\ UNCHANGED <<placed, shows, held, capturing, board>>
  BY DEF MoveSlider
<1> HIDE DEF t
<1>4. t \in PinState
  BY <1>2 DEF Sound
<1> HIDE DEF PinState
<1>5. BenchTypeOK'
  BY <1>1, <1>3, <1>4 DEF BenchTypeOK, BenchInv
<1>6. \A q \in Pins : Good(q, pins'[q])
  BY <1>2, <1>3 DEF BenchTypeOK, BenchInv, Sound
<1>7. ConnectedIsPlaced'
  BY <1>2, <1>3 DEF BenchTypeOK, BenchInv, ConnectedIsPlaced, Sound
<1>8. \A q \in Pins : LedIsTrue(q) => LedIsTrue(q)'
  BY <1>2, <1>3 DEF BenchTypeOK, BenchInv, LedIsTrue, Sound
<1>9. Recorded
  BY Zenon DEF MoveSlider, Recorded
<1> QED  BY <1>5, <1>6, <1>7, <1>8, <1>9 DEF BenchInv, Kept

LEMMA RefreshStep ==
  ASSUME BenchInv, Refresh
  PROVE  Kept
<1>1. \A q \in Pins : Sound(q, pins[q], pins'[q])
  BY FedSound DEF Refresh, BenchInv, BenchTypeOK
<1>2. \A q \in Pins : shows'[q] \in BOOLEAN
  BY ShownType DEF Refresh, BenchInv, BenchTypeOK
<1>3. \A q \in Pins : placed[q] = "LED" => shows'[q] = pins[q].output_level
  BY DEF Refresh, ShownBy
<1>4. \A q \in Pins : pins'[q] \in PinState
  BY <1>1 DEF Sound
<1> HIDE DEF PinState
<1>5. pins' \in [Pins -> PinState] /\ shows' \in [Pins -> BOOLEAN]
  BY <1>2, <1>4 DEF Refresh
<1>6. BenchTypeOK'
  BY <1>5 DEF BenchTypeOK, BenchInv, Refresh
<1>7. \A q \in Pins : Good(q, pins'[q])
  BY <1>1 DEF BenchInv, Sound
<1>8. ConnectedIsPlaced'
  BY <1>1 DEF BenchInv, ConnectedIsPlaced, Sound, Refresh
<1>9. \A q \in Pins : LedIsTrue(q)'
  BY <1>1, <1>3 DEF LedIsTrue, Sound, Refresh
<1>10. Recorded
  BY Zenon DEF Refresh, Recorded
<1> QED  BY <1>6, <1>7, <1>8, <1>9, <1>10 DEF BenchInv, Kept

(* Steps of the logic analyzer, and the steps that change nothing.           *)
LEMMA CaptureStep ==
  ASSUME BenchInv, UNCHANGED <<pins, placed, shows, slider, held, board>>,
         capturing' \in BOOLEAN, Recorded
  PROVE  Kept
BY DEF BenchInv, BenchTypeOK, Good, ConnectedIsPlaced, LedIsTrue, Kept

LEMMA ResetStep ==
  ASSUME BenchInv, ResetSimulation
  PROVE  BenchInv'
<1>1. \A q \in Pins : pins'[q] \in PinState /\ Good(q, pins'[q]) /\ ~pins'[q].connected
  BY ResetGood DEF ResetSimulation
<1> HIDE DEF PinState
<1>2. BenchTypeOK'
  BY <1>1 DEF ResetSimulation, BenchTypeOK, BenchInv
<1> QED  BY <1>1, <1>2 DEF BenchInv, ConnectedIsPlaced

(* BenchInv is inductive, and only the reset disturbs an LED.                *)
LEMMA BenchStep ==
  ASSUME BenchInv, [BenchNext]_benchVars
  PROVE  BenchInv' /\ (Kept \/ ResetSimulation)
<1>1. CASE UNCHANGED benchVars
  BY <1>1, CaptureStep DEF benchVars, BenchInv, BenchTypeOK, Kept, Recorded
<1>2. ASSUME NEW p \in board.pins, NEW kind \in Kinds, AddComponent(p, kind) PROVE Kept
  BY <1>2, AddStep, BenchAssumption DEF BenchInv, BenchTypeOK
<1>3. board.pins \subseteq Pins
  BY BenchAssumption DEF BenchInv, BenchTypeOK
<1>4. ASSUME NEW p \in board.pins,
             \/ Reconfigure(p) \/ Drive(p) \/ ControlInterrupt(p)
             \/ UseAdc(p) \/ UseDac(p) \/ UsePwm(p)
      PROVE  Kept
  BY <1>3, <1>4, PinStep
<1>5. ASSUME NEW p \in board.pins, RemoveComponent(p) PROVE Kept
  BY <1>3, <1>5, RemoveStep
<1>6. ASSUME NEW p \in board.pins, PressButton(p) \/ ReleaseButton(p) PROVE Kept
  BY <1>3, <1>6, ButtonStep
<1>7. ASSUME NEW p \in board.pins, NEW voltage \in SliderValues, MoveSlider(p, voltage)
      PROVE  Kept
  BY <1>3, <1>7, SliderStep
<1>8. CASE Refresh
  BY <1>8, RefreshStep DEF Kept
<1>9. CASE StartCapture \/ StopCapture \/ ClearCapture
  <2>1. UNCHANGED <<pins, placed, shows, slider, held, board>> /\ capturing' \in BOOLEAN
    BY <1>9 DEF StartCapture, StopCapture, ClearCapture, ClearData, BenchInv, BenchTypeOK
  <2>2. Recorded
    BY <1>9 DEF StartCapture, StopCapture, ClearCapture, ClearData, Recorded
  <2> QED  BY <2>1, <2>2, CaptureStep DEF Kept
<1>10. CASE ResetSimulation
  BY <1>10, ResetStep
<1>11. Kept => BenchInv'
  BY DEF Kept
<1> QED
  BY <1>1, <1>2, <1>4, <1>5, <1>6, <1>7, <1>8, <1>9, <1>10, <1>11 DEF BenchNext

LEMMA BenchInvariance == BenchSpec => []BenchInv
<1>1. BenchInit => BenchInv
  <2> SUFFICES ASSUME BenchInit PROVE BenchInv
    OBVIOUS
  <2>1. \A p \in Pins : pins[p] \in PinState /\ Good(p, pins[p]) /\ ~pins[p].connected
    BY ResetGood DEF BenchInit
  <2> HIDE DEF PinState
  <2>2. pins \in [Pins -> PinState] /\ board \in Boards
    BY <2>1 DEF BenchInit
  <2>3. placed \in [Pins -> Kinds \cup {"none"}] /\ slider \in [Pins -> 0 .. 4]
    BY DEF BenchInit
  <2>4. shows \in [Pins -> BOOLEAN] /\ held \in [Pins -> BOOLEAN] /\ capturing \in BOOLEAN
    BY Zenon DEF BenchInit
  <2>5. BenchTypeOK
    BY <2>2, <2>3, <2>4 DEF BenchTypeOK
  <2> QED  BY <2>1, <2>5 DEF BenchInv, ConnectedIsPlaced
<1>2. BenchInv /\ [BenchNext]_benchVars => BenchInv'
  BY BenchStep
<1> QED  BY <1>1, <1>2, PTL DEF BenchSpec

-----------------------------------------------------------------------------
(* The logic analyzer *)

(* The channel w holds the latest of the first m events of all, without a gap,
   and few of them are missing. *)
EndsAt(w, all, m) ==
  /\ w \in Seq(BOOLEAN)
  /\ Len(w) <= MaxPoints /\ Len(w) <= m
  /\ \A i \in 1 .. Len(w) : w[i] = all[m - Len(w) + i]
  /\ Len(w) < m => Len(w) > MaxPoints - DroppedPoints

LEMMA AddPointEnds ==
  ASSUME NEW all \in Seq(BOOLEAN), NEW m \in 0 .. Len(all) - 1, NEW w, EndsAt(w, all, m)
  PROVE  EndsAt(AddPoint(w, all[m + 1]), all, m + 1)
<1> DEFINE longer == Append(w, all[m + 1])
<1>1. /\ MaxPoints \in Nat /\ DroppedPoints \in Nat
      /\ 1 <= DroppedPoints /\ DroppedPoints <= MaxPoints
  BY BenchAssumption
<1>2. w \in Seq(BOOLEAN) /\ Len(w) <= MaxPoints /\ Len(w) <= m /\ all[m + 1] \in BOOLEAN
  BY DEF EndsAt
<1>3. /\ longer \in Seq(BOOLEAN) /\ Len(longer) = Len(w) + 1
      /\ \A i \in 1 .. Len(w) + 1 : longer[i] = all[m - Len(w) + i]
  <2>1. longer \in Seq(BOOLEAN) /\ Len(longer) = Len(w) + 1
    BY <1>2
  <2>2. ASSUME NEW i \in 1 .. Len(w) PROVE longer[i] = all[m - Len(w) + i]
    BY <1>2 DEF EndsAt
  <2>3. longer[Len(w) + 1] = all[m - Len(w) + Len(w) + 1]
    BY <1>2
  <2> QED  BY <1>2, <2>1, <2>2, <2>3
<1> HIDE DEF longer
<1>4. CASE Len(w) + 1 <= MaxPoints
  <2>1. AddPoint(w, all[m + 1]) = longer
    BY <1>1, <1>2, <1>3, <1>4 DEF AddPoint, longer
  <2>2. \A i \in 1 .. Len(longer) : longer[i] = all[m + 1 - Len(longer) + i]
    BY <1>2, <1>3
  <2>3. Len(longer) < m + 1 => Len(longer) > MaxPoints - DroppedPoints
    BY <1>1, <1>2, <1>3 DEF EndsAt
  <2>4. Len(longer) <= MaxPoints /\ Len(longer) <= m + 1
    BY <1>1, <1>2, <1>3, <1>4
  <2> QED  BY <1>3, <2>1, <2>2, <2>3, <2>4 DEF EndsAt
<1>5. CASE Len(w) + 1 > MaxPoints
  <2> DEFINE kept == SubSeq(longer, DroppedPoints + 1, Len(longer))
  <2>1. AddPoint(w, all[m + 1]) = kept
    BY <1>1, <1>2, <1>3, <1>5 DEF AddPoint, longer
  <2>2. Len(w) = MaxPoints
    BY <1>1, <1>2, <1>5
  <2>3. kept \in Seq(BOOLEAN) /\ Len(kept) = MaxPoints + 1 - DroppedPoints
    BY <1>1, <1>3, <2>2
  <2>4. \A i \in 1 .. Len(kept) : kept[i] = longer[DroppedPoints + i]
    BY <1>1, <1>3, <2>2, <2>3
  <2> HIDE DEF kept
  <2>5. ASSUME NEW i \in 1 .. Len(kept) PROVE kept[i] = all[m + 1 - Len(kept) + i]
    <3>1. kept[i] = longer[DroppedPoints + i]
      BY <2>4
    <3>2. DroppedPoints + i \in 1 .. Len(w) + 1
      BY <1>1, <2>2, <2>3
    <3>3. longer[DroppedPoints + i] = all[m - Len(w) + (DroppedPoints + i)]
      BY <1>3, <3>2
    <3>4. m - Len(w) + (DroppedPoints + i) = m + 1 - Len(kept) + i
      <4>1. m \in Nat /\ i \in Nat
        BY <2>3
      <4> QED  BY <1>1, <2>2, <2>3, <4>1
    <3> QED  BY <3>1, <3>3, <3>4
  <2>6. Len(kept) <= MaxPoints /\ Len(kept) <= m + 1 /\ Len(kept) > MaxPoints - DroppedPoints
    BY <1>1, <1>2, <2>2, <2>3
  <2> QED  BY <2>1, <2>3, <2>5, <2>6 DEF EndsAt
<1> QED  BY <1>1, <1>2, <1>4, <1>5

(* The recursion of AddPoints stops at the number of its events.             *)
LEMMA PointsAdded ==
  ASSUME NEW w \in Seq(BOOLEAN), NEW events \in Seq(BOOLEAN)
  PROVE  \E after \in [0 .. Len(events) -> Seq(BOOLEAN)] :
           /\ after[0] = w
           /\ \A n \in 1 .. Len(events) : after[n] = AddPoint(after[n - 1], events[n])
           /\ AddPoints(w, events) = after[Len(events)]
<1> DEFINE N == Len(events)
           X == Seq(BOOLEAN)
           step == [n \in 1 .. N |-> [x \in X |-> AddPoint(x, events[n])]]
           Equation(f) == f = [n \in 0 .. N |-> IF n = 0 THEN w
                                               ELSE AddPoint(f[n - 1], events[n])]
           after == CHOOSE f : Equation(f)
<1>1. N \in Nat
  OBVIOUS
<1>2. step \in [1 .. N -> [X -> X]]
  <2> SUFFICES ASSUME NEW n \in 1 .. N, NEW x \in X PROVE AddPoint(x, events[n]) \in X
    OBVIOUS
  <2>1. events[n] \in BOOLEAN
    OBVIOUS
  <2>2. Append(x, events[n]) \in X
    BY <2>1
  <2>3. DroppedPoints + 1 \in Nat \ {0}
    BY BenchAssumption
  <2>4. ASSUME NEW y \in X PROVE SubSeq(y, DroppedPoints + 1, Len(y)) \in X
    <3>1. \A i \in DroppedPoints + 1 .. Len(y) : i \in 1 .. Len(y)
      BY <2>3
    <3> QED  BY <2>3, <3>1
  <2> QED  BY <2>2, <2>4 DEF AddPoint
<1>3. \A n \in 1 .. N, x \in X : step[n][x] = AddPoint(x, events[n])
  OBVIOUS
<1> HIDE DEF step, N
<1>4. PICK f : Follows(f, N, X, w, step)
  BY <1>1, <1>2, Recursion
<1>5. Equation(f)
  <2>1. f \in [0 .. N -> X] /\ f[0] = w
    BY <1>4 DEF Follows
  <2>2. ASSUME NEW n \in 1 .. N PROVE f[n] = AddPoint(f[n - 1], events[n])
    <3>1. f[n - 1] \in X
      BY <1>1, <2>1
    <3> QED  BY <1>3, <1>4, <3>1 DEF Follows
  <2>3. \A n \in 0 .. N : f[n] = IF n = 0 THEN w ELSE AddPoint(f[n - 1], events[n])
    BY <1>1, <2>1, <2>2
  <2> QED  BY <2>1, <2>3
<1>6. Equation(after)
  BY <1>5, Zenon
<1>7. AddPoints(w, events) = after[N]
  BY DEF AddPoints, N
<1> HIDE DEF after
<1>8. after[0] = w /\ \A n \in 1 .. N : after[n] = AddPoint(after[n - 1], events[n])
  BY <1>1, <1>6
<1>9. after \in [0 .. N -> X]
  <2> DEFINE typed == {n \in 0 .. N : after[n] \in X}
  <2>1. 0 \in typed
    BY <1>1, <1>8
  <2>2. ASSUME NEW n \in 0 .. N - 1, n \in typed PROVE n + 1 \in typed
    <3>1. n + 1 \in 1 .. N /\ n + 1 - 1 = n
      BY <1>1
    <3>2. after[n + 1] = step[n + 1][after[n]]
      BY <1>3, <1>8, <2>2, <3>1
    <3> QED  BY <1>1, <1>2, <2>2, <3>1, <3>2
  <2> HIDE DEF typed
  <2>3. \A n \in 0 .. N : n \in typed
    BY <1>1, <2>1, <2>2, UpTo, Zenon
  <2>4. \A n \in 0 .. N : after[n] \in X
    BY <2>3 DEF typed
  <2>5. after = [n \in 0 .. N |-> after[n]]
    BY <1>6
  <2> QED  BY <2>4, <2>5
<1> QED  BY <1>7, <1>8, <1>9 DEF N

LEMMA AddPointsEnds ==
  ASSUME NEW w, NEW r \in Seq(BOOLEAN), NEW events \in Seq(BOOLEAN), EndsAt(w, r, Len(r))
  PROVE  EndsAt(AddPoints(w, events), r \o events, Len(r \o events))
<1> DEFINE N == Len(events)
           all == r \o events
<1>1. w \in Seq(BOOLEAN)
  BY DEF EndsAt
<1>2. PICK after \in [0 .. N -> Seq(BOOLEAN)] :
        /\ after[0] = w
        /\ \A n \in 1 .. N : after[n] = AddPoint(after[n - 1], events[n])
        /\ AddPoints(w, events) = after[N]
  BY <1>1, PointsAdded
<1>3. /\ all \in Seq(BOOLEAN) /\ Len(all) = Len(r) + N /\ N \in Nat /\ Len(r) \in Nat
      /\ \A i \in 1 .. Len(r) : all[i] = r[i]
      /\ \A i \in 1 .. N : all[Len(r) + i] = events[i]
  OBVIOUS
<1> HIDE DEF all, N
<1> DEFINE fine == {n \in 0 .. N : EndsAt(after[n], all, Len(r) + n)}
<1>4. 0 \in fine
  <2>1. \A i \in 1 .. Len(w) : w[i] = all[Len(r) - Len(w) + i]
    <3> SUFFICES ASSUME NEW i \in 1 .. Len(w) PROVE w[i] = all[Len(r) - Len(w) + i]
      OBVIOUS
    <3>1. Len(r) - Len(w) + i \in 1 .. Len(r)
      BY <1>1, <1>3 DEF EndsAt
    <3> QED  BY <1>3, <3>1 DEF EndsAt
  <2>2. EndsAt(w, all, Len(r))
    BY <2>1 DEF EndsAt
  <2> QED  BY <1>2, <1>3, <2>2
<1>5. ASSUME NEW n \in 0 .. N - 1, n \in fine PROVE n + 1 \in fine
  <2>1. Len(r) + n \in 0 .. Len(all) - 1 /\ n + 1 \in 1 .. N /\ (Len(r) + n) + 1 = Len(r) + (n + 1)
    BY <1>3, SMTT(20)
  <2>2. EndsAt(AddPoint(after[n], all[(Len(r) + n) + 1]), all, (Len(r) + n) + 1)
    BY <1>3, <1>5, <2>1, AddPointEnds
  <2>3. after[n + 1] = AddPoint(after[n], all[(Len(r) + n) + 1])
    <3>1. n + 1 - 1 = n
      OBVIOUS
    <3>2. after[n + 1] = AddPoint(after[n], events[n + 1])
      BY <1>2, <2>1, <3>1
    <3>3. all[(Len(r) + n) + 1] = events[n + 1]
      BY <1>3, <2>1, SMTT(20)
    <3> QED  BY <3>2, <3>3
  <2> QED  BY <2>1, <2>2, <2>3
<1>6. \A n \in 0 .. N : n \in fine
  <2> HIDE DEF fine
  <2> QED  BY <1>3, <1>4, <1>5, UpTo, Zenon
<1> QED  BY <1>2, <1>3, <1>6 DEF all

(* The end of a sequence is the end of the latest of its elements.           *)
LEMMA LatestEnds ==
  ASSUME NEW all \in Seq(BOOLEAN), NEW w, EndsAt(w, all, Len(all))
  PROVE  /\ Latest(all, MaxPoints) \in Seq(BOOLEAN)
         /\ EndsAt(w, Latest(all, MaxPoints), Len(Latest(all, MaxPoints)))
<1> DEFINE r == Latest(all, MaxPoints)
<1>1. MaxPoints \in Nat /\ w \in Seq(BOOLEAN) /\ Len(w) <= MaxPoints /\ Len(w) <= Len(all)
  BY BenchAssumption DEF EndsAt
<1>2. /\ r \in Seq(BOOLEAN)
      /\ Len(r) = IF Len(all) <= MaxPoints THEN Len(all) ELSE MaxPoints
      /\ \A i \in 1 .. Len(r) : r[i] = all[Len(all) - Len(r) + i]
  <2>1. CASE Len(all) <= MaxPoints
    BY <1>1, <2>1 DEF Latest
  <2>2. CASE Len(all) > MaxPoints
    <3> DEFINE end == SubSeq(all, Len(all) - MaxPoints + 1, Len(all))
    <3>1. r = end
      BY <1>1, <2>2 DEF Latest
    <3>2. end \in Seq(BOOLEAN) /\ Len(end) = MaxPoints
      BY <1>1, <2>2
    <3>3. \A i \in 1 .. MaxPoints : end[i] = all[Len(all) - MaxPoints + i]
      BY <1>1, <2>2
    <3> HIDE DEF end, r
    <3> QED  BY <1>1, <2>2, <3>1, <3>2, <3>3
  <2> QED  BY <1>1, <2>1, <2>2
<1> HIDE DEF r
<1>3. ASSUME NEW i \in 1 .. Len(w) PROVE w[i] = r[Len(r) - Len(w) + i]
  <2>1. Len(r) - Len(w) + i \in 1 .. Len(r)
    BY <1>1, <1>2
  <2>2. r[Len(r) - Len(w) + i] = all[Len(all) - Len(r) + (Len(r) - Len(w) + i)]
    BY <1>2, <2>1
  <2>3. Len(all) - Len(r) + (Len(r) - Len(w) + i) = Len(all) - Len(w) + i
    <3>1. Len(all) \in Nat /\ Len(r) \in Nat /\ Len(w) \in Nat
      BY <1>1, <1>2
    <3> QED  BY <3>1
  <2> QED  BY <2>2, <2>3 DEF EndsAt
<1>4. Len(w) < Len(r) => Len(w) > MaxPoints - DroppedPoints
  BY <1>1, <1>2 DEF EndsAt
<1>5. Len(w) <= Len(r)
  BY <1>1, <1>2
<1>6. r \in Seq(BOOLEAN) /\ EndsAt(w, r, Len(r))
  BY <1>1, <1>2, <1>3, <1>4, <1>5 DEF EndsAt
<1> QED  BY <1>6 DEF r

ChannelsEnd ==
  /\ wave \in [Pins -> Seq(BOOLEAN)] /\ recent \in [Pins -> Seq(BOOLEAN)]
  /\ \A p \in Pins : EndsAt(wave[p], recent[p], Len(recent[p]))

LEMMA ChannelsStep ==
  ASSUME ChannelsEnd, Recorded
  PROVE  ChannelsEnd'
<1>1. CASE UNCHANGED <<wave, recent>>
  BY <1>1 DEF ChannelsEnd, EndsAt
<1>2. CASE wave' = [p \in Pins |-> <<>>] /\ recent' = [p \in Pins |-> <<>>]
  <2>1. EndsAt(<<>>, <<>>, Len(<<>>))
    BY BenchAssumption DEF EndsAt
  <2>2. <<>> \in Seq(BOOLEAN)
    OBVIOUS
  <2>3. \A p \in Pins : wave'[p] = <<>> /\ recent'[p] = <<>>
    BY <1>2
  <2>4. wave' \in [Pins -> Seq(BOOLEAN)] /\ recent' \in [Pins -> Seq(BOOLEAN)]
    BY <1>2, <2>2
  <2> QED  BY <2>1, <2>3, <2>4 DEF ChannelsEnd
<1>3. ASSUME NEW p \in Pins, NEW events \in Seq(BOOLEAN),
             wave' = [wave EXCEPT ![p] = AddPoints(@, events)],
             recent' = [recent EXCEPT ![p] = Latest(@ \o events, MaxPoints)]
      PROVE  ChannelsEnd'
  <2> DEFINE w == AddPoints(wave[p], events)
             r == Latest(recent[p] \o events, MaxPoints)
  <2>1. recent[p] \in Seq(BOOLEAN) /\ EndsAt(wave[p], recent[p], Len(recent[p]))
    BY DEF ChannelsEnd
  <2>2. EndsAt(w, recent[p] \o events, Len(recent[p] \o events))
    BY <2>1, AddPointsEnds
  <2>3. recent[p] \o events \in Seq(BOOLEAN)
    BY <2>1
  <2>4. r \in Seq(BOOLEAN) /\ EndsAt(w, r, Len(r))
    BY <2>2, <2>3, LatestEnds
  <2>5. wave' = [wave EXCEPT ![p] = w] /\ recent' = [recent EXCEPT ![p] = r]
    BY <1>3
  <2>6. w \in Seq(BOOLEAN)
    BY <2>4 DEF EndsAt
  <2> HIDE DEF w, r
  <2>7. wave' \in [Pins -> Seq(BOOLEAN)] /\ recent' \in [Pins -> Seq(BOOLEAN)]
    BY <2>4, <2>5, <2>6 DEF ChannelsEnd
  <2>8. ASSUME NEW q \in Pins PROVE EndsAt(wave'[q], recent'[q], Len(recent'[q]))
    <3>1. CASE q = p
      BY <2>4, <2>5, <3>1 DEF ChannelsEnd
    <3>2. CASE q # p
      <4>1. wave'[q] = wave[q] /\ recent'[q] = recent[q]
        BY <2>5, <3>2 DEF ChannelsEnd
      <4> QED  BY <4>1 DEF ChannelsEnd
    <3> QED  BY <3>1, <3>2
  <2> QED  BY <2>7, <2>8 DEF ChannelsEnd
<1> QED  BY <1>1, <1>2, <1>3 DEF Recorded

LEMMA ChannelsInvariance == BenchSpec => []ChannelsEnd
<1>1. BenchInit => ChannelsEnd
  <2> SUFFICES ASSUME BenchInit PROVE ChannelsEnd
    OBVIOUS
  <2>1. EndsAt(<<>>, <<>>, Len(<<>>))
    BY BenchAssumption DEF EndsAt
  <2>2. wave = [p \in Pins |-> <<>>] /\ recent = [p \in Pins |-> <<>>]
    BY DEF BenchInit
  <2>3. <<>> \in Seq(BOOLEAN)
    OBVIOUS
  <2> QED  BY <2>1, <2>2, <2>3 DEF ChannelsEnd
<1>2. BenchInv /\ ChannelsEnd /\ [BenchNext]_benchVars => ChannelsEnd'
  <2> SUFFICES ASSUME BenchInv, ChannelsEnd, [BenchNext]_benchVars PROVE ChannelsEnd'
    OBVIOUS
  <2>1. Recorded
    BY BenchStep DEF Kept, ResetSimulation, Recorded
  <2> QED  BY <2>1, ChannelsStep
<1> QED  BY <1>1, <1>2, BenchInvariance, PTL DEF BenchSpec

LEMMA EndsAtLatest ==
  ASSUME NEW r \in Seq(BOOLEAN), NEW w, EndsAt(w, r, Len(r))
  PROVE  w = Latest(r, Len(w))
<1>1. /\ w \in Seq(BOOLEAN) /\ Len(w) <= Len(r) /\ Len(w) \in Nat /\ Len(r) \in Nat
      /\ \A i \in 1 .. Len(w) : w[i] = r[Len(r) - Len(w) + i]
  BY DEF EndsAt
<1>2. CASE Len(r) = Len(w)
  <2>1. \A i \in 1 .. Len(w) : w[i] = r[i]
    BY <1>1, <1>2
  <2>2. w = r
    BY <1>1, <1>2, <2>1
  <2> QED  BY <1>1, <1>2, <2>2 DEF Latest
<1>3. CASE Len(r) > Len(w)
  <2> DEFINE end == SubSeq(r, Len(r) - Len(w) + 1, Len(r))
  <2>1. end \in Seq(BOOLEAN) /\ Len(end) = Len(w)
    BY <1>1, <1>3
  <2>2. \A i \in 1 .. Len(w) : end[i] = r[Len(r) - Len(w) + i]
    BY <1>1, <1>3
  <2>3. Latest(r, Len(w)) = end
    BY <1>1, <1>3 DEF Latest
  <2> HIDE DEF end
  <2> QED  BY <1>1, <2>1, <2>2, <2>3
<1> QED  BY <1>1, <1>2, <1>3

-----------------------------------------------------------------------------
(* Pins, components and sliders keep their types under every operation.      *)
THEOREM BenchTypes == BenchSpec => []BenchTypeOK
<1>1. BenchInv => BenchTypeOK
  BY DEF BenchInv
<1> QED  BY <1>1, BenchInvariance, PTL

(* No sequence of modes, flags and writes leaves an input driving a level.   *)
THEOREM Inputs == BenchSpec => []InputsDriveNothing
<1>1. BenchInv => InputsDriveNothing
  BY DEF BenchInv, Good, InputsDriveNothing
<1> QED  BY <1>1, BenchInvariance, PTL

(* Disabling, configuring and resetting forget what was pending.             *)
THEOREM Pending == BenchSpec => []PendingIsEnabled
<1>1. BenchInv => PendingIsEnabled
  BY DEF BenchInv, Good, PendingIsEnabled
<1> QED  BY <1>1, BenchInvariance, PTL

(* Both places that keep a PWM's duty cycle agree on it.                     *)
THEOREM PwmCopies == BenchSpec => []PwmCopiesAgree
<1>1. BenchInv => PwmCopiesAgree
  BY DEF BenchInv, Good, PwmCopiesAgree
<1> QED  BY <1>1, BenchInvariance, PTL

(* No pin is left to a component that has been removed.                      *)
THEOREM Connected == BenchSpec => []ConnectedIsPlaced
<1>1. BenchInv => ConnectedIsPlaced
  BY DEF BenchInv
<1> QED  BY <1>1, BenchInvariance, PTL

(* Every operation that changes an output tells the LED on it.               *)
THEOREM LedsFollow == BenchSpec => LedFollowsPin
<1>1. BenchInv /\ [BenchNext]_benchVars =>
        [\A p \in Pins : LedIsTrue(p) => LedIsTrue(p)' \/ ResetSimulation]_benchVars
  BY BenchStep DEF Kept
<1> QED  BY <1>1, BenchInvariance, PTL DEF BenchSpec, LedFollowsPin

(* However many events an operation emits and wherever the oldest points are *)
(* dropped between them, a channel is the end of its pin's events.           *)
THEOREM WaveformsAreRecent == BenchSpec => []WaveformIsRecent
<1>1. ChannelsEnd => WaveformIsRecent
  <2> SUFFICES ASSUME ChannelsEnd, NEW p \in Pins
               PROVE  /\ wave[p] = Latest(recent[p], Len(wave[p]))
                      /\ Len(wave[p]) < Len(recent[p])
                           => Len(wave[p]) > MaxPoints - DroppedPoints
    BY DEF WaveformIsRecent
  <2>1. recent[p] \in Seq(BOOLEAN) /\ EndsAt(wave[p], recent[p], Len(recent[p]))
    BY DEF ChannelsEnd
  <2> QED  BY <2>1, EndsAtLatest DEF EndsAt
<1> QED  BY <1>1, ChannelsInvariance, PTL

-----------------------------------------------------------------------------
(* EventScheduler: first the heap of libstdc++, for any heap and any event,   *)
(* then the queue and its originals, under whatever the host and the          *)
(* callbacks do, as long as no callback schedules an event that goes ahead of *)
(* the one that runs.                                                         *)

(* Greater is a strict weak order. *)
LEMMA Order ==
  ASSUME NEW a \in Event, NEW b \in Event, NEW c \in Event
  PROVE  /\ ~Greater(a, b) /\ ~Greater(b, c) => ~Greater(a, c)
         /\ Greater(a, b) => ~Greater(b, a)
         /\ ~Greater(a, a)
BY DEF Greater, Event

LEMMA Half ==
  ASSUME NEW i \in Nat, i > 1
  PROVE  i \div 2 \in 1 .. i - 1
OBVIOUS

LEMMA Twice ==
  ASSUME NEW i \in Nat, NEW k \in Nat, k > 0
  PROVE  i \div 2 = k <=> i = 2 * k \/ i = 2 * k + 1
OBVIOUS

IsHeap(h) == \A i \in 2 .. Len(h) : ~Greater(h[i \div 2], h[i])

(* The top of a heap comes before everything in it. *)
LEMMA TopIsFirst ==
  ASSUME NEW h \in Seq(Event), IsHeap(h), NEW i \in 1 .. Len(h)
  PROVE  ~Greater(h[1], h[i])
<1> DEFINE late == {k \in 1 .. Len(h) : Greater(h[1], h[k])}
<1> SUFFICES ASSUME late # {} PROVE FALSE
  OBVIOUS
<1>1. PICK k \in late : \A j \in late : k <= j
  <2>1. late \in SUBSET Nat
    OBVIOUS
  <2> HIDE DEF late
  <2> QED  BY <2>1, LeastNumber
<1>2. k \in 1 .. Len(h) /\ h[k] \in Event /\ h[1] \in Event
  OBVIOUS
<1>3. k # 1
  BY <1>2, Order
<1>4. k \div 2 \in 1 .. k - 1
  BY <1>2, <1>3, Half
<1>5. k \div 2 \in 1 .. Len(h) /\ h[k \div 2] \in Event
  BY <1>2, <1>4
<1>6. ~Greater(h[1], h[k \div 2])
  BY <1>1, <1>4, <1>5
<1>7. ~Greater(h[k \div 2], h[k])
  BY <1>2, <1>3 DEF IsHeap
<1> QED  BY <1>1, <1>2, <1>5, <1>6, <1>7, Order

(* The elements of g are those of h whose places are in S, each once.        *)
Draws(p, g, h, S) ==
  /\ p \in [1 .. Len(g) -> S]
  /\ \A i, j \in 1 .. Len(g) : p[i] = p[j] => i = j
  /\ \A k \in S : \E i \in 1 .. Len(g) : p[i] = k
  /\ \A i \in 1 .. Len(g) : g[i] = h[p[i]]

Drawn(g, h, S) == \E p : Draws(p, g, h, S)

LEMMA SwapDrawn ==
  ASSUME NEW g \in Seq(Event), NEW g2 \in Seq(Event), Len(g2) = Len(g),
         NEW h, NEW S, Drawn(g, h, S),
         NEW a \in 1 .. Len(g), NEW b \in 1 .. Len(g), a # b,
         g2[a] = g[b], g2[b] = g[a], \A i \in 1 .. Len(g) \ {a, b} : g2[i] = g[i]
  PROVE  Drawn(g2, h, S)
<1>1. PICK p : Draws(p, g, h, S)
  BY DEF Drawn
<1> DEFINE N == 1 .. Len(g)
           q == [i \in N |-> IF i = a THEN p[b] ELSE IF i = b THEN p[a] ELSE p[i]]
<1>2. /\ p \in [N -> S] /\ \A i, j \in N : p[i] = p[j] => i = j
      /\ \A k \in S : \E i \in N : p[i] = k
      /\ \A i \in N : g[i] = h[p[i]]
  BY <1>1 DEF Draws
<1>3. N = 1 .. Len(g2)
  OBVIOUS
<1>4. q \in [N -> S] /\ q[a] = p[b] /\ q[b] = p[a] /\ \A i \in N \ {a, b} : q[i] = p[i]
  BY <1>2
<1> HIDE DEF q, N
<1>5. a \in N /\ b \in N /\ \A i \in N \ {a, b} : g2[i] = g[i]
  BY DEF N
<1>6. \A i, j \in N : q[i] = q[j] => i = j
  BY <1>2, <1>4, <1>5
<1>7. ASSUME NEW k \in S PROVE \E i \in N : q[i] = k
  <2>1. PICK i \in N : p[i] = k
    BY <1>2
  <2>2. CASE i = a
    BY <1>4, <1>5, <2>1, <2>2
  <2>3. CASE i = b
    BY <1>4, <1>5, <2>1, <2>3
  <2>4. CASE i # a /\ i # b
    BY <1>4, <2>1, <2>4
  <2> QED  BY <2>2, <2>3, <2>4
<1>8. \A i \in N : g2[i] = h[q[i]]
  BY <1>2, <1>4, <1>5
<1>9. Draws(q, g2, h, S)
  BY <1>3, <1>4, <1>6, <1>7, <1>8 DEF Draws
<1> QED  BY <1>9 DEF Drawn

(* A hole inside its heap. *)
Open(s) == s \in Hole /\ s.hole \in 1 .. Len(s.heap)

LEMMA PutInto ==
  ASSUME NEW h \in Seq(Event), NEW i \in 1 .. Len(h), NEW v \in Event,
         NEW g, g = [h EXCEPT ![i] = v]
  PROVE  /\ g \in Seq(Event) /\ Len(g) = Len(h)
         /\ g[i] = v
         /\ \A j \in 1 .. Len(h) : j # i => g[j] = h[j]
OBVIOUS

LEMMA FilledFacts ==
  ASSUME NEW s, Open(s), NEW v \in Event
  PROVE  /\ Filled(s, v) \in Seq(Event) /\ Len(Filled(s, v)) = Len(s.heap)
         /\ Filled(s, v)[s.hole] = v
         /\ \A j \in 1 .. Len(s.heap) : j # s.hole => Filled(s, v)[j] = s.heap[j]
<1>1. s.heap \in Seq(Event)
  BY DEF Open, Hole
<1> QED  BY <1>1, PutInto DEF Open, Filled

LEMMA MovedFacts ==
  ASSUME NEW s, Open(s), NEW i \in 1 .. Len(s.heap), NEW t, t = MoveHole(s, i)
  PROVE  /\ Open(t) /\ Len(t.heap) = Len(s.heap) /\ t.hole = i
         /\ t.heap[s.hole] = s.heap[i]
         /\ \A j \in 1 .. Len(s.heap) : j # s.hole => t.heap[j] = s.heap[j]
<1> DEFINE g == [s.heap EXCEPT ![s.hole] = s.heap[i]]
<1>1. s.heap \in Seq(Event) /\ s.heap[i] \in Event /\ s.hole \in 1 .. Len(s.heap)
  BY DEF Open, Hole
<1>2. /\ g \in Seq(Event) /\ Len(g) = Len(s.heap) /\ g[s.hole] = s.heap[i]
      /\ \A j \in 1 .. Len(s.heap) : j # s.hole => g[j] = s.heap[j]
  BY <1>1, PutInto
<1>3. t.heap = g /\ t.hole = i /\ t = [heap |-> g, hole |-> i]
  BY DEF MoveHole, Holed
<1> HIDE DEF g
<1>4. t \in Hole
  BY <1>2, <1>3 DEF Hole
<1> QED  BY <1>2, <1>3, <1>4 DEF Open

LEMMA MoveKeepsElements ==
  ASSUME NEW s, Open(s), NEW i \in 1 .. Len(s.heap), i # s.hole, NEW v \in Event,
         NEW h, NEW S, Drawn(Filled(s, v), h, S)
  PROVE  Drawn(Filled(MoveHole(s, i), v), h, S)
<1> DEFINE t == MoveHole(s, i)
           f == Filled(s, v)
           g == Filled(t, v)
<1>1. /\ Open(t) /\ Len(t.heap) = Len(s.heap) /\ t.hole = i
      /\ t.heap[s.hole] = s.heap[i]
      /\ \A j \in 1 .. Len(s.heap) : j # s.hole => t.heap[j] = s.heap[j]
  BY MovedFacts
<1> HIDE DEF t
<1>2. /\ f \in Seq(Event) /\ Len(f) = Len(s.heap) /\ f[s.hole] = v
      /\ \A j \in 1 .. Len(s.heap) : j # s.hole => f[j] = s.heap[j]
  BY FilledFacts
<1>3. /\ g \in Seq(Event) /\ Len(g) = Len(s.heap) /\ g[i] = v
      /\ \A j \in 1 .. Len(s.heap) : j # i => g[j] = t.heap[j]
  <2>1. /\ g \in Seq(Event) /\ Len(g) = Len(t.heap) /\ g[t.hole] = v
        /\ \A j \in 1 .. Len(t.heap) : j # t.hole => g[j] = t.heap[j]
    BY <1>1, FilledFacts, Zenon
  <2> QED  BY <1>1, <2>1
<1>4. s.hole \in 1 .. Len(s.heap)
  BY DEF Open
<1> HIDE DEF f, g
<1>5. g[s.hole] = f[i] /\ g[i] = f[s.hole]
  BY <1>1, <1>2, <1>3, <1>4
<1>6. \A j \in 1 .. Len(f) \ {s.hole, i} : g[j] = f[j]
  BY <1>1, <1>2, <1>3
<1>7. Drawn(f, h, S)
  BY DEF f
<1>8. Drawn(g, h, S)
  BY <1>2, <1>3, <1>4, <1>5, <1>6, <1>7, SwapDrawn
<1> QED  BY <1>8 DEF g, t

-----------------------------------------------------------------------------
(* Up *)

(* The heap around the hole is in order, for v too but for the hole's parent. *)
RisesIn(s, v) ==
  /\ \A i \in 2 .. Len(s.heap) :
       i # s.hole /\ i \div 2 # s.hole => ~Greater(s.heap[i \div 2], s.heap[i])
  /\ \A i \in 2 .. Len(s.heap) :
       i \div 2 = s.hole =>
         /\ ~Greater(v, s.heap[i])
         /\ s.hole > 1 => ~Greater(s.heap[s.hole \div 2], s.heap[i])

MayRise(s, v) == s.hole > 1 /\ Greater(s.heap[s.hole \div 2], v)

LEMMA RiseStep ==
  ASSUME NEW s, Open(s), NEW v
  PROVE  /\ MayRise(s, v) => /\ s.hole \div 2 \in 1 .. Len(s.heap)
                             /\ s.hole \div 2 < s.hole
                             /\ Rise(v)[s] = MoveHole(s, s.hole \div 2)
         /\ ~MayRise(s, v) => Rise(v)[s] = s
<1>1. s \in Hole /\ s.hole \in 1 .. Len(s.heap) /\ s.hole \in Nat
  BY DEF Open, Hole
<1>2. Rise(v)[s] = IF MayRise(s, v) THEN MoveHole(s, s.hole \div 2) ELSE s
  BY <1>1, Zenon DEF Rise, MayRise
<1>3. MayRise(s, v) => s.hole \div 2 \in 1 .. s.hole - 1
  BY <1>1, Half DEF MayRise
<1>4. Len(s.heap) \in Nat
  BY <1>1 DEF Hole
<1> QED  BY <1>1, <1>2, <1>3, <1>4

LEMMA RiseKeepsOrder ==
  ASSUME NEW s, Open(s), NEW v \in Event, RisesIn(s, v), MayRise(s, v)
  PROVE  RisesIn(MoveHole(s, s.hole \div 2), v)
<1> DEFINE up == s.hole \div 2
           t == MoveHole(s, up)
           h == s.heap
           g == t.heap
<1>1. up \in 1 .. Len(h) /\ up < s.hole
  BY RiseStep
<1>2. /\ Len(g) = Len(h) /\ t.hole = up /\ g[s.hole] = h[up]
      /\ \A j \in 1 .. Len(h) : j # s.hole => g[j] = h[j]
  BY <1>1, MovedFacts
<1>3. /\ Greater(h[up], v) /\ s.hole > 1
      /\ \A i \in 2 .. Len(h) : i # s.hole /\ i \div 2 # s.hole => ~Greater(h[i \div 2], h[i])
      /\ \A i \in 2 .. Len(h) : i \div 2 = s.hole => ~Greater(v, h[i]) /\ ~Greater(h[up], h[i])
  BY DEF MayRise, RisesIn
<1>4. h \in Seq(Event) /\ s.hole \in 1 .. Len(h) /\ Len(h) \in Nat
  BY DEF Open, Hole
<1>5. \A i \in 1 .. Len(h) : h[i] \in Event
  BY <1>4
<1>6. \A i \in 2 .. Len(h) : i \div 2 \in 1 .. i - 1 /\ i \div 2 \in 1 .. Len(h) /\ i \in 1 .. Len(h)
  BY <1>4, Half
<1>7. up = s.hole \div 2
  OBVIOUS
<1> HIDE DEF up, t, h, g
<1>8. ASSUME NEW i \in 2 .. Len(h), i # up, i \div 2 # up
      PROVE  ~Greater(g[i \div 2], g[i])
  <2>1. i # s.hole
    BY <1>7, <1>8
  <2>2. g[i] = h[i]
    BY <1>2, <1>6, <2>1
  <2>3. CASE i \div 2 = s.hole
    BY <1>2, <1>3, <2>2, <2>3
  <2>4. CASE i \div 2 # s.hole
    BY <1>2, <1>3, <1>6, <2>1, <2>2, <2>4
  <2> QED  BY <2>3, <2>4
<1>9. ~Greater(v, h[up])
  BY <1>1, <1>3, <1>5, Order
<1>10. ASSUME NEW i \in 2 .. Len(h), i \div 2 = up
       PROVE  g[i] = h[up] \/ (g[i] = h[i] /\ ~Greater(h[up], h[i]))
  <2>1. CASE i = s.hole
    BY <1>2, <2>1
  <2>2. CASE i # s.hole
    <3>1. g[i] = h[i]
      BY <1>2, <1>6, <2>2
    <3>2. ~Greater(h[i \div 2], h[i])
      BY <1>1, <1>3, <1>10, <2>2, <1>4
    <3> QED  BY <1>10, <3>1, <3>2
  <2> QED  BY <2>1, <2>2
<1>11. ASSUME NEW i \in 2 .. Len(h), i \div 2 = up PROVE ~Greater(v, g[i])
  BY <1>1, <1>5, <1>6, <1>9, <1>10, <1>11, Order
<1>12. ASSUME NEW i \in 2 .. Len(h), i \div 2 = up, up > 1 PROVE ~Greater(g[up \div 2], g[i])
  <2>1. up \in 2 .. Len(h)
    BY <1>1, <1>12, <1>4
  <2>2. up \div 2 \in 1 .. Len(h) /\ up \div 2 # s.hole /\ up # s.hole
    BY <1>1, <1>4, <1>6, <2>1
  <2>3. ~Greater(h[up \div 2], h[up])
    BY <1>3, <2>1, <2>2
  <2>4. g[up \div 2] = h[up \div 2]
    BY <1>2, <2>2
  <2>5. h[up \div 2] \in Event /\ h[up] \in Event /\ h[i] \in Event
    BY <1>1, <1>5, <1>6, <2>2
  <2> QED  BY <1>10, <1>12, <2>3, <2>4, <2>5, Order
<1>13. RisesIn(t, v)
  BY <1>2, <1>8, <1>11, <1>12 DEF RisesIn, g
<1> QED  BY <1>13 DEF t, up

LEMMA RisenIsHeap ==
  ASSUME NEW s, Open(s), NEW v \in Event, RisesIn(s, v), ~MayRise(s, v)
  PROVE  IsHeap(Filled(s, v))
<1> DEFINE h == s.heap
           g == Filled(s, v)
<1>1. /\ Len(g) = Len(h) /\ g[s.hole] = v
      /\ \A j \in 1 .. Len(h) : j # s.hole => g[j] = h[j]
  BY FilledFacts
<1>2. s.hole \in 1 .. Len(h) /\ Len(h) \in Nat
  BY DEF Open, Hole
<1>3. \A i \in 2 .. Len(h) : i \div 2 \in 1 .. i - 1 /\ i \div 2 \in 1 .. Len(h) /\ i \in 1 .. Len(h)
  BY <1>2, Half
<1>4. /\ \A i \in 2 .. Len(h) : i # s.hole /\ i \div 2 # s.hole => ~Greater(h[i \div 2], h[i])
      /\ \A i \in 2 .. Len(h) : i \div 2 = s.hole => ~Greater(v, h[i])
  BY DEF RisesIn
<1>5. s.hole > 1 => ~Greater(h[s.hole \div 2], v)
  BY DEF MayRise
<1> HIDE DEF h, g
<1>6. ASSUME NEW i \in 2 .. Len(h) PROVE ~Greater(g[i \div 2], g[i])
  <2>1. CASE i = s.hole
    <3>1. g[i] = v /\ i \div 2 # s.hole /\ g[i \div 2] = h[i \div 2]
      BY <1>1, <1>3, <2>1
    <3>2. ~Greater(h[i \div 2], v)
      BY <1>5, <2>1
    <3> QED  BY <3>1, <3>2
  <2>2. CASE i # s.hole /\ i \div 2 = s.hole
    BY <1>1, <1>3, <1>4, <2>2
  <2>3. CASE i # s.hole /\ i \div 2 # s.hole
    BY <1>1, <1>3, <1>4, <2>3
  <2> QED  BY <2>1, <2>2, <2>3
<1> QED  BY <1>1, <1>6 DEF IsHeap, g

(* What holds of a rising hole from the start and after every step, holds    *)
(* where it stops.                                                           *)
LEMMA SiftUpStops ==
  ASSUME NEW v \in Event, NEW I, \A t \in I : Open(t) /\ Rise(v)[t] \in I, NEW s \in I
  PROVE  \E t \in I : ~MayRise(t, v) /\ SiftUp(v)[s] = Filled(t, v)
<1> DEFINE N == s.hole
           step == [t \in I |-> Rise(v)[t]]
           Equation(f) == f = [n \in 0 .. N |-> IF n = 0 THEN s ELSE Rise(v)[f[n - 1]]]
           after == CHOOSE f : Equation(f)
<1>1. N \in Nat /\ s \in Hole
  BY DEF Open, Hole
<1>2. step \in [I -> I] /\ \A t \in I : step[t] = Rise(v)[t]
  OBVIOUS
<1> HIDE DEF step, N
<1>3. PICK f : Iterates(f, N, I, s, step)
  BY <1>1, <1>2, Iteration
<1>4. Equation(f)
  <2>1. f \in [0 .. N -> I] /\ f[0] = s
    BY <1>3 DEF Iterates
  <2>2. ASSUME NEW n \in 1 .. N PROVE f[n] = Rise(v)[f[n - 1]]
    <3>1. f[n - 1] \in I
      BY <1>1, <2>1
    <3> QED  BY <1>2, <1>3, <3>1 DEF Iterates
  <2>3. \A n \in 0 .. N : f[n] = IF n = 0 THEN s ELSE Rise(v)[f[n - 1]]
    BY <1>1, <2>1, <2>2
  <2> QED  BY <2>1, <2>3
<1>5. Equation(after)
  BY <1>4, Zenon
<1>6. SiftUp(v)[s] = Filled(after[N], v)
  BY <1>1 DEF SiftUp, N
<1> HIDE DEF after
<1>7. after[0] = s /\ \A n \in 1 .. N : after[n] = Rise(v)[after[n - 1]]
  <2>1. \A n \in 0 .. N : after[n] = IF n = 0 THEN s ELSE Rise(v)[after[n - 1]]
    BY <1>5, Zenon
  <2>2. after[0] = s
    BY <1>1, <2>1
  <2>3. ASSUME NEW n \in 1 .. N PROVE after[n] = Rise(v)[after[n - 1]]
    BY <1>1, <2>1
  <2> QED  BY <2>2, <2>3
<1> DEFINE low == {n \in 0 .. N : /\ after[n] \in I
                                  /\ after[n].hole <= N - n \/ ~MayRise(after[n], v)}
<1>8. 0 \in low
  BY <1>1, <1>7 DEF N
<1>9. ASSUME NEW n \in 0 .. N - 1, n \in low PROVE n + 1 \in low
  <2> DEFINE t == after[n]
             u == after[n + 1]
  <2>1. t \in I /\ Open(t) /\ t.hole \in Nat /\ (t.hole <= N - n \/ ~MayRise(t, v))
    BY <1>9 DEF Open, Hole
  <2>2. n + 1 \in 1 .. N /\ n + 1 - 1 = n /\ n + 1 \in 0 .. N
    BY <1>1
  <2>3. u = Rise(v)[t]
    BY <1>7, <2>2
  <2>4. u \in I
    BY <2>1, <2>3
  <2> HIDE DEF t, u
  <2>5. CASE ~MayRise(t, v)
    <3>1. u = t
      BY <2>1, <2>3, <2>5, RiseStep
    <3> QED  BY <2>2, <2>4, <2>5, <3>1 DEF u
  <2>6. CASE MayRise(t, v)
    <3>1. t.hole \div 2 \in 1 .. Len(t.heap) /\ t.hole \div 2 < t.hole
          /\ u = MoveHole(t, t.hole \div 2)
      BY <2>1, <2>3, <2>6, RiseStep
    <3>2. u.hole = t.hole \div 2
      BY <3>1 DEF MoveHole, Holed
    <3>3. u.hole <= N - (n + 1)
      BY <1>1, <2>1, <2>6, <3>1, <3>2
    <3> QED  BY <2>2, <2>4, <3>3 DEF u
  <2> QED  BY <2>5, <2>6
<1>10. \A n \in 0 .. N : n \in low
  <2> HIDE DEF low
  <2> QED  BY <1>1, <1>8, <1>9, UpTo, Zenon
<1>11. after[N] \in I /\ (after[N].hole <= N - N \/ ~MayRise(after[N], v))
  BY <1>1, <1>10
<1>12. after[N].hole \in Nat \ {0} /\ N - N = 0
  BY <1>1, <1>11 DEF Open, Hole
<1>13. ~MayRise(after[N], v)
  BY <1>11, <1>12
<1> QED  BY <1>6, <1>11, <1>13

(* A hole without children ends as a heap of the same elements.              *)
LEMMA SiftUpMakesHeap ==
  ASSUME NEW v \in Event, NEW s, Open(s), RisesIn(s, v), NEW h, NEW S,
         Drawn(Filled(s, v), h, S), NEW g, g = SiftUp(v)[s]
  PROVE  /\ g \in Seq(Event) /\ Len(g) = Len(s.heap)
         /\ IsHeap(g)
         /\ Drawn(g, h, S)
<1> DEFINE I == {t \in Hole : /\ Open(t) /\ Len(t.heap) = Len(s.heap)
                              /\ RisesIn(t, v) /\ Drawn(Filled(t, v), h, S)}
<1>1. s \in I
  BY DEF Open
<1>2. ASSUME NEW t \in I PROVE Rise(v)[t] \in I
  <2>1. CASE ~MayRise(t, v)
    BY <1>2, <2>1, RiseStep
  <2>2. CASE MayRise(t, v)
    <3> DEFINE u == MoveHole(t, t.hole \div 2)
    <3>1. t.hole \div 2 \in 1 .. Len(t.heap) /\ t.hole \div 2 # t.hole /\ Rise(v)[t] = u
      <4>1. Open(t)
        OBVIOUS
      <4>2. t.hole \in Nat
        BY <4>1 DEF Open, Hole
      <4> QED  BY <2>2, <4>1, <4>2, RiseStep
    <3>2. RisesIn(u, v)
      BY <2>2, RiseKeepsOrder
    <3>3. Drawn(Filled(u, v), h, S)
      BY <3>1, MoveKeepsElements
    <3>4. Open(u) /\ Len(u.heap) = Len(t.heap)
      BY <3>1, MovedFacts
    <3> HIDE DEF u
    <3> QED  BY <3>1, <3>2, <3>3, <3>4 DEF Open
  <2> QED  BY <2>1, <2>2
<1>3. \A t \in I : Open(t) /\ Rise(v)[t] \in I
  BY <1>2
<1>4. PICK t \in I : ~MayRise(t, v) /\ SiftUp(v)[s] = Filled(t, v)
  <2> HIDE DEF I
  <2> QED  BY <1>1, <1>3, SiftUpStops
<1>5. IsHeap(Filled(t, v))
  BY <1>4, RisenIsHeap
<1>6. Filled(t, v) \in Seq(Event) /\ Len(Filled(t, v)) = Len(t.heap)
  BY FilledFacts
<1> QED  BY <1>4, <1>5, <1>6

-----------------------------------------------------------------------------
(* Down *)

FallsIn(s) ==
  /\ \A i \in 2 .. Len(s.heap) :
       i # s.hole /\ i \div 2 # s.hole => ~Greater(s.heap[i \div 2], s.heap[i])
  /\ \A i \in 2 .. Len(s.heap) :
       i \div 2 = s.hole /\ s.hole > 1 => ~Greater(s.heap[s.hole \div 2], s.heap[i])

MayFall(s) == 2 * s.hole <= Len(s.heap)

(* The hole falls to the first of its children. *)
FirstChild(s, c) ==
  /\ c \in 2 .. Len(s.heap) /\ c > s.hole /\ c \div 2 = s.hole
  /\ \A i \in 2 .. Len(s.heap) : i \div 2 = s.hole => ~Greater(s.heap[c], s.heap[i])

LEMMA FallStep ==
  ASSUME NEW s, Open(s)
  PROVE  /\ MayFall(s) => \E c : FirstChild(s, c) /\ Fall[s] = MoveHole(s, c)
         /\ ~MayFall(s) => Fall[s] = s
<1> DEFINE left == 2 * s.hole
           n == Len(s.heap)
           child == IF left = n \/ Greater(s.heap[left + 1], s.heap[left])
                      THEN left ELSE left + 1
<1>1. s \in Hole /\ s.hole \in 1 .. n /\ s.hole \in Nat /\ n \in Nat /\ s.heap \in Seq(Event)
  BY DEF Open, Hole
<1>2. Fall[s] = IF left > n THEN s ELSE MoveHole(s, child)
  BY <1>1, Zenon DEF Fall
<1>3. \A i \in 2 .. n : i \div 2 = s.hole <=> i = left \/ i = left + 1
  BY <1>1, Twice
<1>4. ASSUME MayFall(s) PROVE FirstChild(s, child)
  <2>1. left <= n /\ left \in 2 .. n /\ left > s.hole
    BY <1>1, <1>4 DEF MayFall
  <2>2. child \in 2 .. n /\ child > s.hole /\ (child = left \/ child = left + 1)
    BY <1>1, <2>1
  <2>3. child \div 2 = s.hole
    BY <1>3, <2>2
  <2>4. \A i \in 2 .. n : s.heap[i] \in Event
    BY <1>1
  <2>5. ASSUME NEW i \in 2 .. n, i \div 2 = s.hole PROVE ~Greater(s.heap[child], s.heap[i])
    <3>1. i = left \/ i = left + 1
      BY <1>3, <2>5
    <3>2. CASE i = child
      BY <2>4, <3>2, Order
    <3>3. CASE i = left + 1 /\ child = left
      <4>1. left # n /\ left + 1 \in 2 .. n
        BY <1>1, <2>1, <2>5, <3>3
      <4>2. Greater(s.heap[left + 1], s.heap[left])
        BY <1>1, <3>3, <4>1
      <4> QED  BY <2>1, <2>4, <3>3, <4>1, <4>2, Order
    <3>4. CASE i = left /\ child = left + 1
      <4>1. left # left + 1
        BY <2>1
      <4>2. ~Greater(s.heap[left + 1], s.heap[left])
        BY <3>4, <4>1
      <4> QED  BY <3>4, <4>2
    <3> QED  BY <2>2, <3>1, <3>2, <3>3, <3>4
  <2> HIDE DEF child
  <2> QED  BY <2>2, <2>3, <2>5 DEF FirstChild
<1>5. MayFall(s) <=> ~(left > n)
  BY <1>1 DEF MayFall
<1> HIDE DEF child, left
<1> QED  BY <1>2, <1>4, <1>5

LEMMA FallKeepsOrder ==
  ASSUME NEW s, Open(s), FallsIn(s), NEW c, FirstChild(s, c)
  PROVE  FallsIn(MoveHole(s, c))
<1> DEFINE t == MoveHole(s, c)
           h == s.heap
           g == t.heap
<1>1. /\ c \in 2 .. Len(h) /\ c \in 1 .. Len(h) /\ c > s.hole /\ c \div 2 = s.hole
      /\ \A i \in 2 .. Len(h) : i \div 2 = s.hole => ~Greater(h[c], h[i])
  BY DEF FirstChild
<1>2. /\ Len(g) = Len(h) /\ t.hole = c /\ g[s.hole] = h[c]
      /\ \A j \in 1 .. Len(h) : j # s.hole => g[j] = h[j]
  BY <1>1, MovedFacts
<1>3. /\ \A i \in 2 .. Len(h) : i # s.hole /\ i \div 2 # s.hole => ~Greater(h[i \div 2], h[i])
      /\ \A i \in 2 .. Len(h) : i \div 2 = s.hole /\ s.hole > 1 => ~Greater(h[s.hole \div 2], h[i])
  BY DEF FallsIn
<1>4. s.hole \in 1 .. Len(h) /\ Len(h) \in Nat
  BY DEF Open, Hole
<1>5. \A i \in 2 .. Len(h) : i \div 2 \in 1 .. i - 1 /\ i \div 2 \in 1 .. Len(h) /\ i \in 1 .. Len(h)
  BY <1>4, Half
<1> HIDE DEF t, h, g
<1>6. ASSUME NEW i \in 2 .. Len(h), i # c, i \div 2 # c PROVE ~Greater(g[i \div 2], g[i])
  <2>1. CASE i = s.hole
    <3>1. g[i] = h[c] /\ i \div 2 # s.hole /\ g[i \div 2] = h[i \div 2]
      BY <1>2, <1>5, <2>1
    <3>2. ~Greater(h[i \div 2], h[c])
      BY <1>1, <1>3, <2>1
    <3> QED  BY <3>1, <3>2
  <2>2. CASE i # s.hole /\ i \div 2 = s.hole
    <3>1. g[i] = h[i] /\ g[i \div 2] = h[c]
      BY <1>2, <1>5, <2>2
    <3> QED  BY <1>1, <2>2, <3>1
  <2>3. CASE i # s.hole /\ i \div 2 # s.hole
    BY <1>2, <1>3, <1>5, <2>3
  <2> QED  BY <2>1, <2>2, <2>3
<1>7. ASSUME NEW i \in 2 .. Len(h), i \div 2 = c PROVE ~Greater(g[c \div 2], g[i])
  <2>1. i # s.hole /\ i \div 2 # s.hole
    BY <1>1, <1>4, <1>5, <1>7
  <2>2. g[c \div 2] = h[c] /\ g[i] = h[i]
    BY <1>1, <1>2, <1>5, <2>1
  <2> QED  BY <1>3, <1>7, <2>1, <2>2
<1>8. FallsIn(t)
  BY <1>2, <1>6, <1>7 DEF FallsIn, g
<1> QED  BY <1>8 DEF t

LEMMA SinkStops ==
  ASSUME NEW N \in Nat, NEW I,
         \A t \in I : Open(t) /\ Len(t.heap) = N /\ Fall[t] \in I, NEW s \in I
  PROVE  Sink[s] \in I /\ ~MayFall(Sink[s])
<1> DEFINE step == [t \in I |-> Fall[t]]
           Equation(f) == f = [n \in 0 .. N |-> IF n = 0 THEN s ELSE Fall[f[n - 1]]]
           after == CHOOSE f : Equation(f)
<1>1. N = Len(s.heap) /\ s \in Hole
  BY DEF Open
<1>2. step \in [I -> I] /\ \A t \in I : step[t] = Fall[t]
  OBVIOUS
<1> HIDE DEF step
<1>3. PICK f : Iterates(f, N, I, s, step)
  BY <1>2, Iteration
<1>4. Equation(f)
  <2>1. f \in [0 .. N -> I] /\ f[0] = s
    BY <1>3 DEF Iterates
  <2>2. ASSUME NEW n \in 1 .. N PROVE f[n] = Fall[f[n - 1]]
    <3>1. f[n - 1] \in I
      BY <2>1
    <3> QED  BY <1>2, <1>3, <3>1 DEF Iterates
  <2>3. \A n \in 0 .. N : f[n] = IF n = 0 THEN s ELSE Fall[f[n - 1]]
    BY <2>1, <2>2
  <2> QED  BY <2>1, <2>3
<1>5. Equation(after)
  BY <1>4, Zenon
<1>6. Sink[s] = after[N]
  BY <1>1 DEF Sink
<1> HIDE DEF after
<1>7. after[0] = s /\ \A n \in 1 .. N : after[n] = Fall[after[n - 1]]
  <2>1. \A n \in 0 .. N : after[n] = IF n = 0 THEN s ELSE Fall[after[n - 1]]
    BY <1>5, Zenon
  <2>2. after[0] = s
    BY <2>1
  <2>3. ASSUME NEW n \in 1 .. N PROVE after[n] = Fall[after[n - 1]]
    BY <2>1
  <2> QED  BY <2>2, <2>3
<1> DEFINE deep == {n \in 0 .. N : /\ after[n] \in I
                                   /\ after[n].hole > n \/ ~MayFall(after[n])}
<1>8. 0 \in deep
  <2>1. s.hole > 0
    BY DEF Open, Hole
  <2> QED  BY <1>7, <2>1
<1>9. ASSUME NEW n \in 0 .. N - 1, n \in deep PROVE n + 1 \in deep
  <2> DEFINE t == after[n]
             u == after[n + 1]
  <2>1. t \in I /\ Open(t) /\ t.hole \in Nat /\ (t.hole > n \/ ~MayFall(t))
    BY <1>9 DEF Open, Hole
  <2>2. n + 1 \in 1 .. N /\ n + 1 - 1 = n /\ n + 1 \in 0 .. N
    OBVIOUS
  <2>3. u = Fall[t]
    BY <1>7, <2>2
  <2>4. u \in I
    BY <2>1, <2>3
  <2> HIDE DEF t, u
  <2>5. CASE ~MayFall(t)
    <3>1. u = t
      BY <2>1, <2>3, <2>5, FallStep
    <3> QED  BY <2>2, <2>4, <2>5, <3>1 DEF u
  <2>6. CASE MayFall(t)
    <3>1. PICK c : FirstChild(t, c) /\ u = MoveHole(t, c)
      BY <2>1, <2>3, <2>6, FallStep
    <3>2. u.hole = c
      BY <3>1 DEF MoveHole, Holed
    <3>3. u.hole > n + 1
      BY <2>1, <2>6, <3>1, <3>2 DEF FirstChild
    <3> QED  BY <2>2, <2>4, <3>3 DEF u
  <2> QED  BY <2>5, <2>6
<1>10. \A n \in 0 .. N : n \in deep
  <2> HIDE DEF deep
  <2> QED  BY <1>8, <1>9, UpTo, Zenon
<1>11. after[N] \in I /\ (after[N].hole > N \/ ~MayFall(after[N]))
  BY <1>10
<1>12. after[N].hole <= N
  BY <1>11 DEF Open, Hole
<1> QED  BY <1>6, <1>11, <1>12 DEF Open, Hole

(* The hole reaches a leaf, with the heap in order for whatever is put there. *)
LEMMA SinkReachesLeaf ==
  ASSUME NEW v \in Event, NEW s, Open(s), FallsIn(s), NEW h, NEW S,
         Drawn(Filled(s, v), h, S)
  PROVE  /\ Open(Sink[s]) /\ Len(Sink[s].heap) = Len(s.heap)
         /\ RisesIn(Sink[s], v)
         /\ Drawn(Filled(Sink[s], v), h, S)
<1> DEFINE N == Len(s.heap)
           I == {t \in Hole : /\ Open(t) /\ Len(t.heap) = N
                              /\ FallsIn(t) /\ Drawn(Filled(t, v), h, S)}
<1>1. s \in I /\ N \in Nat
  BY DEF Open, Hole
<1>2. ASSUME NEW t \in I PROVE Fall[t] \in I
  <2>1. CASE ~MayFall(t)
    BY <1>2, <2>1, FallStep
  <2>2. CASE MayFall(t)
    <3>1. PICK c : FirstChild(t, c) /\ Fall[t] = MoveHole(t, c)
      BY <2>2, FallStep
    <3> DEFINE u == MoveHole(t, c)
    <3>2. c \in 1 .. Len(t.heap) /\ c # t.hole
      <4>1. t.hole \in Nat
        BY DEF Open, Hole
      <4> QED  BY <3>1, <4>1 DEF FirstChild
    <3>3. FallsIn(u)
      BY <3>1, FallKeepsOrder
    <3>4. Drawn(Filled(u, v), h, S)
      BY <3>2, MoveKeepsElements
    <3>5. Open(u) /\ Len(u.heap) = Len(t.heap)
      BY <3>2, MovedFacts
    <3> HIDE DEF u
    <3> QED  BY <3>1, <3>3, <3>4, <3>5 DEF Open, u
  <2> QED  BY <2>1, <2>2
<1>3. \A t \in I : Open(t) /\ Len(t.heap) = N /\ Fall[t] \in I
  BY <1>2
<1>4. Sink[s] \in I /\ ~MayFall(Sink[s])
  <2> HIDE DEF I, N
  <2> QED  BY <1>1, <1>3, SinkStops
<1> DEFINE t == Sink[s]
<1>5. t \in I /\ ~MayFall(t)
  BY <1>4
<1> HIDE DEF t
<1>6. t.hole \in Nat /\ Len(t.heap) \in Nat /\ 2 * t.hole > Len(t.heap) /\ t.hole > 0
  BY <1>5 DEF MayFall, Open, Hole
<1>7. \A i \in 2 .. Len(t.heap) : i \div 2 # t.hole
  BY <1>6, Twice
<1>8. RisesIn(t, v)
  BY <1>5, <1>7 DEF RisesIn, FallsIn
<1> QED  BY <1>5, <1>8 DEF t

-----------------------------------------------------------------------------
(* The heap *)

LEMMA Identity ==
  ASSUME NEW g
  PROVE  Drawn(g, g, 1 .. Len(g))
<1> DEFINE p == [i \in 1 .. Len(g) |-> i]
<1>1. Draws(p, g, g, 1 .. Len(g))
  BY DEF Draws
<1> QED  BY <1>1 DEF Drawn

LEMMA PushFacts ==
  ASSUME NEW h \in Seq(Event), IsHeap(h), NEW e \in Event
  PROVE  /\ Push(h, e) \in Seq(Event) /\ Len(Push(h, e)) = Len(h) + 1
         /\ IsHeap(Push(h, e))
         /\ Drawn(Push(h, e), Append(h, e), 1 .. Len(h) + 1)
         /\ h # <<>> /\ ~Greater(h[1], e) => Push(h, e)[1] = h[1]
<1> DEFINE a == Append(h, e)
           n == Len(h)
           s == Holed(a, n + 1)
<1>1. /\ a \in Seq(Event) /\ Len(a) = n + 1 /\ n \in Nat /\ a[n + 1] = e
      /\ \A i \in 1 .. n : a[i] = h[i]
  OBVIOUS
<1> HIDE DEF a
<1>2. s.heap = a /\ s.hole = n + 1 /\ Open(s)
  BY <1>1 DEF Holed, Open, Hole
<1> HIDE DEF s
<1>3. RisesIn(s, e)
  <2>1. \A i \in 2 .. n + 1 : i \div 2 # n + 1
    BY <1>1, Half
  <2>2. ASSUME NEW i \in 2 .. n + 1, i # n + 1 PROVE ~Greater(a[i \div 2], a[i])
    <3>1. i \in 2 .. n /\ i \in 1 .. n /\ i \div 2 \in 1 .. n
      BY <1>1, <2>2, Half
    <3> QED  BY <1>1, <3>1 DEF IsHeap
  <2> QED  BY <1>1, <1>2, <2>1, <2>2 DEF RisesIn
<1>4. Filled(s, e) = a
  BY <1>1, <1>2 DEF Filled
<1>5. Drawn(Filled(s, e), a, 1 .. n + 1)
  BY <1>1, <1>4, Identity
<1>6. Push(h, e) = SiftUp(e)[s]
  BY DEF Push, s, a
<1>7. /\ Push(h, e) \in Seq(Event) /\ Len(Push(h, e)) = n + 1
      /\ IsHeap(Push(h, e)) /\ Drawn(Push(h, e), a, 1 .. n + 1)
  BY <1>1, <1>2, <1>3, <1>5, <1>6, SiftUpMakesHeap
<1>8. ASSUME h # <<>>, ~Greater(h[1], e) PROVE Push(h, e)[1] = h[1]
  <2> DEFINE I == {t \in Hole : Open(t) /\ t.hole > 1 /\ t.heap[1] = h[1]}
  <2>1. s \in I
    BY <1>1, <1>2, <1>8 DEF Open
  <2>2. ASSUME NEW t \in I PROVE Rise(e)[t] \in I
    <3>1. CASE ~MayRise(t, e)
      BY <3>1, RiseStep
    <3>2. CASE MayRise(t, e)
      <4> DEFINE up == t.hole \div 2
                 u == MoveHole(t, up)
      <4>1. up \in 1 .. Len(t.heap) /\ up < t.hole /\ Rise(e)[t] = u
        BY <3>2, RiseStep
      <4>2. up # 1
        BY <1>8, <3>2 DEF MayRise
      <4>3. /\ Open(u) /\ u.hole = up
            /\ \A j \in 1 .. Len(t.heap) : j # t.hole => u.heap[j] = t.heap[j]
        BY <4>1, MovedFacts
      <4>4. 1 \in 1 .. Len(t.heap) /\ 1 # t.hole
        BY DEF Open, Hole
      <4> HIDE DEF u, up
      <4>5. u.heap[1] = h[1] /\ u.hole > 1
        BY <4>1, <4>2, <4>3, <4>4
      <4> QED  BY <4>1, <4>3, <4>5 DEF Open
    <3> QED  BY <3>1, <3>2
  <2>3. \A t \in I : Open(t) /\ Rise(e)[t] \in I
    BY <2>2
  <2>4. PICK t \in I : SiftUp(e)[s] = Filled(t, e)
    <3> HIDE DEF I
    <3> QED  BY <2>1, <2>3, SiftUpStops
  <2>5. 1 \in 1 .. Len(t.heap) /\ 1 # t.hole
    BY DEF Open, Hole
  <2>6. Filled(t, e)[1] = t.heap[1]
    BY <2>5, FilledFacts
  <2> QED  BY <1>6, <2>4, <2>6
<1> QED  BY <1>7, <1>8 DEF a

LEMMA PopFacts ==
  ASSUME NEW h \in Seq(Event), IsHeap(h), h # <<>>
  PROVE  /\ Pop(h) \in Seq(Event) /\ Len(Pop(h)) = Len(h) - 1
         /\ IsHeap(Pop(h))
         /\ Drawn(Pop(h), h, 2 .. Len(h))
<1>1. CASE Len(h) = 1
  <2>1. Pop(h) = <<>>
    BY <1>1 DEF Pop
  <2>2. Draws(<<>>, <<>>, h, 2 .. Len(h))
    BY <1>1 DEF Draws
  <2> QED  BY <1>1, <2>1, <2>2 DEF IsHeap, Drawn
<1>2. CASE Len(h) # 1
  <2> DEFINE n == Len(h) - 1
             a == SubSeq(h, 1, n)
             v == h[n + 1]
             s == Holed(a, 1)
             f == Filled(s, v)
  <2>1. n \in Nat /\ n >= 1 /\ n + 1 = Len(h) /\ Len(h) \in Nat
    BY <1>2
  <2>2. /\ a \in Seq(Event) /\ Len(a) = n /\ v \in Event
        /\ \A i \in 1 .. n : a[i] = h[i]
    BY <2>1
  <2>3. Pop(h) = SiftUp(v)[Sink[s]]
    BY <1>2, <2>1 DEF Pop
  <2> HIDE DEF n, a, v
  <2>4. s.heap = a /\ s.hole = 1 /\ Open(s)
    BY <2>1, <2>2 DEF Holed, Open, Hole
  <2> HIDE DEF s
  <2>5. FallsIn(s)
    <3>1. ASSUME NEW i \in 2 .. n PROVE ~Greater(a[i \div 2], a[i])
      <4>1. i \in 2 .. n + 1 /\ i \in 1 .. n /\ i \div 2 \in 1 .. n
        BY <2>1, Half
      <4> QED  BY <2>1, <2>2, <4>1 DEF IsHeap
    <3> QED  BY <2>2, <2>4, <3>1 DEF FallsIn
  <2>6. /\ f \in Seq(Event) /\ Len(f) = n /\ f[1] = v
        /\ \A j \in 1 .. n : j # 1 => f[j] = a[j]
    <3>1. /\ f \in Seq(Event) /\ Len(f) = Len(s.heap) /\ f[s.hole] = v
          /\ \A j \in 1 .. Len(s.heap) : j # s.hole => f[j] = s.heap[j]
      BY <2>2, <2>4, FilledFacts, Zenon
    <3> QED  BY <2>2, <2>4, <3>1
  <2> HIDE DEF f
  <2>7. Drawn(f, h, 2 .. Len(h))
    <3> DEFINE p == [i \in 1 .. n |-> IF i = 1 THEN n + 1 ELSE i]
    <3>1. p \in [1 .. n -> 2 .. n + 1] /\ \A i, j \in 1 .. n : p[i] = p[j] => i = j
      BY <2>1
    <3>2. ASSUME NEW k \in 2 .. n + 1 PROVE \E i \in 1 .. n : p[i] = k
      <4>1. CASE k = n + 1
        <5>1. 1 \in 1 .. n /\ p[1] = k
          BY <2>1, <4>1
        <5> QED  BY <5>1
      <4>2. CASE k # n + 1
        <5>1. k \in 1 .. n /\ p[k] = k
          BY <2>1, <4>2
        <5> QED  BY <5>1
      <4> QED  BY <4>1, <4>2
    <3>3. \A i \in 1 .. n : f[i] = h[p[i]]
      BY <2>1, <2>2, <2>6 DEF v
    <3> HIDE DEF p
    <3>4. Draws(p, f, h, 2 .. Len(h))
      BY <2>1, <2>6, <3>1, <3>2, <3>3 DEF Draws
    <3> QED  BY <3>4 DEF Drawn
  <2>8. /\ Open(Sink[s]) /\ Len(Sink[s].heap) = n /\ RisesIn(Sink[s], v)
        /\ Drawn(Filled(Sink[s], v), h, 2 .. Len(h))
    BY <2>2, <2>4, <2>5, <2>7, SinkReachesLeaf DEF f
  <2>9. /\ Pop(h) \in Seq(Event) /\ Len(Pop(h)) = n
        /\ IsHeap(Pop(h)) /\ Drawn(Pop(h), h, 2 .. Len(h))
    BY <2>2, <2>3, <2>8, SiftUpMakesHeap
  <2> QED  BY <2>9 DEF n
<1> QED  BY <1>1, <1>2

-----------------------------------------------------------------------------
(* EventScheduler *)

Distinct(q) == \A i, j \in 1 .. Len(q) : q[i].id = q[j].id => i = j
Holds(q, id) == \E i \in 1 .. Len(q) : q[i].id = id

OwnIds(h, S) == \A i, j \in S : h[i].id = h[j].id => i = j
HasThose(g, h, S) ==
  /\ \A i \in 1 .. Len(g) : \E k \in S : g[i] = h[k]
  /\ \A id : Holds(g, id) <=> \E k \in S : h[k].id = id

LEMMA DrawnFacts ==
  ASSUME NEW g, NEW h, NEW S, Drawn(g, h, S)
  PROVE  HasThose(g, h, S) /\ (OwnIds(h, S) => Distinct(g))
<1>1. PICK p : Draws(p, g, h, S)
  BY DEF Drawn
<1>2. /\ \A i \in 1 .. Len(g) : p[i] \in S /\ g[i] = h[p[i]]
      /\ \A i, j \in 1 .. Len(g) : p[i] = p[j] => i = j
      /\ \A k \in S : \E i \in 1 .. Len(g) : p[i] = k
  BY <1>1 DEF Draws
<1>3. \A i \in 1 .. Len(g) : \E k \in S : g[i] = h[k]
  BY <1>2
<1>4. \A k \in S : \E i \in 1 .. Len(g) : g[i] = h[k]
  BY <1>2
<1>5. ASSUME NEW id PROVE Holds(g, id) <=> \E k \in S : h[k].id = id
  BY <1>3, <1>4 DEF Holds
<1>6. ASSUME OwnIds(h, S) PROVE Distinct(g)
  BY <1>2, <1>6 DEF Distinct, OwnIds
<1> QED  BY <1>3, <1>5, <1>6 DEF HasThose

(* What a heap without duplicates holds after a push, after a pop, and after *)
(* a push of what already is on top and a pop.                               *)
IsQueue(h) == h \in Seq(Event) /\ IsHeap(h) /\ Distinct(h)
ElementsFrom(r, h, E) ==
  \A i \in 1 .. Len(r) : r[i] \in E \/ \E k \in 1 .. Len(h) : r[i] = h[k]

LEMMA Pushed ==
  ASSUME NEW h, IsQueue(h), NEW e \in Event, ~Holds(h, e.id),
         NEW r, r = Push(h, e)
  PROVE  /\ IsQueue(r) /\ ElementsFrom(r, h, {e})
         /\ \A id : Holds(r, id) <=> id = e.id \/ Holds(h, id)
         /\ h # <<>> /\ ~Greater(h[1], e) => r # <<>> /\ r[1] = h[1]
<1> USE DEF IsQueue
<1> DEFINE a == Append(h, e)
           m == Len(h)
<1>1. m \in Nat /\ (\A i \in 1 .. m : a[i] = h[i]) /\ a[m + 1] = e
  OBVIOUS
<1>2. \A k \in 1 .. m + 1 : k \in 1 .. m \/ k = m + 1
  BY <1>1
<1>3. 1 .. m \subseteq 1 .. m + 1 /\ m + 1 \in 1 .. m + 1
  BY <1>1
<1>4. /\ r \in Seq(Event) /\ IsHeap(r) /\ Drawn(r, a, 1 .. m + 1)
      /\ Len(r) = m + 1
      /\ h # <<>> /\ ~Greater(h[1], e) => r[1] = h[1]
  BY PushFacts
<1>5. r # <<>>
  BY <1>1, <1>4
<1> HIDE DEF a, m
<1>6. ASSUME NEW i \in 1 .. m + 1, NEW j \in 1 .. m + 1, a[i].id = a[j].id PROVE i = j
  <2>1. \A k \in 1 .. m : a[k].id # e.id
    BY <1>1 DEF Holds, m
  <2>2. CASE i \in 1 .. m /\ j \in 1 .. m
    BY <1>1, <1>6, <2>2 DEF Distinct, m
  <2> QED  BY <1>1, <1>2, <1>6, <2>1, <2>2
<1>7. /\ \A i \in 1 .. Len(r) : \E k \in 1 .. m + 1 : r[i] = a[k]
      /\ \A id : Holds(r, id) <=> \E k \in 1 .. m + 1 : a[k].id = id
      /\ Distinct(r)
  <2>1. OwnIds(a, 1 .. m + 1)
    BY <1>6 DEF OwnIds
  <2>2. HasThose(r, a, 1 .. m + 1) /\ Distinct(r)
    BY <1>4, <2>1, DrawnFacts, Zenon
  <2> QED  BY <2>2 DEF HasThose
<1>8. \A i \in 1 .. Len(r) : r[i] = e \/ \E k \in 1 .. m : r[i] = h[k]
  BY <1>1, <1>2, <1>7
<1>9. ASSUME NEW id PROVE Holds(r, id) <=> id = e.id \/ Holds(h, id)
  <2>1. Holds(r, id) <=> \E k \in 1 .. m + 1 : a[k].id = id
    BY <1>7
  <2>2. Holds(h, id) <=> \E k \in 1 .. m : a[k].id = id
    BY <1>1 DEF Holds, m
  <2> QED  BY <1>1, <1>2, <1>3, <2>1, <2>2
<1> QED  BY <1>4, <1>5, <1>7, <1>8, <1>9 DEF m, IsQueue, ElementsFrom

LEMMA Popped ==
  ASSUME NEW h, IsQueue(h), h # <<>>, NEW r, r = Pop(h)
  PROVE  /\ IsQueue(r) /\ ElementsFrom(r, h, {})
         /\ \A id : Holds(r, id) <=> id # h[1].id /\ Holds(h, id)
<1> USE DEF IsQueue
<1> DEFINE m == Len(h)
<1>1. m \in Nat /\ 1 \in 1 .. m /\ 2 .. m \subseteq 1 .. m
  OBVIOUS
<1>2. \A k \in 1 .. m : k = 1 \/ k \in 2 .. m
  BY <1>1
<1>3. 1 \notin 2 .. m
  OBVIOUS
<1>4. r \in Seq(Event) /\ IsHeap(r) /\ Drawn(r, h, 2 .. m)
  BY PopFacts
<1>5. \A i, j \in 1 .. m : h[i].id = h[j].id => i = j
  BY DEF Distinct
<1> HIDE DEF m
<1>6. /\ \A i \in 1 .. Len(r) : \E k \in 2 .. m : r[i] = h[k]
      /\ \A id : Holds(r, id) <=> \E k \in 2 .. m : h[k].id = id
      /\ Distinct(r)
  <2>1. OwnIds(h, 2 .. m)
    BY <1>1, <1>5 DEF OwnIds
  <2>2. HasThose(r, h, 2 .. m) /\ Distinct(r)
    BY <1>4, <2>1, DrawnFacts, Zenon
  <2> QED  BY <2>2 DEF HasThose
<1>7. \A i \in 1 .. Len(r) : \E k \in 1 .. m : r[i] = h[k]
  BY <1>1, <1>6
<1>8. ASSUME NEW id PROVE Holds(r, id) <=> id # h[1].id /\ Holds(h, id)
  <2>1. Holds(r, id) <=> \E k \in 2 .. m : h[k].id = id
    BY <1>6
  <2>2. Holds(h, id) <=> \E k \in 1 .. m : h[k].id = id
    BY DEF Holds, m
  <2> QED  BY <1>1, <1>2, <1>3, <1>5, <2>1, <2>2
<1> QED  BY <1>4, <1>6, <1>7, <1>8 DEF m, ElementsFrom

LEMMA Renewed ==
  ASSUME NEW h, IsQueue(h), h # <<>>,
         NEW e \in Event, e.id = h[1].id, NEW r, r = Pop(Push(h, e))
  PROVE  /\ IsQueue(r) /\ ElementsFrom(r, h, {e})
         /\ \A id : id # e.id => (Holds(r, id) <=> Holds(h, id))
<1> USE DEF IsQueue
<1> DEFINE a == Append(h, e)
           m == Len(h)
           b == Push(h, e)
<1>1. /\ m \in Nat /\ (\A i \in 1 .. m : a[i] = h[i]) /\ a[m + 1] = e
      /\ 1 \in 1 .. m /\ m + 1 \in 1 .. m + 1 /\ 1 .. m \subseteq 1 .. m + 1
      /\ 1 \in 1 .. m + 1 /\ 2 .. m + 1 \subseteq 1 .. m + 1
  OBVIOUS
<1>2. \A k \in 1 .. m + 1 : (k \in 1 .. m \/ k = m + 1) /\ (k = 1 \/ k \in 2 .. m + 1)
  BY <1>1
<1>3. /\ b \in Seq(Event) /\ IsHeap(b) /\ Drawn(b, a, 1 .. m + 1) /\ Len(b) = m + 1
      /\ ~Greater(h[1], e) => b[1] = h[1]
  BY PushFacts
<1> HIDE DEF a, b
<1>4. b # <<>>
  BY <1>1, <1>3
<1>5. r \in Seq(Event) /\ IsHeap(r) /\ Drawn(r, b, 2 .. m + 1)
  <2>1. r = Pop(b)
    BY DEF b
  <2> QED  BY <1>3, <1>4, <2>1, PopFacts
<1>6. PICK p : Draws(p, b, a, 1 .. m + 1)
  BY <1>3 DEF Drawn
<1>7. /\ \A i \in 1 .. m + 1 : p[i] \in 1 .. m + 1 /\ b[i] = a[p[i]]
      /\ \A i, j \in 1 .. m + 1 : p[i] = p[j] => i = j
      /\ \A k \in 1 .. m + 1 : \E i \in 1 .. m + 1 : p[i] = k
  BY <1>3, <1>6 DEF Draws
<1>8. b[1].id = e.id
  <2>1. CASE ~Greater(h[1], e)
    BY <1>3, <2>1
  <2>2. CASE Greater(h[1], e)
    <3>1. CASE p[1] = m + 1
      <4>1. b[1] = a[p[1]]
        BY <1>1, <1>7
      <4> QED  BY <1>1, <3>1, <4>1
    <3>2. CASE p[1] \in 1 .. m
      <4>1. PICK k \in 1 .. m : b[1] = a[k]
        BY <1>1, <1>7, <3>2
      <4>2. b[1] = h[k] /\ h[k] \in Event /\ h[1] \in Event
        BY <1>1, <4>1
      <4>3. ~Greater(h[1], h[k])
        BY <4>1, TopIsFirst, Zenon
      <4>4. PICK i \in 1 .. m + 1 : b[i] = e
        <5>1. PICK i \in 1 .. m + 1 : p[i] = m + 1
          BY <1>1, <1>7
        <5> QED  BY <1>1, <1>7, <5>1, ZenonT(30)
      <4>5. ~Greater(b[1], e)
        BY <1>3, <4>4, TopIsFirst
      <4> QED  BY <2>2, <3>2, <4>2, <4>3, <4>5, Order
    <3> QED  BY <1>1, <1>2, <1>7, <3>1, <3>2
  <2> QED  BY <2>1, <2>2
<1>9. \A i, j \in 1 .. m : a[i].id = a[j].id => i = j
  BY <1>1 DEF Distinct
<1>10. h[1].id = a[1].id
  BY <1>1
<1> HIDE DEF m
<1>11. \A i, j \in 1 .. m + 1 : a[i].id = a[j].id =>
         i = j \/ {i, j} = {1, m + 1}
  BY <1>1, <1>2, <1>9, <1>10
<1>12. p[1] \in {1, m + 1}
  <2>1. p[1] \in 1 .. m + 1 /\ a[p[1]].id = a[1].id
    BY <1>1, <1>7, <1>8, <1>10
  <2> QED  BY <1>1, <1>11, <2>1
<1>13. ASSUME NEW i \in 2 .. m + 1, NEW j \in 2 .. m + 1, b[i].id = b[j].id PROVE i = j
  <2>1. i # 1 /\ j # 1 /\ i \in 1 .. m + 1 /\ j \in 1 .. m + 1
    BY <1>1
  <2>2. p[i] # p[1] /\ p[j] # p[1] /\ p[i] \in 1 .. m + 1 /\ p[j] \in 1 .. m + 1
    BY <1>1, <1>7, <2>1
  <2>3. a[p[i]].id = a[p[j]].id
    BY <1>7, <1>13, <2>1
  <2>4. p[i] = p[j] \/ {p[i], p[j]} = {1, m + 1}
    BY <1>11, <2>2, <2>3
  <2>5. p[i] = p[j]
    BY <1>12, <2>2, <2>4
  <2> QED  BY <1>7, <2>1, <2>5
<1>14. /\ \A i \in 1 .. Len(r) : \E k \in 2 .. m + 1 : r[i] = b[k]
       /\ \A id : Holds(r, id) <=> \E k \in 2 .. m + 1 : b[k].id = id
       /\ Distinct(r)
  <2>1. OwnIds(b, 2 .. m + 1)
    BY <1>13 DEF OwnIds
  <2>2. HasThose(r, b, 2 .. m + 1) /\ Distinct(r)
    BY <1>5, <2>1, DrawnFacts, Zenon
  <2> QED  BY <2>2 DEF HasThose
<1>15. \A i \in 1 .. Len(r) : r[i] = e \/ \E k \in 1 .. m : r[i] = h[k]
  <2>1. ASSUME NEW i \in 1 .. Len(r) PROVE \E k \in 1 .. m + 1 : r[i] = a[k]
    <3>1. PICK k \in 2 .. m + 1 : r[i] = b[k]
      BY <1>14
    <3>2. k \in 1 .. m + 1
      BY <1>1, <3>1
    <3>3. p[k] \in 1 .. m + 1 /\ b[k] = a[p[k]]
      BY <1>7, <3>2, Zenon
    <3> QED  BY <3>1, <3>3, Zenon
  <2> QED  BY <1>1, <1>2, <2>1
<1>16. ASSUME NEW id, id # e.id PROVE Holds(r, id) <=> Holds(h, id)
  <2>1. Holds(r, id) <=> \E k \in 2 .. m + 1 : b[k].id = id
    BY <1>14
  <2>2. Holds(r, id) <=> \E k \in 1 .. m + 1 : b[k].id = id
    BY <1>1, <1>2, <1>8, <1>16, <2>1
  <2>3. Holds(r, id) <=> \E k \in 1 .. m + 1 : a[k].id = id
    <3>1. \A k \in 1 .. m + 1 : \E i \in 1 .. m + 1 : a[k] = b[i]
      BY <1>7, SMTT(20)
    <3>2. \A i \in 1 .. m + 1 : \E k \in 1 .. m + 1 : b[i] = a[k]
      BY <1>7
    <3> QED  BY <2>2, <3>1, <3>2, ZenonT(30)
  <2>4. Holds(h, id) <=> \E k \in 1 .. m : a[k].id = id
    BY <1>1 DEF Holds, m
  <2> QED  BY <1>1, <1>2, <1>16, <2>3, <2>4
<1> QED  BY <1>5, <1>14, <1>15, <1>16 DEF m, ElementsFrom

Original(e, id) ==
  /\ e.id = id /\ e.priority \in AllPriorities
  /\ e.recurring => e.interval \in Intervals

(* What a copy in the queue and its original have in common. *)
Copy(e, originals, time) ==
  /\ e.id \in 1 .. Len(originals)
  /\ e.recurring = originals[e.id].recurring
  /\ e.recurring \/ e.active
  /\ e.priority \in AllPriorities
  /\ \E d \in AllDelays : e.timestamp <= time + d

SchedulerTypes ==
  /\ event_queue \in Seq(Event) /\ active_events \in Seq(Event)
  /\ next_event_id = Len(active_events) + 1 /\ Len(active_events) <= MaxEvents
  /\ current_time \in Nat /\ limit \in Nat
  /\ phase \in {"idle", "process", "callback"}
  /\ fired \in [1 .. MaxEvents -> Nat]

CallbackIsOnTop ==
  phase = "callback" =>
    /\ event_queue # <<>> /\ event_queue[1] = running
    /\ running.active /\ running.timestamp <= limit

DueAtMost == phase # "idle" /\ Targets = {} => limit <= current_time

FiredUnlessQueued ==
  \A id \in 1 .. MaxEvents :
    /\ id > Len(active_events) => fired[id] = 0
    /\ id <= Len(active_events) /\ ~active_events[id].recurring =>
         fired[id] = IF (phase = "callback" /\ running.id = id) \/ ~Holds(event_queue, id)
                       THEN 1 ELSE 0

EventInv ==
  /\ SchedulerTypes
  /\ IsQueue(event_queue)
  /\ \A id \in 1 .. Len(active_events) : Original(active_events[id], id)
  /\ \A i \in 1 .. Len(event_queue) : Copy(event_queue[i], active_events, current_time)
  /\ CallbackIsOnTop
  /\ DueAtMost
  /\ FiredUnlessQueued

LEMMA QueueConstants ==
  /\ AllDelays \subseteq Nat /\ AllPriorities \subseteq Nat /\ Intervals \subseteq AllDelays
  /\ Delays \subseteq AllDelays /\ Priorities \subseteq AllPriorities
  /\ \A e \in CallbackEvents : e[1] \in AllDelays /\ e[2] \in AllPriorities
  /\ Targets \subseteq Nat /\ Intervals \subseteq Nat /\ MaxEvents \in Nat
  /\ MaxFired \in Nat /\ MaxFired > 0
BY QueueAssumption DEF AllDelays, AllPriorities

LEMMA EventInvInit == QueueInit => EventInv
<1> SUFFICES ASSUME QueueInit PROVE EventInv
  OBVIOUS
<1>1. SchedulerTypes
  BY QueueConstants DEF QueueInit, SchedulerTypes
<1> QED
  BY <1>1 DEF QueueInit, EventInv, IsQueue, IsHeap, Distinct, CallbackIsOnTop, DueAtMost,
              FiredUnlessQueued, Holds

(* schedule_event *)
LEMMA ScheduleStep ==
  ASSUME EventInv, NEW delay \in AllDelays, NEW priority \in AllPriorities,
         NEW recurring \in BOOLEAN, NEW interval \in Nat,
         recurring => interval \in Intervals,
         Schedule(delay, priority, recurring, interval),
         UNCHANGED <<clockVars, phase, limit, running, fired>>,
         phase = "callback" =>
           \/ running.timestamp < current_time + delay
           \/ running.timestamp = current_time + delay /\ running.priority <= priority
  PROVE  EventInv'
<1> DEFINE q == event_queue
           n == Len(active_events)
<1>1. PICK active \in BOOLEAN : active = TRUE
  OBVIOUS
<1> DEFINE e == [id |-> next_event_id, timestamp |-> current_time + delay,
                 priority |-> priority, recurring |-> recurring, interval |-> interval,
                 active |-> active]
           r == Push(q, e)
<1>2. /\ q \in Seq(Event) /\ active_events \in Seq(Event) /\ next_event_id = n + 1
      /\ current_time \in Nat /\ n \in Nat /\ IsQueue(q)
  BY DEF EventInv, SchedulerTypes
<1>3. e \in Event
  BY <1>2, QueueConstants DEF Event
<1>4. /\ next_event_id <= MaxEvents /\ event_queue' = r
      /\ active_events' = Append(active_events, e) /\ next_event_id' = next_event_id + 1
  BY <1>1 DEF Schedule
<1>5. /\ e.id = n + 1 /\ e.timestamp = current_time + delay /\ e.priority = priority
      /\ e.recurring = recurring /\ e.interval = interval /\ e.active
  BY <1>1, <1>2
<1> HIDE DEF e
<1>6. \A i \in 1 .. Len(q) : Copy(q[i], active_events, current_time) /\ q[i].id \in 1 .. n
  BY DEF EventInv, Copy
<1>7. ~Holds(q, e.id)
  BY <1>2, <1>5, <1>6 DEF Holds
<1>8. r = Push(q, e)
  OBVIOUS
<1> HIDE DEF r, q
<1>9. /\ IsQueue(r) /\ ElementsFrom(r, q, {e})
      /\ \A id : Holds(r, id) <=> id = e.id \/ Holds(q, id)
      /\ q # <<>> /\ ~Greater(q[1], e) => r # <<>> /\ r[1] = q[1]
  BY <1>2, <1>3, <1>7, <1>8, Pushed, Zenon
<1>10. /\ active_events' \in Seq(Event) /\ Len(active_events') = n + 1
       /\ \A id \in 1 .. n : active_events'[id] = active_events[id]
       /\ active_events'[n + 1] = e
  BY <1>2, <1>3, <1>4
<1>11. UNCHANGED <<current_time, phase, limit, running, fired>>
  BY DEF clockVars
<1>12. SchedulerTypes'
  BY <1>2, <1>4, <1>9, <1>10, <1>11, QueueConstants DEF EventInv, SchedulerTypes, IsQueue
<1>13. \A id \in 1 .. n + 1 : Original(active_events'[id], id)
  <2>1. Original(e, n + 1)
    BY <1>5 DEF Original
  <2>2. \A id \in 1 .. n : Original(active_events[id], id)
    BY DEF EventInv
  <2> QED  BY <1>2, <1>10, <2>1, <2>2
<1>14. \A i \in 1 .. Len(r) : Copy(r[i], active_events', current_time)
  <2>1. Copy(e, active_events', current_time)
    <3>1. e.timestamp <= current_time + delay
      BY <1>2, <1>5, QueueConstants
    <3> QED  BY <1>2, <1>5, <1>10, <3>1 DEF Copy
  <2>2. ASSUME NEW k \in 1 .. Len(q) PROVE Copy(q[k], active_events', current_time)
    <3>1. Copy(q[k], active_events, current_time)
      BY <1>6
    <3> QED  BY <1>2, <1>10, <3>1 DEF Copy
  <2> QED  BY <1>9, <2>1, <2>2 DEF ElementsFrom
<1>15. CallbackIsOnTop'
  <2> SUFFICES ASSUME phase = "callback"
               PROVE  /\ r # <<>> /\ r[1] = running
                      /\ running.active /\ running.timestamp <= limit
    BY <1>4, <1>11 DEF CallbackIsOnTop
  <2>1. q # <<>> /\ q[1] = running /\ running.active /\ running.timestamp <= limit
    BY DEF EventInv, CallbackIsOnTop, q
  <2>2. q[1] \in Event
    BY <1>2, <2>1
  <2>3. ~Greater(q[1], e)
    BY <1>2, <1>5, <2>1, <2>2, QueueConstants, SMTT(20) DEF Greater, Event
  <2> QED  BY <1>9, <2>1, <2>3
<1>16. DueAtMost'
  BY <1>11 DEF EventInv, DueAtMost
<1>17. FiredUnlessQueued'
  <2>1. ASSUME NEW id \in 1 .. MaxEvents
        PROVE  /\ id > n + 1 => fired[id] = 0
               /\ id <= n + 1 /\ ~active_events'[id].recurring =>
                    fired[id] = IF (phase = "callback" /\ running.id = id) \/ ~Holds(r, id)
                                  THEN 1 ELSE 0
    <3>1. /\ id > n => fired[id] = 0
          /\ id <= n /\ ~active_events[id].recurring =>
               fired[id] = IF (phase = "callback" /\ running.id = id) \/ ~Holds(q, id)
                             THEN 1 ELSE 0
      BY DEF EventInv, FiredUnlessQueued, q
    <3>2. CASE id <= n
      <4>1. id \in 1 .. n /\ id # e.id
        BY <1>2, <1>5, <3>2, QueueConstants
      <4> QED  BY <1>2, <1>9, <1>10, <3>1, <3>2, <4>1
    <3>3. CASE id = n + 1
      <4>1. fired[id] = 0 /\ Holds(r, id)
        BY <1>2, <1>5, <1>9, <3>1, <3>3
      <4>2. phase = "callback" => running.id # id
        <5> SUFFICES ASSUME phase = "callback" PROVE running.id # id
          OBVIOUS
        <5>1. q # <<>> /\ q[1] = running
          BY DEF EventInv, CallbackIsOnTop, q
        <5>2. 1 \in 1 .. Len(q)
          BY <1>2, <5>1
        <5> QED  BY <1>2, <1>6, <3>3, <5>1, <5>2
      <4> QED  BY <1>2, <3>3, <4>1, <4>2
    <3>4. CASE id > n + 1
      BY <1>2, <3>1, <3>4
    <3> QED  BY <1>2, <3>2, <3>3, <3>4
  <2> QED  BY <1>4, <1>10, <1>11, <2>1 DEF FiredUnlessQueued
<1> QED
  BY <1>4, <1>9, <1>10, <1>11, <1>12, <1>13, <1>14, <1>15, <1>16, <1>17 DEF EventInv

KeepsFixed(new, old) ==
  /\ Len(new) = Len(old)
  /\ \A id \in 1 .. Len(old) :
       /\ new[id].id = old[id].id
       /\ new[id].priority = old[id].priority
       /\ new[id].recurring = old[id].recurring
       /\ new[id].interval = old[id].interval

Copies(E, originals, time) == \A e \in E : Copy(e, originals, time)

(* All that a step leaves to show if it keeps what never changes of the      *)
(* originals, and queues nothing but old events and copies of the originals. *)
LEMMA OriginalsKept ==
  ASSUME EventInv, SchedulerTypes',
         KeepsFixed(active_events', active_events),
         current_time <= current_time',
         NEW E, ElementsFrom(event_queue', event_queue, E), IsQueue(event_queue'),
         Copies(E, active_events', current_time'),
         CallbackIsOnTop', DueAtMost', FiredUnlessQueued'
  PROVE  EventInv'
<1> USE DEF KeepsFixed
<1>1. current_time \in Nat /\ current_time' \in Nat
  BY DEF EventInv, SchedulerTypes
<1>2. ASSUME NEW id \in 1 .. Len(active_events) PROVE Original(active_events'[id], id)
  <2>1. Original(active_events[id], id)
    BY DEF EventInv
  <2> QED  BY <2>1 DEF Original
<1>3. ASSUME NEW i \in 1 .. Len(event_queue)
      PROVE  Copy(event_queue[i], active_events', current_time')
  <2>1. Copy(event_queue[i], active_events, current_time)
    BY DEF EventInv
  <2>2. PICK d \in AllDelays : event_queue[i].timestamp <= current_time + d
    BY <2>1 DEF Copy
  <2>3. event_queue[i] \in Event
    BY DEF EventInv, SchedulerTypes
  <2>4. event_queue[i].timestamp <= current_time' + d
    BY <1>1, <2>2, <2>3, QueueConstants DEF Event
  <2> QED  BY <2>1, <2>4 DEF Copy
<1>4. \A i \in 1 .. Len(event_queue') : Copy(event_queue'[i], active_events', current_time')
  BY <1>3 DEF ElementsFrom, Copies
<1> QED  BY <1>2, <1>4 DEF EventInv

LEMMA QueueKept ==
  ASSUME EventInv, UNCHANGED event_queue
  PROVE  IsQueue(event_queue') /\ ElementsFrom(event_queue', event_queue, {})
BY DEF EventInv, ElementsFrom

SameFixed(a, b) ==
  /\ a.id = b.id /\ a.priority = b.priority
  /\ a.recurring = b.recurring /\ a.interval = b.interval

LEMMA ReplaceOne ==
  ASSUME NEW f \in Seq(Event), NEW i \in 1 .. Len(f), NEW o \in Event, SameFixed(o, f[i])
  PROVE  LET g == [f EXCEPT ![i] = o]
         IN g \in Seq(Event) /\ KeepsFixed(g, f) /\ g[i] = o
BY DEF KeepsFixed, SameFixed

(* cancel_event, pause_event and resume_event *)
LEMMA MarkOriginal ==
  ASSUME EventInv, NEW id \in DOMAIN active_events, NEW o \in Event,
         SameFixed(o, active_events[id]),
         active_events' = [active_events EXCEPT ![id] = o],
         UNCHANGED <<event_queue, next_event_id, clockVars, loopVars>>
  PROVE  EventInv'
<1>1. active_events \in Seq(Event) /\ id \in 1 .. Len(active_events)
  BY DEF EventInv, SchedulerTypes
<1>2. active_events' \in Seq(Event) /\ KeepsFixed(active_events', active_events)
  BY <1>1, ReplaceOne
<1>3. UNCHANGED <<event_queue, next_event_id, current_time, phase, limit, running, fired>>
  BY DEF clockVars, loopVars
<1>4. SchedulerTypes'
  BY <1>2, <1>3 DEF EventInv, SchedulerTypes, KeepsFixed
<1>5. CallbackIsOnTop' /\ DueAtMost'
  BY <1>3 DEF EventInv, CallbackIsOnTop, DueAtMost
<1>6. FiredUnlessQueued'
  BY <1>1, <1>2, <1>3 DEF EventInv, FiredUnlessQueued, KeepsFixed
<1>7. current_time <= current_time'
  BY <1>3 DEF EventInv, SchedulerTypes
<1>8. IsQueue(event_queue') /\ ElementsFrom(event_queue', event_queue, {})
  BY <1>3, QueueKept
<1>9. Copies({}, active_events', current_time')
  BY DEF Copies
<1> QED
  BY <1>2, <1>4, <1>5, <1>6, <1>7, <1>8, <1>9, OriginalsKept, Zenon

(* The steps that leave the originals alone. *)
LEMMA ActiveEventsKept ==
  ASSUME EventInv, SchedulerTypes', UNCHANGED active_events, current_time <= current_time',
         ElementsFrom(event_queue', event_queue, {}), IsQueue(event_queue'),
         CallbackIsOnTop', DueAtMost', FiredUnlessQueued'
  PROVE  EventInv'
<1>1. KeepsFixed(active_events', active_events)
  BY DEF KeepsFixed
<1>2. Copies({}, active_events', current_time')
  BY DEF Copies
<1> QED  BY <1>1, <1>2, OriginalsKept, Zenon

(* PauseClock, SetTime, Enter and Leave *)
LEMMA ClockStep ==
  ASSUME EventInv, UNCHANGED <<queueVars, running, fired>>,
         current_time' \in Nat, current_time <= current_time', limit' \in Nat,
         phase' \in {"idle", "process", "callback"},
         phase' = "callback" <=> phase = "callback",
         phase = "callback" => limit' = limit,
         DueAtMost'
  PROVE  EventInv'
<1>1. UNCHANGED <<event_queue, active_events, next_event_id, running, fired>>
  BY DEF queueVars
<1>2. SchedulerTypes'
  BY <1>1 DEF EventInv, SchedulerTypes
<1>3. CallbackIsOnTop'
  BY <1>1 DEF EventInv, CallbackIsOnTop
<1>4. FiredUnlessQueued'
  BY <1>1 DEF EventInv, FiredUnlessQueued
<1> QED  BY <1>1, <1>2, <1>3, <1>4, QueueKept, ActiveEventsKept

LEMMA ResetQueueStep == EventInv /\ ResetQueue => EventInv'
<1> SUFFICES ASSUME EventInv, ResetQueue PROVE EventInv'
  OBVIOUS
<1>1. SchedulerTypes'
  BY QueueConstants DEF EventInv, ResetQueue, SchedulerTypes
<1> QED
  BY <1>1 DEF ResetQueue, EventInv, IsQueue, IsHeap, Distinct, CallbackIsOnTop, DueAtMost,
              FiredUnlessQueued, Holds

LEMMA SkipInactiveStep == EventInv /\ SkipInactive => EventInv'
<1> SUFFICES ASSUME EventInv, SkipInactive PROVE EventInv'
  OBVIOUS
<1> DEFINE q == event_queue
           top == q[1].id
<1>1. /\ q # <<>> /\ ~q[1].active /\ event_queue' = Pop(q) /\ phase = "process"
      /\ UNCHANGED <<active_events, next_event_id, current_time, phase, limit, running, fired>>
  BY DEF SkipInactive, More, clockVars, loopVars
<1>2. IsQueue(q) /\ q \in Seq(Event)
  BY DEF EventInv, SchedulerTypes
<1>3. 1 \in 1 .. Len(q)
  BY <1>1, <1>2
<1>4. active_events[top].recurring
  BY <1>1, <1>3 DEF EventInv, Copy
<1> HIDE DEF q
<1>5. /\ IsQueue(event_queue') /\ ElementsFrom(event_queue', q, {})
      /\ \A id : Holds(event_queue', id) <=> id # top /\ Holds(q, id)
  BY <1>1, <1>2, Popped, Zenon
<1>6. SchedulerTypes'
  BY <1>1, <1>5 DEF EventInv, SchedulerTypes, IsQueue
<1>7. CallbackIsOnTop' /\ DueAtMost'
  BY <1>1 DEF EventInv, CallbackIsOnTop, DueAtMost
<1>8. FiredUnlessQueued'
  <2>1. \A id \in 1 .. MaxEvents :
          id <= Len(active_events) /\ ~active_events[id].recurring =>
            (Holds(event_queue', id) <=> Holds(event_queue, id))
    BY <1>4, <1>5 DEF q
  <2> QED  BY <1>1, <2>1 DEF EventInv, FiredUnlessQueued
<1>9. current_time <= current_time'
  BY <1>1 DEF EventInv, SchedulerTypes
<1> QED  BY <1>1, <1>5, <1>6, <1>7, <1>8, <1>9, ActiveEventsKept DEF q

LEMMA CallCallbackStep == EventInv /\ CallCallback => EventInv'
<1> SUFFICES ASSUME EventInv, CallCallback PROVE EventInv'
  OBVIOUS
<1> DEFINE top == event_queue[1].id
<1>1. /\ event_queue # <<>> /\ event_queue[1].active /\ event_queue[1].timestamp <= limit
      /\ phase = "process" /\ phase' = "callback" /\ running' = event_queue[1]
      /\ UNCHANGED <<event_queue, active_events, next_event_id, current_time, limit>>
  BY DEF CallCallback, More, queueVars, clockVars
<1>2. event_queue \in Seq(Event) /\ 1 \in 1 .. Len(event_queue)
  BY <1>1 DEF EventInv, SchedulerTypes
<1>3. /\ top \in 1 .. Len(active_events) /\ Holds(event_queue, top)
      /\ event_queue[1].recurring = active_events[top].recurring
  BY <1>2 DEF EventInv, Copy, Holds
<1>4. fired \in [1 .. MaxEvents -> Nat] /\ Len(active_events) <= MaxEvents
  BY DEF EventInv, SchedulerTypes
<1>5. fired' = [fired EXCEPT ![running'.id] =
                  IF ~running'.recurring /\ @ < MaxFired THEN @ + 1 ELSE @]
  BY DEF CallCallback
<1>6. /\ fired' \in [1 .. MaxEvents -> Nat]
      /\ \A id \in 1 .. MaxEvents :
           fired'[id] = IF id = top /\ ~event_queue[1].recurring /\ fired[id] < MaxFired
                          THEN fired[id] + 1 ELSE fired[id]
  <2>1. event_queue[1] \in Event
    BY <1>2
  <2> DEFINE r == running'
  <2>2. r.recurring \in BOOLEAN /\ r = event_queue[1]
    BY <1>1, <2>1 DEF Event
  <2>3. PICK more \in Nat : more = IF ~r.recurring /\ fired[r.id] < MaxFired
                                     THEN fired[r.id] + 1 ELSE fired[r.id]
    <3>1. fired[r.id] \in Nat
      <4>1. top \in 1 .. MaxEvents
        BY <1>3, <1>4, QueueConstants DEF EventInv, SchedulerTypes
      <4> QED  BY <1>4, <2>2, <4>1
    <3> QED  BY <3>1
  <2>4. fired' = [fired EXCEPT ![r.id] = more]
    BY <1>5, <2>3
  <2> HIDE DEF r
  <2> QED  BY <1>4, <2>2, <2>3, <2>4
<1>7. SchedulerTypes'
  BY <1>1, <1>6 DEF EventInv, SchedulerTypes
<1>8. CallbackIsOnTop' /\ DueAtMost'
  BY <1>1 DEF EventInv, CallbackIsOnTop, DueAtMost
<1>9. FiredUnlessQueued'
  <2>1. ASSUME NEW id \in 1 .. MaxEvents
        PROVE  /\ id > Len(active_events) => fired'[id] = 0
               /\ id <= Len(active_events) /\ ~active_events[id].recurring =>
                    fired'[id] = IF top = id \/ ~Holds(event_queue, id) THEN 1 ELSE 0
    <3>1. /\ id > Len(active_events) => fired[id] = 0
          /\ id <= Len(active_events) /\ ~active_events[id].recurring =>
               fired[id] = IF ~Holds(event_queue, id) THEN 1 ELSE 0
      BY <1>1 DEF EventInv, FiredUnlessQueued
    <3>2. CASE id = top
      <4>1. id <= Len(active_events)
        BY <1>3, <3>2
      <4>2. ~active_events[id].recurring => fired[id] = 0 /\ fired'[id] = 1
        BY <1>3, <1>6, <3>1, <3>2, <4>1, QueueConstants, SMTT(20)
      <4> QED  BY <3>2, <4>1, <4>2, QueueConstants DEF EventInv, SchedulerTypes
    <3>3. CASE id # top
      BY <1>6, <3>1, <3>3
    <3> QED  BY <3>2, <3>3
  <2> QED  BY <1>1, <2>1 DEF FiredUnlessQueued
<1>10. current_time <= current_time'
  BY <1>1 DEF EventInv, SchedulerTypes
<1> QED  BY <1>1, <1>7, <1>8, <1>9, <1>10, QueueKept, ActiveEventsKept

LEMMA CallbackReturnsStep == EventInv /\ CallbackReturns => EventInv'
<1> SUFFICES ASSUME EventInv, CallbackReturns PROVE EventInv'
  OBVIOUS
<1> DEFINE q == event_queue
<1>0. PICK id : id = running.id
  OBVIOUS
<1>1. /\ phase = "callback" /\ phase' = "process"
      /\ UNCHANGED <<next_event_id, current_time, limit, fired>>
  BY DEF CallbackReturns, clockVars
<1>2. q # <<>> /\ q[1] = running /\ running.active
  BY <1>1 DEF EventInv, CallbackIsOnTop
<1>3. IsQueue(q) /\ q \in Seq(Event) /\ active_events \in Seq(Event) /\ current_time \in Nat
  BY DEF EventInv, SchedulerTypes
<1>4. 1 \in 1 .. Len(q) /\ running \in Event
  BY <1>2, <1>3
<1>5. id \in 1 .. Len(active_events) /\ running.recurring = active_events[id].recurring
  BY <1>2, <1>4, <1>0 DEF EventInv, Copy
<1>6. Original(active_events[id], id) /\ active_events[id] \in Event
  BY <1>3, <1>5 DEF EventInv
<1>7. IF running.recurring
        THEN /\ active_events' = [active_events EXCEPT
                  ![id].timestamp = current_time + active_events[id].interval]
             /\ event_queue' = Pop(Push(q, active_events'[id]))
        ELSE event_queue' = Pop(q) /\ UNCHANGED active_events
  BY <1>2, <1>0 DEF CallbackReturns
<1>8. current_time <= current_time'
  BY <1>1, <1>3
<1>9. CallbackIsOnTop' /\ DueAtMost'
  BY <1>1 DEF EventInv, CallbackIsOnTop, DueAtMost
<1>10. \A k \in 1 .. MaxEvents :
         /\ k > Len(active_events) => fired[k] = 0
         /\ k <= Len(active_events) /\ ~active_events[k].recurring =>
              fired[k] = IF id = k \/ ~Holds(q, k) THEN 1 ELSE 0
  BY <1>1, <1>0 DEF EventInv, FiredUnlessQueued
<1>11. CASE ~running.recurring
  <2>1. event_queue' = Pop(q) /\ UNCHANGED active_events
    BY <1>7, <1>11
  <2> HIDE DEF q
  <2>2. /\ IsQueue(event_queue') /\ ElementsFrom(event_queue', q, {})
        /\ \A k : Holds(event_queue', k) <=> k # q[1].id /\ Holds(q, k)
    BY <1>2, <1>3, <2>1, Popped, Zenon
  <2>3. SchedulerTypes'
    BY <1>1, <2>1, <2>2 DEF EventInv, SchedulerTypes, IsQueue
  <2>4. FiredUnlessQueued'
    BY <1>1, <1>2, <1>10, <1>0, <2>1, <2>2 DEF FiredUnlessQueued
  <2> QED  BY <1>8, <1>9, <2>1, <2>2, <2>3, <2>4, ActiveEventsKept DEF q
<1>12. CASE running.recurring
  <2> DEFINE e == active_events'[id]
  <2>1. PICK time \in Nat : time = current_time + active_events[id].interval
    BY <1>3, <1>6, SMTT(20) DEF Event
  <2>2. PICK o : o = [active_events[id] EXCEPT !.timestamp = time]
    OBVIOUS
  <2>3. o \in Event /\ active_events' = [active_events EXCEPT ![id] = o]
    BY <1>6, <1>7, <1>12, <2>1, <2>2 DEF Event
  <2>4. /\ o.id = id /\ o.timestamp = time /\ SameFixed(o, active_events[id])
    BY <1>6, <2>2 DEF Event, Original, SameFixed
  <2>5. /\ active_events' \in Seq(Event) /\ KeepsFixed(active_events', active_events)
        /\ active_events'[id] = o
    <3> DEFINE g == [active_events EXCEPT ![id] = o]
    <3>1. /\ active_events \in Seq(Event) /\ id \in 1 .. Len(active_events)
          /\ o \in Event /\ SameFixed(o, active_events[id])
      BY <1>3, <1>5, <2>3, <2>4
    <3>2. g \in Seq(Event) /\ KeepsFixed(g, active_events) /\ g[id] = o
      BY <3>1, ReplaceOne, ZenonT(40)
    <3>3. active_events' = g
      BY <2>3
    <3> HIDE DEF g
    <3> QED  BY <3>2, <3>3, Zenon
  <2>6. e = o /\ event_queue' = Pop(Push(q, o))
    BY <1>5, <1>7, <1>12, <2>5
  <2>7. o.id = q[1].id
    BY <1>2, <1>0, <2>4
  <2> HIDE DEF q
  <2>8. /\ IsQueue(event_queue') /\ ElementsFrom(event_queue', q, {o})
        /\ \A k : k # o.id => (Holds(event_queue', k) <=> Holds(q, k))
    BY <1>2, <1>3, <2>3, <2>6, <2>7, Renewed, Zenon
  <2>9. SchedulerTypes'
    BY <1>1, <2>5, <2>8 DEF EventInv, SchedulerTypes, IsQueue, KeepsFixed
  <2>10. Copies({o}, active_events', current_time')
    <3>1. active_events[id].interval \in AllDelays
      BY <1>5, <1>6, <1>12, QueueConstants DEF Original
    <3>2. o.timestamp <= current_time' + active_events[id].interval
      BY <1>1, <2>1, <2>4
    <3>3. /\ o.id \in 1 .. Len(active_events') /\ o.priority \in AllPriorities
          /\ o.recurring /\ o.recurring = active_events'[o.id].recurring
      BY <1>5, <1>6, <1>12, <2>4, <2>5 DEF Original, KeepsFixed, SameFixed
    <3> QED  BY <3>1, <3>2, <3>3 DEF Copies, Copy
  <2>11. FiredUnlessQueued'
    <3>1. \A k \in 1 .. Len(active_events) : active_events'[k].recurring = active_events[k].recurring
      BY <2>5 DEF KeepsFixed
    <3>2. Len(active_events') = Len(active_events)
      BY <2>5 DEF KeepsFixed
    <3>3. ASSUME NEW k \in 1 .. MaxEvents
          PROVE  /\ k > Len(active_events') => fired'[k] = 0
                 /\ k <= Len(active_events') /\ ~active_events'[k].recurring =>
                      fired'[k] = IF (phase' = "callback" /\ running'.id = k) \/ ~Holds(event_queue', k)
                                    THEN 1 ELSE 0
      <4>1. CASE k > Len(active_events)
        BY <1>1, <1>3, <1>10, <3>2, <4>1
      <4>2. CASE k <= Len(active_events)
        <5>1. k \in 1 .. Len(active_events)
          BY <4>2
        <5>2. active_events'[k].recurring = active_events[k].recurring
          BY <3>1, <5>1
        <5>3. ~active_events[k].recurring => k # id
          BY <1>5, <1>12
        <5> QED  BY <1>1, <1>3, <1>10, <2>4, <2>8, <3>2, <4>2, <5>2, <5>3
      <4> QED  BY <1>3, <4>1, <4>2
    <3> QED  BY <3>3 DEF FiredUnlessQueued
  <2> QED  BY <1>8, <1>9, <2>5, <2>8, <2>9, <2>10, <2>11, OriginalsKept, Zenon DEF q
<1> QED  BY <1>11, <1>12

LEMMA EventInvNext == CallbacksGoBehind /\ EventInv /\ [QueueNext]_schedulerVars => EventInv'
<1> SUFFICES ASSUME CallbacksGoBehind, EventInv, [QueueNext]_schedulerVars PROVE EventInv'
  OBVIOUS
<1>1. ASSUME HostSchedules PROVE EventInv'
  <2>1. phase = "idle" /\ UNCHANGED <<clockVars, phase, limit, running, fired>>
    BY <1>1 DEF HostSchedules, loopVars
  <2>2. PICK delay \in Delays, priority \in Priorities :
          \/ Schedule(delay, priority, FALSE, 0)
          \/ \E interval \in Intervals : Schedule(delay, priority, TRUE, interval)
    BY <1>1 DEF HostSchedules
  <2>3. delay \in AllDelays /\ priority \in AllPriorities
    BY QueueConstants
  <2>4. CASE Schedule(delay, priority, FALSE, 0)
    BY <2>1, <2>3, <2>4, ScheduleStep
  <2>5. ASSUME NEW interval \in Intervals, Schedule(delay, priority, TRUE, interval) PROVE EventInv'
    BY <2>1, <2>3, <2>5, ScheduleStep, QueueConstants
  <2> QED  BY <2>2, <2>4, <2>5
<1>2. ASSUME CallbackSchedules PROVE EventInv'
  <2>1. phase = "callback" /\ UNCHANGED <<clockVars, phase, limit, running, fired>>
    BY <1>2 DEF CallbackSchedules
  <2>2. PICK e \in CallbackEvents : Schedule(e[1], e[2], FALSE, 0)
    BY <1>2 DEF CallbackSchedules
  <2>3. /\ event_queue # <<>> /\ event_queue[1] = running /\ running.timestamp <= limit
        /\ event_queue \in Seq(Event) /\ current_time \in Nat /\ limit \in Nat
    BY <2>1 DEF EventInv, CallbackIsOnTop, SchedulerTypes
  <2>4. 1 \in 1 .. Len(event_queue) /\ running \in Event
    BY <2>3
  <2>5. running.priority \in AllPriorities
        /\ \E d \in AllDelays : running.timestamp <= current_time + d
    BY <2>3, <2>4 DEF EventInv, Copy
  <2>6. PICK d \in Ahead : running.timestamp <= current_time + d
    <3>1. CASE Targets = {}
      <4>1. limit <= current_time
        BY <2>1, <3>1 DEF EventInv, DueAtMost
      <4>2. running.timestamp <= current_time + 0
        BY <2>3, <2>4, <4>1 DEF Event
      <4> QED  BY <3>1, <4>2 DEF Ahead
    <3>2. CASE Targets # {}
      BY <2>5, <3>2 DEF Ahead
    <3> QED  BY <3>1, <3>2
  <2>7. d < e[1] \/ (d = e[1] /\ running.priority <= e[2])
    BY <2>5, <2>6, Zenon DEF CallbacksGoBehind
  <2>8. e[1] \in AllDelays /\ e[2] \in AllPriorities /\ e[1] \in Nat /\ d \in Nat
    <3>1. Ahead \subseteq Nat
      BY QueueConstants DEF Ahead
    <3>2. e[1] \in AllDelays /\ e[2] \in AllPriorities
      BY QueueConstants
    <3> QED  BY <3>1, <3>2, QueueConstants
  <2>9. \/ running.timestamp < current_time + e[1]
        \/ running.timestamp = current_time + e[1] /\ running.priority <= e[2]
    <3>1. running.timestamp \in Nat
      BY <2>4 DEF Event
    <3>2. current_time \in Nat
      BY <2>3
    <3>3. CASE d < e[1]
      <4>1. running.timestamp < current_time + e[1]
        BY <2>6, <2>8, <3>1, <3>2, <3>3
      <4> QED  BY <4>1
    <3>4. CASE d = e[1] /\ running.priority <= e[2]
      <4>1. running.timestamp < current_time + e[1] \/ running.timestamp = current_time + e[1]
        BY <2>6, <2>8, <3>1, <3>2, <3>4
      <4> QED  BY <3>4, <4>1
    <3> QED  BY <2>7, <3>3, <3>4
  <2> QED  BY <2>1, <2>2, <2>8, <2>9, ScheduleStep, Zenon
<1>3. ASSUME NEW id \in DOMAIN active_events, Cancel(id) \/ Resume(id) PROVE EventInv'
  <2>1. PICK yes \in BOOLEAN, no \in BOOLEAN : yes = TRUE /\ no = FALSE
    OBVIOUS
  <2>2. /\ active_events \in Seq(Event) /\ active_events[id] \in Event /\ current_time \in Nat
        /\ UNCHANGED <<event_queue, next_event_id, clockVars, loopVars>>
    BY <1>3 DEF Cancel, Resume, EventInv, SchedulerTypes
  <2>3. CASE Cancel(id)
    <3>1. active_events' = [active_events EXCEPT ![id].active = no]
      BY <2>1, <2>3, Zenon DEF Cancel
    <3>2. PICK o : o = [active_events[id] EXCEPT !.active = no]
      OBVIOUS
    <3>3. o \in Event /\ SameFixed(o, active_events[id])
      BY <2>2, <3>2 DEF Event, SameFixed
    <3>4. active_events' = [active_events EXCEPT ![id] = o]
      BY <3>1, <3>2
    <3> QED  BY <2>2, <3>3, <3>4, MarkOriginal, Zenon
  <2>4. CASE Resume(id)
    <3>1. PICK time : time = IF active_events[id].recurring
                                  /\ active_events[id].timestamp <= current_time
                               THEN current_time + active_events[id].interval
                               ELSE active_events[id].timestamp
      OBVIOUS
    <3>2. time \in Nat
      BY <2>2, <3>1, SMTT(20) DEF Event
    <3>3. active_events' = [active_events EXCEPT ![id].active = yes, ![id].timestamp = time]
      BY <2>1, <2>4, <3>1 DEF Resume
    <3>4. PICK o : o = [active_events[id] EXCEPT !.active = yes, !.timestamp = time]
      OBVIOUS
    <3>5. o \in Event /\ SameFixed(o, active_events[id])
      BY <2>2, <3>2, <3>4 DEF Event, SameFixed
    <3>6. active_events' = [active_events EXCEPT ![id] = o]
      BY <3>3, <3>4
    <3> QED  BY <2>2, <3>5, <3>6, MarkOriginal, Zenon
  <2> QED  BY <1>3, <2>3, <2>4
<1>4. ASSUME NEW b \in BOOLEAN, PauseClock(b) PROVE EventInv'
  BY <1>4, ClockStep DEF PauseClock, loopVars, EventInv, SchedulerTypes, DueAtMost
<1>5. ASSUME NEW t \in 1 .. MaxTime, SetTime(t) PROVE EventInv'
  BY <1>5, ClockStep DEF SetTime, loopVars, EventInv, SchedulerTypes, DueAtMost
<1>6. ASSUME NEW t \in Nat, Targets = {} => t = current_time, Enter(t) PROVE EventInv'
  BY <1>6, ClockStep DEF Enter, clockVars, EventInv, SchedulerTypes, DueAtMost
<1>7. ASSUME Leave PROVE EventInv'
  BY <1>7, ClockStep DEF Leave, clockVars, EventInv, SchedulerTypes, DueAtMost
<1>8. ASSUME UNCHANGED schedulerVars PROVE EventInv'
  BY <1>8, ClockStep DEF schedulerVars, queueVars, EventInv, SchedulerTypes, DueAtMost
<1>9. current_time \in Nat /\ \A t \in Targets : t \in Nat
  BY QueueConstants DEF EventInv, SchedulerTypes
<1> QED
  BY <1>1, <1>2, <1>3, <1>4, <1>5, <1>6, <1>7, <1>8, <1>9, ResetQueueStep, SkipInactiveStep,
     CallCallbackStep, CallbackReturnsStep DEF QueueNext, Process

LEMMA EventInvariance == CallbacksGoBehind /\ QueueSpec => []EventInv
<1> SUFFICES ASSUME CallbacksGoBehind PROVE QueueSpec => []EventInv
  OBVIOUS
<1> QED  BY EventInvInit, EventInvNext, PTL DEF QueueSpec

LEMMA QueuedOnce ==
  ASSUME EventInv, NEW id
  PROVE  Cardinality(Queued(id)) = IF Holds(event_queue, id) THEN 1 ELSE 0
<1>1. DOMAIN event_queue = 1 .. Len(event_queue)
  BY DEF EventInv, SchedulerTypes
<1>2. CASE ~Holds(event_queue, id)
  <2>1. Queued(id) = {}
    BY <1>1, <1>2 DEF Queued, Holds
  <2> QED  BY <1>2, <2>1, FS_EmptySet
<1>3. CASE Holds(event_queue, id)
  <2>1. PICK i \in 1 .. Len(event_queue) : event_queue[i].id = id
    BY <1>3 DEF Holds
  <2>2. Queued(id) = {i}
    BY <1>1, <2>1 DEF Queued, EventInv, IsQueue, Distinct
  <2> QED  BY <1>3, <2>2, FS_Singleton
<1> QED  BY <1>2, <1>3

(* The queue of copies stays a heap that holds no event twice: whatever is   *)
(* scheduled, cancelled and resumed, also from a callback, no reschedule     *)
(* duplicates an event, and the pop after a callback removes the old copy of *)
(* the event that ran.                                                       *)
THEOREM QueueStaysSane ==
  CallbacksGoBehind /\ QueueSpec => []QueueIsSane
<1> SUFFICES ASSUME CallbacksGoBehind PROVE QueueSpec => []QueueIsSane
  OBVIOUS
<1>1. ASSUME EventInv PROVE QueueIsSane
  <2>1. \A id \in 1 .. MaxEvents : Cardinality(Queued(id)) <= 1
    BY <1>1, QueuedOnce
  <2>2. \A i \in 2 .. Len(event_queue) : ~Greater(event_queue[i \div 2], event_queue[i])
    BY <1>1 DEF EventInv, IsQueue, IsHeap
  <2>3. ASSUME phase = "callback" PROVE Queued(running.id) # {}
    <3>1. event_queue \in Seq(Event) /\ event_queue # <<>> /\ event_queue[1] = running
      BY <1>1, <2>3 DEF EventInv, SchedulerTypes, CallbackIsOnTop
    <3>2. 1 \in DOMAIN event_queue
      BY <3>1
    <3> QED  BY <3>1, <3>2 DEF Queued
  <2> QED  BY <2>1, <2>2, <2>3 DEF QueueIsSane
<1> QED  BY <1>1, EventInvariance, PTL

(* A one-shot event fires once, and unless the queue is reset it does not    *)
(* leave the queue before.                                                   *)
THEOREM OneShotsFireOnce ==
  CallbacksGoBehind /\ QueueSpec => []OneShotFiresOnce
<1> SUFFICES ASSUME CallbacksGoBehind PROVE QueueSpec => []OneShotFiresOnce
  OBVIOUS
<1>1. ASSUME EventInv PROVE OneShotFiresOnce
  <2>1. ASSUME NEW id \in DOMAIN active_events, ~active_events[id].recurring
        PROVE  IF phase = "callback" /\ running.id = id THEN fired[id] = 1
               ELSE fired[id] + Cardinality(Queued(id)) = 1
    <3>1. id \in 1 .. Len(active_events) /\ id \in 1 .. MaxEvents
      BY <1>1, QueueConstants DEF EventInv, SchedulerTypes
    <3>2. fired[id] = IF (phase = "callback" /\ running.id = id) \/ ~Holds(event_queue, id)
                        THEN 1 ELSE 0
      BY <1>1, <2>1, <3>1 DEF EventInv, FiredUnlessQueued
    <3>3. Cardinality(Queued(id)) = IF Holds(event_queue, id) THEN 1 ELSE 0
      BY <1>1, QueuedOnce
    <3> QED  BY <3>2, <3>3
  <2> QED  BY <2>1 DEF OneShotFiresOnce
<1> QED  BY <1>1, EventInvariance, PTL

(* What holds whatever callbacks schedule, also ahead of the event that runs. *)
FromQueue(r, h, e) == \A i \in 1 .. Len(r) : r[i] = e \/ \E k \in 1 .. Len(h) : r[i] = h[k]

LEMMA PushKeepsHeap ==
  ASSUME NEW h \in Seq(Event), IsHeap(h), NEW e \in Event, NEW r, r = Push(h, e)
  PROVE  r \in Seq(Event) /\ IsHeap(r) /\ r # <<>> /\ FromQueue(r, h, e)
<1>1. r \in Seq(Event) /\ IsHeap(r) /\ r # <<>> /\ Drawn(r, Append(h, e), 1 .. Len(h) + 1)
  BY PushFacts
<1>2. ASSUME NEW i \in 1 .. Len(r) PROVE r[i] = e \/ \E k \in 1 .. Len(h) : r[i] = h[k]
  <2>1. PICK k \in 1 .. Len(h) + 1 : r[i] = Append(h, e)[k]
    <3>1. HasThose(r, Append(h, e), 1 .. Len(h) + 1)
      BY <1>1, DrawnFacts, Zenon
    <3> QED  BY <3>1, Zenon DEF HasThose
  <2> QED  BY <2>1
<1> QED  BY <1>1, <1>2 DEF FromQueue

LEMMA PopKeepsHeap ==
  ASSUME NEW h \in Seq(Event), IsHeap(h), h # <<>>, NEW e, NEW r, r = Pop(h)
  PROVE  r \in Seq(Event) /\ IsHeap(r) /\ FromQueue(r, h, e)
<1>1. r \in Seq(Event) /\ IsHeap(r) /\ Drawn(r, h, 2 .. Len(h))
  BY PopFacts
<1>2. ASSUME NEW i \in 1 .. Len(r) PROVE \E k \in 1 .. Len(h) : r[i] = h[k]
  <2>1. PICK k \in 2 .. Len(h) : r[i] = h[k]
    BY <1>1, DrawnFacts DEF HasThose
  <2>2. k \in 1 .. Len(h)
    BY <2>1
  <2> QED  BY <2>1, <2>2
<1> QED  BY <1>1, <1>2 DEF FromQueue

Numbered(originals) == \A id \in 1 .. Len(originals) : originals[id].id = id
Known(queue, originals) == \A i \in 1 .. Len(queue) : queue[i].id \in 1 .. Len(originals)

CallbackIsKnown ==
  phase = "callback" =>
    event_queue # <<>> /\ running \in Event /\ running.id \in 1 .. Len(active_events)

HeapInv ==
  /\ SchedulerTypes
  /\ IsHeap(event_queue)
  /\ Numbered(active_events)
  /\ Known(event_queue, active_events)
  /\ CallbackIsKnown

LEMMA ScheduleKeepsHeap ==
  ASSUME HeapInv, NEW delay \in Nat, NEW priority \in Nat, NEW recurring \in BOOLEAN,
         NEW interval \in Nat, Schedule(delay, priority, recurring, interval),
         UNCHANGED <<clockVars, phase, limit, running, fired>>
  PROVE  HeapInv'
<1> DEFINE n == Len(active_events)
<1>1. PICK active \in BOOLEAN : active = TRUE
  OBVIOUS
<1>2. PICK e : e = [id |-> next_event_id, timestamp |-> current_time + delay,
                    priority |-> priority, recurring |-> recurring, interval |-> interval,
                    active |-> active]
  OBVIOUS
<1>3. /\ event_queue \in Seq(Event) /\ active_events \in Seq(Event)
      /\ next_event_id = n + 1 /\ current_time \in Nat /\ n \in Nat
      /\ IsHeap(event_queue)
  BY DEF HeapInv, SchedulerTypes
<1>4. e \in Event /\ e.id = n + 1
  BY <1>2, <1>3 DEF Event
<1>5. /\ next_event_id <= MaxEvents /\ event_queue' = Push(event_queue, e)
      /\ active_events' = Append(active_events, e) /\ next_event_id' = next_event_id + 1
  BY <1>1, <1>2 DEF Schedule
<1>6. /\ event_queue' \in Seq(Event) /\ IsHeap(event_queue') /\ event_queue' # <<>>
      /\ FromQueue(event_queue', event_queue, e)
  BY <1>3, <1>4, <1>5, PushKeepsHeap, Zenon
<1>7. /\ active_events' \in Seq(Event) /\ Len(active_events') = n + 1
      /\ \A id \in 1 .. n : active_events'[id] = active_events[id]
      /\ active_events'[n + 1] = e
  BY <1>3, <1>4, <1>5
<1>8. UNCHANGED <<current_time, phase, limit, running, fired>>
  BY DEF clockVars
<1>9. SchedulerTypes'
  BY <1>3, <1>5, <1>6, <1>7, <1>8, QueueConstants DEF HeapInv, SchedulerTypes
<1>10. Numbered(active_events)'
  BY <1>3, <1>4, <1>7 DEF HeapInv, Numbered
<1>11. Known(event_queue, active_events)'
  <2>1. ASSUME NEW i \in 1 .. Len(event_queue') PROVE event_queue'[i].id \in 1 .. n + 1
    <3>1. event_queue'[i] = e \/ \E k \in 1 .. Len(event_queue) : event_queue'[i] = event_queue[k]
      BY <1>6 DEF FromQueue
    <3>2. \A k \in 1 .. Len(event_queue) : event_queue[k].id \in 1 .. n
      BY DEF HeapInv, Known
    <3> QED  BY <1>3, <1>4, <3>1, <3>2
  <2> QED  BY <1>7, <2>1 DEF Known
<1>12. CallbackIsKnown'
  BY <1>3, <1>6, <1>7, <1>8 DEF HeapInv, CallbackIsKnown
<1> QED  BY <1>6, <1>9, <1>10, <1>11, <1>12 DEF HeapInv

(* The steps that leave the queue alone, and the originals' ids. *)
LEMMA QueueAloneKeepsHeap ==
  ASSUME HeapInv, UNCHANGED <<event_queue, next_event_id>>, active_events' \in Seq(Event),
         KeepsFixed(active_events', active_events),
         current_time' \in Nat, limit' \in Nat, fired' \in [1 .. MaxEvents -> Nat],
         phase' \in {"idle", "process", "callback"}, CallbackIsKnown'
  PROVE  HeapInv'
<1>1. SchedulerTypes'
  BY DEF HeapInv, SchedulerTypes, KeepsFixed
<1>2. Numbered(active_events)' /\ Known(event_queue, active_events)'
  BY DEF HeapInv, Numbered, Known, KeepsFixed
<1> QED  BY <1>1, <1>2 DEF HeapInv

LEMMA MarkKeepsHeap ==
  ASSUME HeapInv, NEW id \in DOMAIN active_events, NEW o \in Event,
         SameFixed(o, active_events[id]),
         active_events' = [active_events EXCEPT ![id] = o],
         UNCHANGED <<event_queue, next_event_id, clockVars, loopVars>>
  PROVE  HeapInv'
<1>1. active_events \in Seq(Event) /\ id \in 1 .. Len(active_events)
  BY DEF HeapInv, SchedulerTypes
<1>2. active_events' \in Seq(Event) /\ KeepsFixed(active_events', active_events)
  BY <1>1, ReplaceOne
<1>3. UNCHANGED <<event_queue, next_event_id, current_time, phase, limit, running, fired>>
  BY DEF clockVars, loopVars
<1>4. CallbackIsKnown'
  BY <1>2, <1>3 DEF HeapInv, CallbackIsKnown, KeepsFixed
<1> QED  BY <1>2, <1>3, <1>4, QueueAloneKeepsHeap DEF HeapInv, SchedulerTypes

LEMMA ClockKeepsHeap ==
  ASSUME HeapInv, UNCHANGED <<queueVars, running, fired>>,
         current_time' \in Nat, limit' \in Nat,
         phase' \in {"idle", "process", "callback"},
         phase' = "callback" => phase = "callback"
  PROVE  HeapInv'
<1>1. UNCHANGED <<event_queue, active_events, next_event_id, running, fired>>
  BY DEF queueVars
<1>2. CallbackIsKnown' /\ KeepsFixed(active_events', active_events)
  BY <1>1 DEF HeapInv, CallbackIsKnown, KeepsFixed
<1> QED  BY <1>1, <1>2, QueueAloneKeepsHeap DEF HeapInv, SchedulerTypes

LEMMA CallKeepsHeap == HeapInv /\ CallCallback => HeapInv'
<1> SUFFICES ASSUME HeapInv, CallCallback PROVE HeapInv'
  OBVIOUS
<1>1. /\ event_queue # <<>> /\ phase' = "callback" /\ running' = event_queue[1]
      /\ UNCHANGED <<event_queue, active_events, next_event_id, current_time, limit>>
  BY DEF CallCallback, More, queueVars, clockVars
<1>2. event_queue \in Seq(Event) /\ 1 \in 1 .. Len(event_queue)
  BY <1>1 DEF HeapInv, SchedulerTypes
<1>3. running' \in Event /\ running'.id \in 1 .. Len(active_events)
  BY <1>1, <1>2 DEF HeapInv, Known
<1>4. fired' \in [1 .. MaxEvents -> Nat]
  <2> DEFINE r == running'
  <2>1. r.recurring \in BOOLEAN
    BY <1>3 DEF Event
  <2>2. fired \in [1 .. MaxEvents -> Nat] /\ r.id \in 1 .. MaxEvents
    BY <1>3, QueueConstants DEF HeapInv, SchedulerTypes
  <2>3. PICK more \in Nat : more = IF ~r.recurring /\ fired[r.id] < MaxFired
                                     THEN fired[r.id] + 1 ELSE fired[r.id]
    <3>1. fired[r.id] \in Nat
      BY <2>2
    <3> QED  BY <3>1
  <2>4. fired' = [fired EXCEPT ![r.id] = more]
    BY <2>3 DEF CallCallback
  <2> HIDE DEF r
  <2> QED  BY <2>2, <2>3, <2>4
<1>5. CallbackIsKnown'
  BY <1>1, <1>3 DEF CallbackIsKnown
<1>6. KeepsFixed(active_events', active_events)
  BY <1>1 DEF KeepsFixed
<1> QED  BY <1>1, <1>4, <1>5, <1>6, QueueAloneKeepsHeap DEF HeapInv, SchedulerTypes

LEMMA ReturnKeepsHeap == HeapInv /\ CallbackReturns => HeapInv'
<1> SUFFICES ASSUME HeapInv, CallbackReturns PROVE HeapInv'
  OBVIOUS
<1>1. /\ phase = "callback" /\ phase' = "process"
      /\ UNCHANGED <<next_event_id, current_time, limit, fired>>
  BY DEF CallbackReturns, clockVars
<1>2. /\ event_queue \in Seq(Event) /\ IsHeap(event_queue) /\ event_queue # <<>>
      /\ active_events \in Seq(Event) /\ current_time \in Nat
      /\ running \in Event /\ running.id \in 1 .. Len(active_events)
  BY <1>1 DEF HeapInv, SchedulerTypes, CallbackIsKnown
<1>3. 1 \in 1 .. Len(event_queue)
  BY <1>2
<1>4. PICK event \in {event_queue[1], running} :
        IF event.recurring /\ event.active
          THEN /\ active_events' = [active_events EXCEPT
                    ![event.id].timestamp = current_time + active_events[event.id].interval]
               /\ event_queue' = Pop(Push(event_queue, active_events'[event.id]))
          ELSE event_queue' = Pop(event_queue) /\ UNCHANGED active_events
  BY DEF CallbackReturns
<1>5. event.id \in 1 .. Len(active_events)
  BY <1>2, <1>3, <1>4 DEF HeapInv, Known
<1>6. PICK id : id = event.id
  OBVIOUS
<1>7. CASE ~(event.recurring /\ event.active)
  <2>1. event_queue' = Pop(event_queue) /\ UNCHANGED active_events
    BY <1>4, <1>7
  <2>2. /\ event_queue' \in Seq(Event) /\ IsHeap(event_queue')
        /\ FromQueue(event_queue', event_queue, event_queue[1])
    BY <1>2, <2>1, PopKeepsHeap, Zenon
  <2>3. SchedulerTypes'
    BY <1>1, <2>1, <2>2 DEF HeapInv, SchedulerTypes
  <2>4. Known(event_queue, active_events)'
    BY <1>3, <2>1, <2>2 DEF HeapInv, Known, FromQueue
  <2> QED  BY <1>1, <2>1, <2>2, <2>3, <2>4 DEF HeapInv, CallbackIsKnown
<1>8. CASE event.recurring /\ event.active
  <2>1. active_events[id] \in Event /\ active_events[id].id = id
    BY <1>2, <1>5, <1>6 DEF HeapInv, Numbered
  <2>2. PICK time \in Nat : time = current_time + active_events[id].interval
    <3>1. current_time + active_events[id].interval \in Nat
      <4>1. current_time \in Nat
        BY <1>2 DEF HeapInv, SchedulerTypes
      <4>2. active_events[id].interval \in Nat
        BY <2>1 DEF Event
      <4> QED  BY <4>1, <4>2
    <3> QED  BY <3>1
  <2>3. PICK o : o = [active_events[id] EXCEPT !.timestamp = time]
    OBVIOUS
  <2>4. o \in Event /\ active_events' = [active_events EXCEPT ![id] = o]
    BY <1>4, <1>6, <1>8, <2>1, <2>2, <2>3 DEF Event
  <2>5. o.id = id /\ SameFixed(o, active_events[id])
    BY <2>1, <2>3 DEF Event, SameFixed
  <2>6. /\ active_events' \in Seq(Event) /\ KeepsFixed(active_events', active_events)
        /\ active_events'[id] = o
    <3> DEFINE g == [active_events EXCEPT ![id] = o]
    <3>1. g \in Seq(Event) /\ KeepsFixed(g, active_events) /\ g[id] = o
      <4>1. /\ active_events \in Seq(Event) /\ id \in 1 .. Len(active_events)
            /\ o \in Event /\ SameFixed(o, active_events[id])
        BY <1>2, <1>5, <1>6, <2>4, <2>5
      <4> QED  BY <4>1, ReplaceOne, ZenonT(40)
    <3>2. active_events' = g
      BY <2>4
    <3> HIDE DEF g
    <3> QED  BY <3>1, <3>2, Zenon
  <2>7. PICK q : q = Push(event_queue, o)
    OBVIOUS
  <2>8. event_queue' = Pop(q)
    BY <1>4, <1>6, <1>8, <2>6, <2>7
  <2>9. q \in Seq(Event) /\ IsHeap(q) /\ q # <<>> /\ FromQueue(q, event_queue, o)
    BY <1>2, <2>4, <2>7, PushKeepsHeap, Zenon
  <2>10. /\ event_queue' \in Seq(Event) /\ IsHeap(event_queue')
         /\ FromQueue(event_queue', q, q[1])
    BY <2>8, <2>9, PopKeepsHeap, Zenon
  <2>11. SchedulerTypes'
    BY <1>1, <2>6, <2>10 DEF HeapInv, SchedulerTypes, KeepsFixed
  <2>12. Numbered(active_events)'
    BY <2>6 DEF HeapInv, Numbered, KeepsFixed
  <2>13. Known(q, active_events')
    BY <1>5, <1>6, <2>5, <2>6, <2>9 DEF HeapInv, Known, FromQueue, KeepsFixed
  <2>14. Known(event_queue', active_events')
    <3>1. 1 \in 1 .. Len(q)
      BY <2>9
    <3> QED  BY <2>10, <2>13, <3>1 DEF Known, FromQueue
  <2> QED  BY <1>1, <2>10, <2>11, <2>12, <2>14 DEF HeapInv, CallbackIsKnown
<1> QED  BY <1>7, <1>8

LEMMA HeapInvariance == QueueSpec => []HeapInv
<1>1. QueueInit => HeapInv
  <2> SUFFICES ASSUME QueueInit PROVE HeapInv
    OBVIOUS
  <2>1. SchedulerTypes
    BY QueueConstants DEF QueueInit, SchedulerTypes
  <2> QED  BY <2>1 DEF QueueInit, HeapInv, IsHeap, Numbered, Known, CallbackIsKnown
<1>2. HeapInv /\ [QueueNext]_schedulerVars => HeapInv'
  <2> SUFFICES ASSUME HeapInv, [QueueNext]_schedulerVars PROVE HeapInv'
    OBVIOUS
  <2>0. /\ current_time \in Nat /\ limit \in Nat /\ phase \in {"idle", "process", "callback"}
        /\ \A t \in Targets : t \in Nat
        /\ active_events \in Seq(Event) /\ event_queue \in Seq(Event)
    BY QueueConstants DEF HeapInv, SchedulerTypes
  <2>1. ASSUME HostSchedules PROVE HeapInv'
    <3>1. UNCHANGED <<clockVars, phase, limit, running, fired>>
      BY <2>1 DEF HostSchedules, loopVars
    <3>2. PICK delay \in Delays, priority \in Priorities :
            \/ Schedule(delay, priority, FALSE, 0)
            \/ \E interval \in Intervals : Schedule(delay, priority, TRUE, interval)
      BY <2>1 DEF HostSchedules
    <3>3. delay \in Nat /\ priority \in Nat
      BY QueueConstants
    <3>4. CASE Schedule(delay, priority, FALSE, 0)
      BY <3>1, <3>3, <3>4, ScheduleKeepsHeap
    <3>5. ASSUME NEW interval \in Intervals, Schedule(delay, priority, TRUE, interval)
          PROVE  HeapInv'
      BY <3>1, <3>3, <3>5, ScheduleKeepsHeap, QueueConstants
    <3> QED  BY <3>2, <3>4, <3>5
  <2>2. ASSUME CallbackSchedules PROVE HeapInv'
    <3>1. UNCHANGED <<clockVars, phase, limit, running, fired>>
      BY <2>2 DEF CallbackSchedules
    <3>2. PICK e \in CallbackEvents : Schedule(e[1], e[2], FALSE, 0)
      BY <2>2 DEF CallbackSchedules
    <3>3. e[1] \in Nat /\ e[2] \in Nat
      BY QueueConstants
    <3> QED  BY <3>1, <3>2, <3>3, ScheduleKeepsHeap
  <2>3. ASSUME NEW id \in DOMAIN active_events, Cancel(id) \/ Resume(id) PROVE HeapInv'
    <3>1. PICK yes \in BOOLEAN, no \in BOOLEAN : yes = TRUE /\ no = FALSE
      OBVIOUS
    <3>2. /\ active_events[id] \in Event
          /\ UNCHANGED <<event_queue, next_event_id, clockVars, loopVars>>
      BY <2>0, <2>3 DEF Cancel, Resume
    <3>3. CASE Cancel(id)
      <4>1. active_events' = [active_events EXCEPT ![id].active = no]
        BY <3>1, <3>3, Zenon DEF Cancel
      <4>2. PICK o : o = [active_events[id] EXCEPT !.active = no]
        OBVIOUS
      <4>3. o \in Event /\ SameFixed(o, active_events[id])
        BY <3>2, <4>2 DEF Event, SameFixed
      <4>4. active_events' = [active_events EXCEPT ![id] = o]
        BY <4>1, <4>2
      <4> QED  BY <3>2, <4>3, <4>4, MarkKeepsHeap, Zenon
    <3>4. CASE Resume(id)
      <4>1. PICK time : time = IF active_events[id].recurring
                                    /\ active_events[id].timestamp <= current_time
                                 THEN current_time + active_events[id].interval
                                 ELSE active_events[id].timestamp
        OBVIOUS
      <4>2. time \in Nat
        BY <2>0, <3>2, <4>1, SMTT(20) DEF Event
      <4>3. active_events' = [active_events EXCEPT ![id].active = yes, ![id].timestamp = time]
        BY <3>1, <3>4, <4>1 DEF Resume
      <4>4. PICK o : o = [active_events[id] EXCEPT !.active = yes, !.timestamp = time]
        OBVIOUS
      <4>5. o \in Event /\ SameFixed(o, active_events[id])
        BY <3>2, <4>2, <4>4 DEF Event, SameFixed
      <4>6. active_events' = [active_events EXCEPT ![id] = o]
        BY <4>3, <4>4
      <4> QED  BY <3>2, <4>5, <4>6, MarkKeepsHeap, Zenon
    <3> QED  BY <2>3, <3>3, <3>4
  <2>4. ASSUME NEW b \in BOOLEAN, PauseClock(b) PROVE HeapInv'
    BY <2>0, <2>4, ClockKeepsHeap DEF PauseClock, loopVars
  <2>5. ASSUME NEW t \in 1 .. MaxTime, SetTime(t) PROVE HeapInv'
    BY <2>0, <2>5, ClockKeepsHeap DEF SetTime, loopVars
  <2>6. ASSUME NEW t \in Nat, Enter(t) PROVE HeapInv'
    BY <2>0, <2>6, ClockKeepsHeap DEF Enter, clockVars
  <2>7. CASE Leave
    BY <2>0, <2>7, ClockKeepsHeap DEF Leave, clockVars
  <2>8. CASE UNCHANGED schedulerVars
    BY <2>0, <2>8, ClockKeepsHeap DEF schedulerVars, queueVars
  <2>9. CASE ResetQueue
    <3>1. SchedulerTypes'
      BY <2>0, <2>9, QueueConstants DEF HeapInv, ResetQueue, SchedulerTypes
    <3> QED  BY <2>9, <3>1 DEF ResetQueue, HeapInv, IsHeap, Numbered, Known, CallbackIsKnown
  <2>10. CASE SkipInactive
    <3>1. /\ event_queue # <<>> /\ event_queue' = Pop(event_queue) /\ phase = "process"
          /\ UNCHANGED <<active_events, next_event_id, current_time, phase, limit, fired>>
      BY <2>10 DEF SkipInactive, More, clockVars, loopVars
    <3>2. IsHeap(event_queue)
      BY DEF HeapInv
    <3>3. /\ event_queue' \in Seq(Event) /\ IsHeap(event_queue')
          /\ FromQueue(event_queue', event_queue, event_queue[1])
      BY <2>0, <3>1, <3>2, PopKeepsHeap, Zenon
    <3>4. SchedulerTypes'
      BY <3>1, <3>3 DEF HeapInv, SchedulerTypes
    <3>5. Known(event_queue, active_events)'
      <4>1. 1 \in 1 .. Len(event_queue)
        BY <2>0, <3>1
      <4> QED  BY <3>1, <3>3, <4>1 DEF HeapInv, Known, FromQueue
    <3> QED  BY <3>1, <3>3, <3>4, <3>5 DEF HeapInv, CallbackIsKnown
  <2> QED
    BY <2>0, <2>1, <2>2, <2>3, <2>4, <2>5, <2>6, <2>7, <2>8, <2>9, <2>10,
       CallKeepsHeap, ReturnKeepsHeap DEF QueueNext, Process
<1> QED  BY <1>1, <1>2, PTL DEF QueueSpec

(* Whatever callbacks schedule, the event that process_events looks at is the *)
(* earliest and among those the most urgent, and every variable has its type. *)
THEOREM TheTopIsFirst ==
  QueueSpec => [](SchedulerTypes /\ \A i \in 1 .. Len(event_queue) :
                                      ~Greater(event_queue[1], event_queue[i]))
<1>1. ASSUME HeapInv
      PROVE  SchedulerTypes /\ \A i \in 1 .. Len(event_queue) :
                                 ~Greater(event_queue[1], event_queue[i])
  BY <1>1, TopIsFirst DEF HeapInv, SchedulerTypes
<1> QED  BY <1>1, HeapInvariance, PTL

=============================================================================
