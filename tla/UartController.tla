--------------------------- MODULE UartController ---------------------------
(***************************************************************************)
(* DesktopApp/src/peripherals/uart_controller.cpp: one UART of the desktop  *)
(* simulator.  Every operation holds mutex_ from its first line to its      *)
(* last, so each is one step.  The simulation thread calls tick, which      *)
(* moves the transmitter by as many bits as the elapsed time holds and lets *)
(* the receiver look at its pin once.                                       *)
(*                                                                          *)
(* The two halves share the configuration and nothing else.  "bench" says   *)
(* what the pins are wired to: a client of the transmitter alone, a client  *)
(* of the receiver alone, or a wire that leads the transmitter's level back *)
(* to the receiver.                                                         *)
(***************************************************************************)
EXTENDS Integers, Sequences, FiniteSetsExt

CONSTANTS
  Bytes,          \* the bytes that are written, as the sets of their one bits
  Configs,        \* [data_bits, stop_bits, parity, bit_time] passed to configure()
  LinkConfigs,    \* the configurations the looped wire is tried with
  Unconfigured,   \* the members' initializers, with a bit time of 0
  Benches,        \* a subset of {"tx", "rx", "loop"}
  Elapsed,        \* what tick() is told has elapsed
  TxFifoSize, RxFifoSize,
  MaxBacklog,     \* bound: accumulated time that is told apart
  FollowSkewed    \* bound: whether a looped wire off its timing is followed

Parities == {"NONE", "EVEN", "ODD"}

ConfigSet == [data_bits : 1 .. 8, stop_bits : 1 .. 3, parity : Parities,
              bit_time : Nat]

ASSUME UartAssumption ==
  /\ Bytes \subseteq SUBSET (0 .. 7)
  /\ Configs \cup LinkConfigs \cup {Unconfigured} \subseteq ConfigSet
  /\ Benches \subseteq {"tx", "rx", "loop"}
  /\ Elapsed \subseteq Nat
  /\ TxFifoSize \in Nat \ {0}
  /\ RxFifoSize \in Nat \ {0}
  /\ MaxBacklog \in Nat
  /\ FollowSkewed \in BOOLEAN

VARIABLES
  config,
  tx_fifo, tx_active, tx_current_byte, tx_bit_index, tx_pin_level, bit_ticks,
  rx_fifo, rx_active, rx_start_bit_detected, rx_current_byte, rx_bit_index,
  rx_pin_level, current_bit_time,
  errors,         \* the counters of stats_ that are not zero
  bench,
  in_flight,      \* history: bytes accepted on a looped wire and not yet received
  skewed          \* history: a tick or a start was not on time for the looped wire

tx == <<tx_fifo, tx_active, tx_current_byte, tx_bit_index, tx_pin_level>>
rx == <<rx_fifo, rx_active, rx_start_bit_detected, rx_current_byte,
        rx_bit_index, current_bit_time, errors>>
link == <<bench, skewed>>
uartVars == <<config, tx, bit_ticks, rx, rx_pin_level, link, in_flight>>

(* A tick is on time for a looped wire when half a bit time has gone by and  *)
(* the wire has carried its level.                                           *)
OnTime(elapsed) == rx_pin_level = tx_pin_level /\ 2 * elapsed = config.bit_time

UartInit ==
  /\ bench \in Benches
  /\ config \in IF bench = "loop" THEN LinkConfigs ELSE {Unconfigured}
  /\ tx_fifo = <<>>
  /\ tx_active = FALSE
  /\ tx_current_byte = {}
  /\ tx_bit_index = 0
  /\ tx_pin_level = TRUE
  /\ bit_ticks = 0
  /\ rx_fifo = <<>>
  /\ rx_active = FALSE
  /\ rx_start_bit_detected = FALSE
  /\ rx_current_byte = {}
  /\ rx_bit_index = 0
  /\ rx_pin_level = TRUE
  /\ current_bit_time = 0
  /\ errors = {}
  /\ in_flight = <<>>
  /\ skewed = FALSE

-----------------------------------------------------------------------------
(* Frames *)

(* The wire carries the low data_bits of a byte. *)
OnWire(byte) == byte \cap 0 .. config.data_bits - 1

ParityBits == IF config.parity = "NONE" THEN 0 ELSE 1

(* Even parity makes the number of ones even, odd parity makes it odd. *)
ParityBit(byte) == (Cardinality(OnWire(byte)) % 2 = 1) # (config.parity = "ODD")

(* tx_bit_index after so many more bits: the parity bit's index is skipped   *)
(* when there is none.                                                       *)
IndexAfter(bits) ==
  LET index == tx_bit_index + bits
  IN IF /\ config.parity = "NONE"
        /\ tx_bit_index < config.data_bits
        /\ index >= config.data_bits
     THEN index + 1
     ELSE index

(* Mutation: the last stop bit is cut off. *)
FrameIsCut(index) ==
  /\ index > config.data_bits
  /\ index - config.data_bits - ParityBits >= config.stop_bits - 1

FrameIsComplete(index) ==
  /\ index > config.data_bits
  /\ index - config.data_bits - ParityBits >= config.stop_bits

(* Mutation: the most significant bit goes first. *)
LevelMsbFirst(index) ==
  CASE index < config.data_bits ->
         config.data_bits - 1 - index \in tx_current_byte
    [] index = config.data_bits -> ParityBit(tx_current_byte)
    [] OTHER -> TRUE

LevelAt(index) ==
  CASE index < config.data_bits -> index \in tx_current_byte
    [] index = config.data_bits -> ParityBit(tx_current_byte)
    [] OTHER -> TRUE

-----------------------------------------------------------------------------
(* Transmitter *)

StartFrame(fifo) ==
  /\ tx_fifo' = fifo
  /\ tx_active' = TRUE
  /\ tx_current_byte' = Head(fifo)
  /\ tx_bit_index' = -1
  /\ tx_pin_level' = FALSE

(* writeByte(): a full FIFO refuses; an idle transmitter starts at once, on  *)
(* whatever time bit_ticks_ has gathered meanwhile.                          *)
WriteByte(byte) ==
  /\ bench # "rx"
  /\ Len(tx_fifo) < TxFifoSize
  /\ IF tx_active
     THEN /\ tx_fifo' = Append(tx_fifo, byte)
          /\ UNCHANGED <<tx_active, tx_current_byte, tx_bit_index, tx_pin_level>>
     ELSE StartFrame(Append(tx_fifo, byte))
  /\ in_flight' = IF bench = "loop" /\ ~skewed
                  THEN Append(in_flight, byte) ELSE in_flight
  /\ skewed' = (skewed \/ (bench = "loop" /\ ~tx_active /\ bit_ticks > 0))
  /\ UNCHANGED <<config, bit_ticks, rx, rx_pin_level, bench>>

(* processTX() called by tick(): the bits that "time" holds, up to the end   *)
(* of the frame.  A frame that ends makes way for the next byte; when there  *)
(* is none the line keeps the level it last had.                             *)
Transmit(time) ==
  LET due == IF config.bit_time = 0 THEN 16 ELSE time \div config.bit_time
      ends == {bits \in 1 .. due : FrameIsComplete(IndexAfter(bits))}
      last == Min(ends)
      used(bits) == time - bits * config.bit_time
  IN IF ends = {}
     THEN /\ tx_bit_index' = IndexAfter(due)
          /\ tx_pin_level' = IF due = 0 THEN tx_pin_level
                             ELSE LevelAt(IndexAfter(due))
          /\ bit_ticks' = used(due)
          /\ UNCHANGED <<tx_fifo, tx_active, tx_current_byte>>
     ELSE /\ bit_ticks' = used(last)
          /\ IF Tail(tx_fifo) # <<>>
             THEN StartFrame(Tail(tx_fifo))
             ELSE /\ tx_fifo' = <<>>
                  /\ tx_active' = FALSE
                  /\ tx_bit_index' = IndexAfter(last)
                  /\ tx_pin_level' = IF last = 1 THEN tx_pin_level
                                     ELSE LevelAt(IndexAfter(last - 1))
                  /\ UNCHANGED tx_current_byte

-----------------------------------------------------------------------------
(* Receiver *)

Fail(kinds) == errors' = errors \cup kinds

(* A frame's last sample: the byte is kept when there is room, whatever the  *)
(* errors met in it.                                                         *)
FinishReceiving ==
  /\ rx_active' = FALSE
  /\ rx_start_bit_detected' = FALSE
  /\ rx_fifo' = IF Len(rx_fifo) < RxFifoSize
                THEN Append(rx_fifo, rx_current_byte) ELSE rx_fifo
  /\ Fail((IF rx_pin_level THEN {} ELSE {"framing"})
          \cup (IF Len(rx_fifo) < RxFifoSize THEN {} ELSE {"overrun"}))
  /\ in_flight' = IF in_flight = <<>> THEN <<>> ELSE Tail(in_flight)
  /\ UNCHANGED <<rx_current_byte, rx_bit_index, current_bit_time>>

(* Mutation: a false start leaves the start bit detected. *)
AbandonFrameDeaf ==
  /\ Fail({"framing"})
  /\ rx_active' = FALSE
  /\ UNCHANGED <<rx_fifo, rx_start_bit_detected, rx_current_byte,
                 rx_bit_index, current_bit_time, in_flight>>

AbandonFrame ==
  /\ Fail({"framing"})
  /\ rx_active' = FALSE
  /\ rx_start_bit_detected' = FALSE
  /\ UNCHANGED <<rx_fifo, rx_current_byte, rx_bit_index, current_bit_time, in_flight>>

(* The sample of the start bit, of a data bit or of the parity bit.  Without *)
(* parity the sample at its index is skipped as a first stop bit.            *)
Sample(index, byte) ==
  /\ rx_active' = TRUE
  /\ rx_start_bit_detected' = TRUE
  /\ rx_bit_index' = index + 1
  /\ current_bit_time' = 0
  /\ rx_current_byte' =
       IF index \in 0 .. config.data_bits - 1 /\ rx_pin_level
         THEN byte \cup {index} ELSE byte
  /\ Fail(IF /\ index = config.data_bits
             /\ config.parity # "NONE"
             /\ rx_pin_level # ParityBit(byte)
          THEN {"parity"} ELSE {})
  /\ UNCHANGED <<rx_fifo, in_flight>>

(* A sample falls due once half a bit time has been counted; every call that *)
(* finds less counts one whole bit time, whatever has elapsed.               *)
SampleIsDue(counted) == counted >= config.bit_time \div 2

CountBitTime(index, byte, counted) ==
  /\ rx_active' = TRUE
  /\ rx_start_bit_detected' = TRUE
  /\ rx_bit_index' = index
  /\ rx_current_byte' = byte
  /\ current_bit_time' = counted + config.bit_time
  /\ UNCHANGED <<rx_fifo, errors, in_flight>>

ReceiveIn(index, byte, counted) ==
  IF ~SampleIsDue(counted) THEN CountBitTime(index, byte, counted)
  ELSE IF index < 0 /\ rx_pin_level THEN AbandonFrame
  ELSE IF index > config.data_bits THEN FinishReceiving
  ELSE Sample(index, byte)

(* processRX(): a low level starts a frame when no start bit is remembered. *)
Receive ==
  IF rx_active
  THEN ReceiveIn(rx_bit_index, rx_current_byte, current_bit_time)
  ELSE IF ~rx_pin_level /\ ~rx_start_bit_detected
  THEN ReceiveIn(-1, {}, 0)
  ELSE UNCHANGED <<rx, in_flight>>

-----------------------------------------------------------------------------
(* Mutation: the time of earlier calls is forgotten. *)
TickForgetting(elapsed) ==
  /\ IF tx_active THEN Transmit(elapsed)
     ELSE bit_ticks' = elapsed /\ UNCHANGED tx
  /\ Receive
  /\ skewed' = (skewed \/ (bench = "loop" /\ ~OnTime(elapsed)))
  /\ UNCHANGED <<config, rx_pin_level, bench>>

(* tick(): time is gathered whether or not anything is being sent. *)
TickUart(elapsed) ==
  /\ LET time == Min({bit_ticks + elapsed, MaxBacklog})
     IN IF tx_active THEN Transmit(time)
        ELSE bit_ticks' = time /\ UNCHANGED tx
  /\ Receive
  /\ skewed' = (skewed \/ (bench = "loop" /\ ~OnTime(elapsed)))
  /\ UNCHANGED <<config, rx_pin_level, bench>>

(* receiveBit(): another client's level, or the transmitter's own over the   *)
(* looped wire.                                                              *)
ReceiveBit(level) ==
  /\ bench # "tx"
  /\ bench = "loop" => level = tx_pin_level
  /\ level # rx_pin_level
  /\ rx_pin_level' = level
  /\ UNCHANGED <<config, tx, bit_ticks, rx, link, in_flight>>

(* readByte() *)
ReadByte ==
  /\ rx_fifo # <<>>
  /\ rx_fifo' = Tail(rx_fifo)
  /\ UNCHANGED <<config, tx, bit_ticks, rx_active, rx_start_bit_detected,
                 rx_current_byte, rx_bit_index, current_bit_time, errors,
                 rx_pin_level, link, in_flight>>

(* configure(): the frames in progress go on under the new configuration. *)
Configure(new) ==
  /\ bench # "loop"
  /\ config' = new
  /\ UNCHANGED <<tx, bit_ticks, rx, rx_pin_level, link, in_flight>>

(* Mutation: the transmitter is left active. *)
ResetActive ==
  /\ tx_fifo' = <<>>
  /\ rx_fifo' = <<>>
  /\ rx_active' = FALSE
  /\ rx_current_byte' = {}
  /\ rx_bit_index' = 0
  /\ rx_pin_level' = TRUE
  /\ errors' = {}
  /\ in_flight' = <<>>
  /\ skewed' = TRUE
  /\ UNCHANGED <<config, bit_ticks, rx_start_bit_detected, current_bit_time,
                 bench, tx_active, tx_current_byte, tx_bit_index, tx_pin_level>>

(* reset(): bit_ticks_, current_bit_time_ and rx_start_bit_detected_ keep    *)
(* their values.                                                             *)
ResetUart ==
  /\ tx_fifo' = <<>>
  /\ rx_fifo' = <<>>
  /\ tx_active' = FALSE
  /\ rx_active' = FALSE
  /\ tx_current_byte' = {}
  /\ rx_current_byte' = {}
  /\ tx_bit_index' = 0
  /\ rx_bit_index' = 0
  /\ tx_pin_level' = TRUE
  /\ rx_pin_level' = TRUE
  /\ errors' = {}
  /\ in_flight' = <<>>
  /\ skewed' = (bench = "loop")
  /\ UNCHANGED <<config, bit_ticks, rx_start_bit_detected, current_bit_time, bench>>

(* Each half goes on under any ticks on a bench of its own, so that a looped  *)
(* wire need not be followed once it is off its timing.                      *)
Followed == bench = "loop" /\ skewed => FollowSkewed

UartNext ==
  \/ \E byte \in Bytes : Followed /\ WriteByte(byte)
  \/ \E elapsed \in Elapsed : Followed /\ TickUart(elapsed)
  \/ \E level \in BOOLEAN : Followed /\ ReceiveBit(level)
  \/ Followed /\ ReadByte
  \/ \E new \in Configs : Configure(new)
  \/ ResetUart

UartSpec == UartInit /\ [][UartNext]_uartVars

-----------------------------------------------------------------------------
(* The frame on the line belongs to the oldest byte of the FIFO: processTX  *)
(* copies the front byte when it starts and pops whatever is in front when  *)
(* it ends, with writes and resets between the two.                         *)
FrontIsOnTheLine ==
  IF tx_active
  THEN tx_fifo # <<>> /\ Head(tx_fifo) = tx_current_byte
  ELSE tx_fifo = <<>>

(* The configurations of a wire that can work: without parity processTX      *)
(* leaves out the first stop bit and processRX waits for two, so that only    *)
(* frames with the most stop bits are long enough for both.                   *)
LinkConfigsWork ==
  \A c \in LinkConfigs :
    c.bit_time \in 1 .. MaxBacklog /\ (c.parity = "NONE" => c.stop_bits = 3)

(* On a looped wire the receiver delivers each byte that writeByte accepted, *)
(* once, in order and cut to the data bits, for as long as every call of     *)
(* tick was on time and the transmitter never started late: the parity, the  *)
(* stop bits and both bit counters of processTX and processRX agree.         *)
LinkDelivers ==
  [][/\ bench = "loop"
     /\ ~skewed'
     /\ Len(rx_fifo') > Len(rx_fifo)
     => /\ in_flight # <<>>
        /\ rx_fifo' = Append(rx_fifo, OnWire(Head(in_flight)))]_uartVars

(* No error is counted on such a wire, up to then, but an overrun of the      *)
(* receive FIFO.                                                             *)
LinkIsClean == bench = "loop" /\ ~skewed => errors \subseteq {"overrun"}

(* Only reset() can leave the receiver remembering a start bit with no frame *)
(* in progress, after which no start bit is ever seen again.                 *)
OnlyResetDeafens ==
  [][rx_start_bit_detected' /\ ~rx_active' =>
       ResetUart \/ (rx_start_bit_detected /\ ~rx_active)]_uartVars

(* As long as tick is told again and again that time has gone by, a full     *)
(* transmit FIFO gets room again, however little that is each time and under *)
(* any sequence of reconfigurations.                                         *)
TimeGoesBy == []<><<\E elapsed \in Elapsed \ {0} : TickUart(elapsed)>>_uartVars

FullFifoDrains ==
  TimeGoesBy => (Len(tx_fifo) = TxFifoSize ~> Len(tx_fifo) < TxFifoSize)
=============================================================================
