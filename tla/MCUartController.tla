-------------------------- MODULE MCUartController --------------------------
(* Frames of one and two data bits; a bit lasts two units of time.           *)
EXTENDS UartController

Frame(data_bits, stop_bits, parity, bit_time) ==
  [data_bits |-> data_bits, stop_bits |-> stop_bits, parity |-> parity,
   bit_time |-> bit_time]

MCBytes == {{0}, {1}, {0, 1, 2}}
MCUnconfigured == Frame(2, 1, "NONE", 0)
MCConfigs == {Frame(2, 1, "NONE", 2), Frame(1, 2, "ODD", 3)}
MCLinkConfigs == {Frame(2, 1, "EVEN", 2), Frame(2, 1, "ODD", 2),
                  Frame(2, 3, "NONE", 2), Frame(3, 2, "EVEN", 2)}
MCBenches == {"tx", "rx", "loop"}
MCElapsed == {0, 1, 5}
=============================================================================
