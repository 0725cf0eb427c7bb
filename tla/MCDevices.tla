----------------------------- MODULE MCDevices -----------------------------
(***************************************************************************)
(* What the host puts at the pins of a core.  The device models share the  *)
(* bus and nothing else, so each behaviour has one of them, or the bus     *)
(* with any devices on it, at work:                                        *)
(*   - the bus: two ports of one pin, which a wire may join.  At A the     *)
(*     core is an output now and then and a time-driven push-pull device   *)
(*     may be attached; at B there are two reactive devices, one open      *)
(*     drain and one push-pull, and the core is an input.  A's pin is      *)
(*     leased by one of the devices and by another owner;                  *)
(*   - the SSI encoder, its reader firmware and the mailbox: two bits of   *)
(*     position and one of error, delays within and beyond the encoder's   *)
(*     times, in both encodings;                                           *)
(*   - the I2C expander: bytes of two bits, an address of one, so that     *)
(*     every byte is possible, in transfers of up to four;                 *)
(*   - the sigma-delta filter: a live channel with three samples in two    *)
(*     instructions, and a silent one that must not take its commands;     *)
(*   - the UART generator: payloads of up to two characters, in one or two *)
(*     frames, of bits of an even and an odd number of cycles.             *)
(***************************************************************************)
EXTENDS DeviceBus, SsiReader, I2cExpander, SdFilter, UartLine

VARIABLE device   \* the device at work

MCPorts == {"A", "B"}
MCPinsOf == [p \in MCPorts |-> {0}]
MCDevices == {"slave", "pusher", "timed"}
MCHome == [d \in MCDevices |-> IF d = "timed" THEN "A" ELSE "B"]
MCNets == [d \in MCDevices |-> [n \in {0} |-> IF d = "slave" THEN "open drain" ELSE "push pull"]]
MCLow == [mask |-> {0}, high |-> {}]
MCHigh == [mask |-> {0}, high |-> {0}]
MCResponses == [d \in MCDevices |->
  CASE d = "timed" -> {MCLow, MCHigh}
    [] d = "pusher" -> {MCHigh, Silent}
    [] d = "slave" -> {MCLow, Silent}]
MCWires == {{<<"A", 0>>, <<"B", 0>>}}
MCRootOf == [w \in MCWires |-> <<"A", 0>>]
MCOwners == {"timed", "host"}
MCOutputs == {<<"A", 0>>}
MCAsked == MCOutputs
MCLoopPins == [p \in MCPorts |-> IF p = "A" THEN {0} ELSE {}]

MCPositions == {<<0, 1>>, <<1, 0>>}
MCErrors == {<<0>>, <<1>>}
MCAddress == <<1>>
MCPointerOf == [r \in Registers |->
  CASE r = "output" -> <<0, 1>> [] r = "polarity" -> <<1, 0>> [] r = "config" -> <<1, 1>>]
MCPowerOn == [r \in Registers |-> IF r = "polarity" THEN <<0, 0>> ELSE <<1, 1>>]
MCRate == [c \in {0, 1} |-> IF c = 0 THEN 3 ELSE 0]
MCPayloads == {<< <<0, 1>>, <<1, 1>> >>, << <<0, 0>> >>, << >>}

MCInit ==
  /\ device \in {"pins", "ssi", "i2c", "sd", "uart"}
  /\ DeviceBusInit /\ SsiInit /\ I2cInit /\ SdInit /\ UartInit
  /\ device # "ssi" => config = CHOOSE c \in [high : HighDelays, low : LowDelays,
                                               idle : IdleDelays, encoding : Encodings] : TRUE
  /\ device # "ssi" => field = CHOOSE f \in [position : Positions, error : Errors] : TRUE
  /\ device # "sd" => sdChan[0].osr = 2

MCNext ==
  /\ \/ device = "pins" /\ Pins /\ UNCHANGED <<ssiVars, i2cVars, sdVars, uartVars>>
     \/ device = "ssi" /\ Ssi /\ UNCHANGED <<busVars, i2cVars, sdVars, uartVars>>
     \/ device = "i2c" /\ I2c /\ UNCHANGED <<busVars, ssiVars, sdVars, uartVars>>
     \/ device = "sd" /\ Sd /\ UNCHANGED <<busVars, ssiVars, i2cVars, uartVars>>
     \/ device = "uart" /\ Uart /\ UNCHANGED <<busVars, ssiVars, i2cVars, sdVars>>
  /\ UNCHANGED device

MCSpec == MCInit /\ [][MCNext]_<<device, busVars, ssiVars, i2cVars, sdVars, uartVars>>
=============================================================================
