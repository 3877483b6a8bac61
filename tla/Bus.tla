--------------------------------- MODULE Bus ---------------------------------
(***************************************************************************)
(* A process with SPI and I2C handles, which share nothing but its         *)
(* descriptors: what one closes, the other may get.                        *)
(***************************************************************************)
EXTENDS Spi, I2c

ASSUME HandlesAssumption ==
  SpiHandles \cap I2cHandles = {} /\ Nobody \notin SpiHandles \cup I2cHandles

busVars == <<fileVars, spiVars, i2cVars>>

BusInit == FilesInit /\ SpiInit /\ I2cInit

BusNext == \/ SpiNext /\ UNCHANGED i2cVars
           \/ I2cNext /\ UNCHANGED spiVars

BusSpec == BusInit /\ [][BusNext]_busVars

=============================================================================
