---------------------------- MODULE MCLjcaDevice ----------------------------
(***************************************************************************)
(* LjcaDevice for TLC: a bridge with two I2C controllers, with an SPI      *)
(* controller or with GPIO, and one that is probed first.                  *)
(***************************************************************************)
EXTENDS LjcaDevice, TLC

CONSTANTS a1, a2, g1, g2, w

MCStubOf == a1 :> "I2C" @@ a2 :> "I2C" @@ Mng :> "MNG" @@ Gpio :> "GPIO" @@ Spi :> "SPI" @@ SpiRm :> "SPI"

\* Enumerated from the start: functions of every kind without a driver in this
\* model, and an I2C controller, which is then bound and used. Already
\* enumerated: functions whose drivers are bound.
MCBoards == {{"gpio", "i2c0", "spi0"}, {a1}, {a2}}
MCReady == {{a1, a2}, {Spi}, {Gpio}}
MCTypeOf == [d \in {"gpio", "i2c0", "spi0", a1, a2, Gpio, Spi} |->
               CASE d \in {"gpio", Gpio} -> "GPIO" [] d \in {"spi0", Spi} -> "SPI" [] OTHER -> "I2C"]

\* A read, which both controllers may run at a time; a write and a read; a
\* write that is not sent because of its length.
Rd(l) == [rd |-> TRUE, len |-> l]
Wr(l) == [rd |-> FALSE, len |-> l]
MCI2cXfers == {<<Rd(1)>>, <<Wr(60)>>, <<Wr(1), Rd(1)>>}

\* Devices of different modes and rates, with transfers of two chunks, of one
\* full one, and one without buffers at the maximal rate and a length that
\* does not fit.
SpiX(m, r, l, d) == [mode |-> m, rate |-> r, len |-> l, dir |-> d]
MCSpiXfers == {SpiX(0, 240, 3, "w"), SpiX(3, 80, 2, "rw"), SpiX(0, 480, 9, "none")}

\* A controller that was enumerated from the start makes one message: two are
\* made by those whose drivers are bound.
OneMessage == board \in MCBoards => i2cs <= 1

\* The two controllers are interchangeable, and so are the users of pins.
Symmetry == Permutations({a1, a2}) \cup Permutations({g1, g2})
=============================================================================
