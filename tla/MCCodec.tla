------------------------------ MODULE MCCodec ------------------------------
(***************************************************************************)
(* The script of main.c with its values, lines 78 to 146.  The registers   *)
(* hold 1 after reset, which no write of the script leaves, but for the    *)
(* identification.                                                         *)
(***************************************************************************)
EXTENDS Codec

Rd(reg) == [op |-> "Rd", reg |-> reg, val |-> 0]
WrRd(reg, val) == <<[op |-> "Wr", reg |-> reg, val |-> val], Rd(reg)>>

CHIP_ID == 0
CHIP_PAD_STRENGTH == 20
CHIP_ANA_CTRL == 36

TheScript ==
  <<Rd(CHIP_ID)>>
    \o WrRd(50, 29595)       \* CHIP_PLL_CTRL
    \o WrRd(48, 17918)       \* CHIP_ANA_POWER
    \o WrRd(40, 78)          \* CHIP_REF_CTRL
    \o WrRd(2, 99)           \* CHIP_DIG_POWER
    \o WrRd(4, 7)            \* CHIP_CLK_CTRL
    \o WrRd(6, 128)          \* CHIP_I2S_CTRL
    \o WrRd(CHIP_ANA_CTRL, 4)
    \o WrRd(10, 16)          \* CHIP_SSS_CTRL
    \o <<Rd(CHIP_ANA_CTRL)>>
    \o WrRd(14, 0)           \* CHIP_ADCDAC_CTRL
    \o <<Rd(CHIP_PAD_STRENGTH)>>

TheRegisters ==
  [r \in {0, 2, 4, 6, 10, 14, 20, 36, 40, 48, 50} |-> IF r = CHIP_ID THEN 40977 ELSE 1]
=============================================================================
