----------------------------- MODULE I2cDriverMC -----------------------------
(***************************************************************************)
(* The I2C driver for TLC: short transfers in every direction, and lengths *)
(* whose count is cut to zero.                                             *)
(***************************************************************************)
EXTENDS I2cDriverProps

ShortOrCut == {<<1, 0>>, <<2, 0>>, <<256, 0>>, <<0, 1>>, <<0, 2>>, <<0, 256>>, <<1, 1>>}
=============================================================================
