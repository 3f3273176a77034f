---------------------------- MODULE MCI2CDevices -----------------------------
(* Values of the constants of I2CDevices for TLC. *)
EXTENDS I2CDevices

\* One bus appears by itself, before or after everything else.  One result is
\* enough: histories tell conversions apart, and Decode is proved for all.
MCGroups == {{"i2c_1"}, Devices \ {"i2c_1"}}
MCValues == {-70000}
MCMasks  == {240}
MCBiases == [b \in Buses |-> IF b = "i2c_2" THEN {770} ELSE {}]
=============================================================================
