------------------------- MODULE MC_DecimalRescale --------------------------
(* Instances of DecimalRescale for TLC: 10-bit amounts, whose power table  *)
(* holds 10^0 .. 10^3, and an internal scale of 2 decimals.                *)
EXTENDS DecimalRescale

\* Token decimals a registry would hold: around the scale, far below it, and
\* up to the largest value that is still positive as an i8.
MC_Decimals == (0..6) \cup {60, 126, 127}

\* Decimals that turn negative under `as i8`, with a few ordinary ones.
MC_DecimalsWrap == {0, 1, 2, 128, 129, 130, 200, 253, 254, 255}

=============================================================================
