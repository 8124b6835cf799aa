----------------------------- MODULE MCConvert -----------------------------
\* Three widths stand for those of 8 to 64 bits; every char16_t is tried, and
\* integers beyond the bounds of every type on both sides.
EXTENDS ConvertAny

MCCodes == 0..65535
MCNumbers == -258 .. 258
MCItems == {-9, -8, -1, 0, 1, 7, 255, 256}
=============================================================================
