----------------------------- MODULE MCDownload -----------------------------
(***************************************************************************)
(* Small instances of Download.  Blocks of at most 2 bytes, and block      *)
(* counters 0 to 2: an image of 1, 3 or 4 bytes sent in blocks of 1 or 2   *)
(* leaves a partial buffer for the exit to write and makes the counter     *)
(* wrap.                                                                   *)
(***************************************************************************)
EXTENDS Download

MCTop == 7
MCBase == 2
MCExtent == 4

Ask(from, len) == [address |-> from, size |-> len]

\* In the region, of one, two or three blocks; one byte too early or too many;
\* empty; and one whose end wraps around to an address below the region's end.
MCAsked == {Ask(4, 1), Ask(3, 3), Ask(2, 4), Ask(1, 2), Ask(3, 4), Ask(4, 0), Ask(6, 3)}
MCCapacity == 2
MCMaxSeq == 2
MCAllRecords == {"none", "crc", "bad crc", "record"}

Registered(image, steps, back, uploads) ==
    [policy |-> image, chunked |-> steps, readback |-> back, reads |-> uploads]

\* Each callback is registered in one and missing in another.
MCConfigs == {Registered("crc", TRUE, TRUE, FALSE), Registered("record", FALSE, FALSE, TRUE),
              Registered("none", FALSE, TRUE, FALSE)}
=============================================================================
