----------------------------- MODULE MCKeyImage -----------------------------
(* Instances of KeyImage for TLC, and the numbers of the real devices.     *)
EXTENDS KeyImage

\* Both devices with a page number of one byte send bitmaps: a header of 54 bytes
\* and three bytes for each point, in packets with a header of 16 bytes.
Bitmap(icon_size) == 54 + 3 * icon_size * icon_size

Fits(icon_size, max_packet_size, first) ==
    Bitmap(icon_size) <= (max_packet_size - 16) * (2^8 - first)

ASSUME MiniFits     == Fits(80, 1024, 0)
ASSUME OriginalFits == Fits(72, 8191, 1)

=============================================================================
