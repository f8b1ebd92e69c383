---------------------------- MODULE MCPacketReceive ----------------------------
(***************************************************************************)
(* PacketReceive for TLC.                                                  *)
(***************************************************************************)
EXTENDS PacketReceive

\* One length below the header's, a packet with no body, a small body, the
\* largest one whose length is a signed char, and a length above the limit.
FiveLens == {HdrLen - 1, HdrLen, HdrLen + 2, HdrLen + CharMax, MaxLen + 1}

\* A body whose length becomes negative in a signed char.
LongLens == {HdrLen + CharMax + 73}
===============================================================================
