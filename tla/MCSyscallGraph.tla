--------------------------- MODULE MCSyscallGraph ---------------------------
(* Instance of SyscallGraph: every list of at most four events. *)
EXTENDS SyscallGraphProofs

ShortStreams == UNION {[1 .. n -> Event] : n \in 0 .. 4}
============================================================================
