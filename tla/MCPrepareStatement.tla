------------------------- MODULE MCPrepareStatement -------------------------
(***************************************************************************)
(* Queries for PrepareStatement: the empty query and "SELECT 1" (spec      *)
(* scenario S6), and bodies (0x16 and the query) on both sides of every    *)
(* byte of the 24-bit length: 255/256, 65535/65536 and 2^24 - 1 / 2^24 /   *)
(* 2^24 + 1.  Queries above 255 bytes keep only "SELECT " as their bytes.  *)
(***************************************************************************)
EXTENDS PrepareStatement

Query(bytes) == [head |-> bytes, length |-> Len(bytes)]
LongQuery(length) == [head |-> <<83, 69, 76, 69, 67, 84, 32>>, length |-> length]

SelectOne == Query(<<83, 69, 76, 69, 67, 84, 32, 49>>)

MCQueries ==
  {Query(<<>>), SelectOne, Query([i \in 1..254 |-> 120]), Query([i \in 1..255 |-> 120]),
   LongQuery(65534), LongQuery(65535),
   LongQuery(2^24 - 2), LongQuery(2^24 - 1), LongQuery(2^24)}

(* The first command's sequence id, the next one, and the last before the  *)
(* wrap to 0.                                                              *)
MCSequenceIds == {0, 1, 255}

=============================================================================
