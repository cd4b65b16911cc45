--------------------------- MODULE MC_CommandChannel ----------------------------
(* CommandChannel with Pak blocks of two bytes and command blocks of a few entries. *)
EXTENDS CommandChannel

CONSTANTS c1, c2

Command(bytes, rep) ==
    [cmd |-> Len(bytes), rep |-> rep, bytes |-> bytes, failed |-> FALSE, reply |-> [i \in 1..rep |-> 7]]

Mark(kind) == [cmd |-> kind, rep |-> 0, bytes |-> <<>>, failed |-> FALSE, reply |-> <<>>]

TooLong == [Command(<<9>>, 1) EXCEPT !.cmd = 9]

MCIdentify == Command(<<0>>, 3)
MCState == Command(<<1>>, 4)
MCWord == AddrEncode(6)
MCWrite(hi, lo, data) == Command(<<3, hi, lo>> \o data, 1)

BlockOf(entries) == [entries |-> entries, first |-> 0, go |-> 1, order |-> "n64"]

(* As a big-endian client writes it: its 1 at the other end of the last word. *)
BigEndian(b) == [b EXCEPT !.first = 1, !.go = 0, !.order = "swapped"]

MCBlocks ==
    {BigEndian(BlockOf(<<Mark(CORE_CMD_SKIP), MCIdentify, Mark(CORE_CMD_END)>>)),
     BlockOf(<<MCWrite(MCWord \div 256, MCWord % 256, <<9, 9>>), TooLong, MCState>>),
     BlockOf(<<MCWrite(192, 27, <<1, 1>>), MCIdentify>>),
     BlockOf(<<Command(<<2, 128, 1>>, 3), Mark(CORE_CMD_PAD)>>),
     BlockOf(<<MCState>>)}

(* Two blocks of one layout, so that a walk keeps its place when the block is replaced under it. *)
MCSharedBlocks == {BlockOf(<<MCWrite(MCWord \div 256, MCWord % 256, d)>>) : d \in {<<9, 9>>, <<8, 8>>}}

(* A command in the byte before the go flag. *)
MCEdgeBlocks == {BlockOf([i \in 1..CORE_CMD_GO - 1 |-> Mark(CORE_CMD_PAD)] \o <<MCIdentify>>)}

MCRequests == {[op |-> "read", page |-> 6], [op |-> "write", page |-> 5, data |-> <<9, 9>>],
               [op |-> "passthru", page |-> 5, tx |-> <<3, 0, 0, 1, 1>>, rx |-> 4]}

(* c1 alone: an identify, its answer, and the block that depends on it.  Or c1 beside c2, *)
(* the second request of which may start while the transfer of its first is still out.    *)
MCWorkloads == {[calls |-> c1 :> 3 @@ c2 :> 0, events |-> 2], [calls |-> c1 :> 1 @@ c2 :> 2, events |-> 1]}

MCContents == {<<1, 2>>}

(* Evaluated for every block of BlockBytes bytes. *)
ASSUME ChecksumsTell

(* What it follows from, for these blocks and for those of a Controller Pak. *)
ASSUME ErrorsTold(BlockBytes) /\ ErrorsTold(32)

ASSUME TableIsReal

MCPackets == {<<1, 2, 3, 4, 5>>, <<6, 7, 8, 9, 10>>}

================================================================================
