----------------------------- MODULE ChunkPipe -----------------------------
(***************************************************************************)
(* What ota_pipe.c promises the download task: a channel of bounded length *)
(* that is opened, written, and closed by the other side.  A chunk that was *)
(* accepted is delivered, once and in its turn: the pipe closes only when   *)
(* nothing is under way, whether it was ended or aborted, and only a closed *)
(* one is renewed.                                                          *)
(***************************************************************************)
EXTENDS Naturals, Sequences

CONSTANTS Chunks, Capacity

VARIABLES
    open,       \* a writer serves the pipe
    accepted,   \* the chunks ota_pipe_write took since the pipe was renewed
    chan,       \* those of them that are under way, oldest first
    delivered   \* those that reached the update session

vars == <<open, accepted, chan, delivered>>

Init ==
    /\ open = FALSE
    /\ accepted = << >>
    /\ chan = << >>
    /\ delivered = << >>

Renew ==
    /\ ~open
    /\ accepted' = << >>
    /\ chan' = << >>
    /\ delivered' = << >>
    /\ UNCHANGED open

Open ==
    /\ ~open
    /\ accepted = << >>
    /\ open' = TRUE
    /\ UNCHANGED <<accepted, chan, delivered>>

Write(c) ==
    /\ open
    /\ Len(chan) < Capacity
    /\ accepted' = Append(accepted, c)
    /\ chan' = Append(chan, c)
    /\ UNCHANGED <<open, delivered>>

Deliver ==
    /\ open
    /\ chan # << >>
    /\ delivered' = Append(delivered, Head(chan))
    /\ chan' = Tail(chan)
    /\ UNCHANGED <<open, accepted>>

Close ==
    /\ open
    /\ chan = << >>
    /\ open' = FALSE
    /\ UNCHANGED <<accepted, chan, delivered>>

Next == Renew \/ Open \/ (\E c \in Chunks : Write(c)) \/ Deliver \/ Close

Spec == Init /\ [][Next]_vars
=============================================================================
