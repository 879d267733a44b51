--------------------------- MODULE MCClientSender ---------------------------
EXTENDS ClientSender

\* An answer buffer that is not written reads as no answer at all, or as any
\* answer to a registration.
NoStale == {}
SomeStale == {[type |-> "SUCC", id |-> 1], [type |-> "USED", id |-> 0], [type |-> "FULL", id |-> 0]}

\* The client's fields may hold what an earlier allocation left there: the
\* id and the room of somebody.
SomeId == {1}
SomeRoom == Room
\* Or nothing, as in memory that is fresh.
NoId == {0}
NoRoomYet == {NoRoom}
=============================================================================
