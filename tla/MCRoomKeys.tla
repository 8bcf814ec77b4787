---------------------------- MODULE MCRoomKeys ----------------------------
\* RoomKeys on a small instance; clients, rooms and keys are interchangeable.
EXTENDS RoomKeys, TLC
Symmetry == Permutations(Clients) \cup Permutations(Channels) \cup Permutations(Keys)
=============================================================================
