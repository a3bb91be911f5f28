---------------------------- MODULE MCRtpVideoQueue ----------------------------
(* Frames of one and of two blocks, with one parity packet to two data packets, *)
(* with as many as data packets, and with none.  Their packets wrap, and their  *)
(* number passes half the space.                                                *)
EXTENDS RtpVideoQueue

Block(first, data, percent) == [first |-> first, data |-> data, percent |-> percent]

MCLayout == << <<Block(0, 2, 20)>>,
               <<Block(3, 2, 20), Block(6, 1, 20)>>,
               <<Block(8, 2, 0)>>,
               <<Block(10, 1, 20), Block(12, 2, 20)>>,
               <<Block(15, 1, 20)>>,
               <<Block(17, 2, 100)>>,
               <<Block(21, 2, 0), Block(23, 1, 20)>>,
               <<Block(25, 2, 20)>>,
               <<Block(28, 1, 0)>> >>
===============================================================================
