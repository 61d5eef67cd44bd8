------------------------------ MODULE MCUpdate ------------------------------
(* A release whose first chunk does not compress, with the code's sizes    *)
(* (see MCDownloads for the others): a chunk is 9980 bytes, two units of   *)
(* 4990.                                                                   *)
EXTENDS Updater

MCInstalled == <<1, 2, 4, 9>>

MCReleases ==
    {[ver |-> <<1, 2, 5, 0>>, fits |-> TRUE, hashed |-> TRUE, signed |-> TRUE,
      len |-> 3, dense |-> {0}]}
=============================================================================
