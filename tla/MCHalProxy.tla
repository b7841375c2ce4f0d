----------------------------- MODULE MCHalProxy -----------------------------
(***************************************************************************)
(* Instances of HalProxy for TLC.                                          *)
(***************************************************************************)
EXTENDS HalProxyChannel

CONSTANTS n, w, als   \* a plain, a wake-up and a wise light sensor

MCHandle  == {n, w, als}

\* One event; a batch of two, longer than an event FMQ of one; a batch in
\* which AlsCorrection may drop an event.
SingleBatch  == {<<w>>}
ShortBatches == {<<w>>, <<n, w>>}
AlsBatches   == {<<als, w>>}

SubHalSymmetry == Permutations(SubHals)
=============================================================================
