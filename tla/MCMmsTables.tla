---------------------------- MODULE MCMmsTables ----------------------------
(***************************************************************************)
(* A store with one measurement, two sealed files, and the two extents     *)
(* a merge of the two may write.                                           *)
(***************************************************************************)
EXTENDS MmsTables

Name(seq, level, extent) == [seq |-> seq, level |-> level, extent |-> extent, order |-> TRUE]

MCFiles ==
    {Name(1, 0, 0), Name(2, 0, 0), Name(1, 1, 0), Name(1, 1, 1)}

MCCacheable == {Name(1, 0, 0)}

MCLevelMinGroupFiles == (0 :> 2)

\* The wider store: four sealed files, so that one planning pass gives two
\* groups and two compactions run side by side, and the two files they write
\* are merged again at the next level.
MCWideFiles ==
    {Name(1, 0, 0), Name(2, 0, 0), Name(3, 0, 0), Name(4, 0, 0),
     Name(1, 1, 0), Name(3, 1, 0), Name(1, 2, 0)}

MCWideLevelMinGroupFiles == (0 :> 2 @@ 1 :> 2)

=============================================================================
