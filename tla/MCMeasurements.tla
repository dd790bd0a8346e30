---------------------------- MODULE MCMeasurements ----------------------------
(* Two writers of two records, two parts, one failure, and each program's     *)
(* command lines: a directory of its own or a given one, kept or removed, lmdb *)
(* there or not, keys wide enough or not.                                      *)
EXTENDS MeasurementsProperties

CommandLines ==
    {a \in [own : BOOLEAN, keep : BOOLEAN, lmdb : BOOLEAN, wide : BOOLEAN] :
        /\ a.own /\ ~a.keep => a.lmdb
        /\ ~a.wide => a.lmdb}
WriterIds == 0 .. 1
PartIds == 0 .. 1
=============================================================================
