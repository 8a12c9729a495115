----------------------------- MODULE Geometries -----------------------------
(***************************************************************************)
(* PieceGeometry over its inputs: every piece length, contents of growing  *)
(* length.                                                                 *)
(***************************************************************************)
EXTENDS PieceGeometry, Samples

CONSTANTS MaxLength, MaxPieceLength

GeometryInit == \E pl \in 1 .. MaxPieceLength :
  sample = [of |-> "geometry", info |-> [Length |-> 0, PieceLength |-> pl]]

GrowContent ==
  /\ Is("geometry") /\ sample.info.Length < MaxLength /\ ValidInfo(sample.info)
  /\ sample' = [sample EXCEPT !.info.Length = @ + 1]

GeometrySpec == GeometryInit /\ [][GrowContent]_sample

(***************************************************************************)
(* Downloader, server and tracker agree on where pieces and blocks lie:    *)
(* the blocks that are asked for tile the content, are the ones the other  *)
(* side serves, and the bytes left are those of the pieces that are left.  *)
(***************************************************************************)
GeometryExact ==
  Is("geometry") /\ ValidInfo(sample.info) =>
    /\ BlocksTile(sample.info)
    /\ BlocksServable(sample.info)
    /\ BytesLeftExact(sample.info)
=============================================================================
