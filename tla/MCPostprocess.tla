--------------------------- MODULE MCPostprocess ---------------------------
(***************************************************************************)
(* An instance of Postprocess: three overlapping boxes, of which the outer *)
(* two do not suppress each other, and one in the border of a wide image.  *)
(***************************************************************************)
EXTENDS Postprocess

SquareAndWide == {<<6, 6>>, <<3, 2>>}
Chain ==
  {<<2, 3, 4, 2>>, <<3, 3, 4, 2>>, <<4, 3, 4, 2>>, <<3, 0, 4, 1>>}
=============================================================================
