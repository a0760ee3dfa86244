--------------------------- MODULE MCRfbEncodings ---------------------------
EXTENDS RfbEncodings

(* Drawings of a 66 by 5 screen: more than one 64 pixel tile wide, with     *)
(* palettes at the limits the encoders branch on (1, 2, 5, 67, 68 and 130   *)
(* colours), runs of a length that is not one, and two small updates whose  *)
(* order decides what is on the screen.                                     *)
Fill(r, f(_)) == [reg |-> r, px |-> [i \in 1 .. r.w * r.h |-> f(i)]]
Colour(i) == (i * 3600) % 16777216
Wide(n) == Fill(Reg(0, 0, 66, 5), LAMBDA i : Colour(Less(i, n)))
Bands == Fill(Reg(0, 0, 66, 5), LAMBDA i : Colour((i \div 4) % 20))
Small == Fill(Reg(5, 2, 7, 2), LAMBDA i : Colour(i))
Other == Fill(Reg(2, 1, 4, 3), LAMBDA i : 16711680 + i)

McScripts == {<<Wide(n)>> : n \in {1, 2, 5, 67, 68, 130}}
             \union {<<Bands>>, <<Small, Other>>, <<Other, Small>>}
McSize == [w |-> 66, h |-> 5]
=============================================================================
