---------------------------- MODULE RfbEncodings ----------------------------
(***************************************************************************)
(* How a part of the screen travels: the damage of the X server becomes a  *)
(* region (src/common/ltsm_xcb_types.cpp, librfb_x11server.cpp), the       *)
(* region is divided into blocks, each block is encoded by a job of a      *)
(* thread (src/librfb/server/librfb_encodings.cpp), and the client draws   *)
(* it, itself or by a job of its own threads                               *)
(* (src/librfb/client/librfb_decodings.cpp, src/client/ltsm_client.cpp).   *)
(*                                                                         *)
(* A pixel is its colour, r * 65536 + g * 256 + b; what is sent is a       *)
(* sequence of numbers: one for a byte, a count or a pixel.  zlib, lz4 and *)
(* jpeg are boxes that give back what was put in; of a zlib stream the     *)
(* number of the stream and of the piece is kept.                          *)
(***************************************************************************)
EXTENDS Integers, Sequences, FiniteSets, SequencesExt

CONSTANTS
    EncTypes,    \* the encodings to look at
    EncFormats,  \* "same" or "swapped": the client's pixels beside the server's
    EncSize,     \* the screen: [w, h]
    EncScripts,  \* what may be drawn: sequences of [reg, px]
    EncOpts,     \* whether the client's options may come
    EncThreads,  \* vnc:encoding:threads
    EncFast      \* 1024 in the code: larger regions have a fast check

ASSUME EncAssumption == EncThreads \in Nat \ {0} /\ EncFast \in Nat

VARIABLES
    encType,   \* the encoder's type
    encFmt,    \* whether the formats differ
    encScreen, \* the pixels of the server's screen
    encDamage, \* the region to send
    encDraws,  \* what is still to be drawn
    encSrv,    \* sendFrameBuffer at work: the frame, its blocks, what is ready
    encZip,    \* the server's zlib stream: its number, pieces made
    encWire,   \* the stream to the client
    encCli,    \* the client: rectangles to come, its zlib stream, its state
    encJobs,   \* jobs posted to the client's threads
    encShow,   \* what the client's window shows
    encExcuse  \* history: what went wrong that a property excepts
EncVars == <<encType, encFmt, encScreen, encDamage, encDraws, encSrv, encZip,
             encWire, encCli, encJobs, encShow, encExcuse>>

(***************************************************************************)
(* XCB::Region.                                                            *)
(***************************************************************************)
Reg(x, y, w, h) == [x |-> x, y |-> y, w |-> w, h |-> h]
NoReg == Reg(-1, -1, 0, 0)
Whole == Reg(0, 0, EncSize.w, EncSize.h)
Less(a, b) == IF a < b THEN a ELSE b
More(a, b) == IF a < b THEN b ELSE a
RegValid(r) == r.x >= 0 /\ r.y >= 0 /\ r.w > 0 /\ r.h > 0

RegJoin(r, s) ==
    LET x == Less(r.x, s.x)  y == Less(r.y, s.y)
    IN IF ~RegValid(r) THEN s
       ELSE IF s.w = 0 \/ s.h = 0 \/ s = r THEN r
       ELSE Reg(x, y, More(r.x + r.w, s.x + s.w) - x, More(r.y + r.h, s.y + s.h) - y)

Intersects(r, s) ==
    /\ r.w > 0 /\ r.h > 0 /\ s.w > 0 /\ s.h > 0
    /\ Less(r.x + r.w, s.x + s.w) > More(r.x, s.x)
    /\ Less(r.y + r.h, s.y + s.h) > More(r.y, s.y)

Intersected(r, s) ==
    LET x == More(r.x, s.x)  y == More(r.y, s.y)
    IN IF Intersects(r, s)
       THEN Reg(x, y, Less(r.x + r.w, s.x + s.w) - x, Less(r.y + r.h, s.y + s.h) - y)
       ELSE NoReg

AlignDown(v, a) == (v \div a) * a
AlignUp(v, a) == AlignDown(v + a - 1, a)
(* FAULT for a mutant: the width is aligned without what x moved by.       *)
FaultAlign(r, a) == Reg(AlignDown(r.x, a), AlignDown(r.y, a), AlignUp(r.w, a), AlignUp(r.h, a))
Align(r, a) ==
    LET x == AlignDown(r.x, a)  y == AlignDown(r.y, a)
    IN Reg(x, y, AlignUp(r.w + (r.x - x), a), AlignUp(r.h + (r.y - y), a))

(* Where the number i of rows of w is.                                     *)
Col(i, w) == (i - 1) % w
Row(i, w) == (i - 1) \div w
(* Blocks of at most w x h, row by row.                                    *)
DivideBlocks(r, w, h) ==
    LET cw == Less(w, r.w)
        ch == Less(h, r.h)
        cols == (r.w + cw - 1) \div cw
        rows == (r.h + ch - 1) \div ch
    IN [i \in 1 .. cols * rows |->
           LET xx == Col(i, cols) * cw  yy == Row(i, cols) * ch
           IN Reg(r.x + xx, r.y + yy, Less(r.w - xx, cw), Less(r.h - yy, ch))]
DivideCounts(r, cols, rows) ==
    DivideBlocks(r, IF r.w <= cols THEN 1 ELSE r.w \div cols, IF r.h <= rows THEN 1 ELSE r.h \div rows)

(***************************************************************************)
(* FrameBuffer: a width and the pixels, row by row.                        *)
(***************************************************************************)
PixelAt(fb, x, y) == fb.px[y * fb.w + x + 1]
PixelsOf(fb, r) ==
    [i \in 1 .. r.w * r.h |-> PixelAt(fb, r.x + Col(i, r.w), r.y + Row(i, r.w))]
CopyRegion(px, r) == [w |-> r.w, h |-> r.h, px |-> PixelsOf([w |-> EncSize.w, px |-> px], r)]
(* The pixels px with those of r replaced by new, one per pixel of r.      *)
Inside(r, i) ==
    LET x == Col(i, EncSize.w)  y == Row(i, EncSize.w)
    IN x >= r.x /\ x < r.x + r.w /\ y >= r.y /\ y < r.y + r.h
BlitRegion(px, r, new) ==
    [i \in DOMAIN px |->
        IF Inside(r, i)
        THEN new[(Row(i, EncSize.w) - r.y) * r.w + Col(i, EncSize.w) - r.x + 1]
        ELSE px[i]]

PixelMapWeight(fb, r) ==
    LET px == PixelsOf(fb, r)
    IN [p \in {px[i] : i \in DOMAIN px} |-> Cardinality({i \in DOMAIN px : px[i] = p})]
MaxWeightPixel(map) == CHOOSE p \in DOMAIN map : \A q \in DOMAIN map : map[q] <= map[p]
(* The numbers from 1 to n of which P holds, in order.                     *)
Positions(n, P(_)) == SelectSeq([i \in 1 .. n |-> i], P)
PixelMapPalette(fb, r) ==
    LET px == PixelsOf(fb, r)
        first == Positions(Len(px), LAMBDA i : \A j \in 1 .. i - 1 : px[j] # px[i])
    IN [k \in DOMAIN first |-> px[first[k]]]
FindColorIndex(pal, p) == (CHOOSE i \in DOMAIN pal : pal[i] = p) - 1
(* A large region is looked at in its corners first, at coordinates that   *)
(* leave out where the region is.                                          *)
AllOfPixel(fb, pix, r) ==
    /\ r.w * r.h > EncFast =>
          \A c \in {<<r.w - 1, 0>>, <<0, r.h - 1>>, <<r.w - 1, r.h - 1>>, <<r.w \div 2, r.h \div 2>>} :
              PixelAt(fb, c[1], c[2]) = pix
    /\ \A x \in r.x .. r.x + r.w - 1, y \in r.y .. r.y + r.h - 1 : PixelAt(fb, x, y) = pix

(* The runs of equal pixels: their first positions, then their lengths.    *)
ToRLE(fb, r) ==
    LET px == PixelsOf(fb, r)
        starts == Positions(Len(px), LAMBDA i : i = 1 \/ px[i] # px[i - 1])
        after(k) == IF k = Len(starts) THEN Len(px) + 1 ELSE starts[k + 1]
    IN [k \in DOMAIN starts |-> [p |-> px[starts[k]], n |-> after(k) - starts[k]]]

(* The client's format has red and blue in each other's place.             *)
Swap(p) == (p % 256) * 65536 + ((p \div 256) % 256) * 256 + p \div 65536
ConvertFrom(p) == IF encFmt = "swapped" THEN Swap(p) ELSE p
SendPixel(p) == <<ConvertFrom(p)>>
SendCPixel(p) == <<ConvertFrom(p)>>
SendPixels(s) == [i \in DOMAIN s |-> ConvertFrom(s[i])]

(***************************************************************************)
(* EncodingBase and the encodings of librfb_encodings.cpp: what is sent of *)
(* the block r (in coordinates of the frame) of the frame fb.              *)
(***************************************************************************)
SendRawRegionPixels(fb, r) == SendPixels(PixelsOf(fb, r))

(* Sequences put together; halved, for TLC's stack.                        *)
RECURSIVE Concat(_)
Concat(seqs) ==
    LET n == Len(seqs)
    IN IF n = 0 THEN <<>> ELSE IF n = 1 THEN seqs[1]
       ELSE Concat(SubSeq(seqs, 1, n \div 2)) \o Concat(SubSeq(seqs, (n \div 2) + 1, n))

GoodRegion(fb, r) == (r.w = 1 /\ r.h = 1) \/ AllOfPixel(fb, PixelAt(fb, r.x, r.y), r)
(* A subrectangle of one colour that goes on where the one before ended.   *)
GoesOn(a, b) == a.r.y = b.r.y /\ a.r.h = b.r.h /\ a.r.x + a.r.w = b.r.x /\ a.p = b.p
(* What is found is joined to the last, as long as it goes on.             *)
JoinGoods(goods) ==
    LET starts == Positions(Len(goods), LAMBDA k : k = 1 \/ ~GoesOn(goods[k - 1], goods[k]))
        last(k) == goods[IF k = Len(starts) THEN Len(goods) ELSE starts[k + 1] - 1].r
    IN [k \in DOMAIN starts |->
           [goods[starts[k]] EXCEPT !.r.w = last(k).x + last(k).w - goods[starts[k]].r.x]]
(* Every bad region is divided by two and two until none is left.          *)
RECURSIVE RreGoods(_, _, _, _)
RreGoods(fb, bads, goods, skip) ==
    LET subs == Concat([i \in DOMAIN bads |-> DivideCounts(bads[i], 2, 2)])
        good == SelectSeq(subs, LAMBDA r : GoodRegion(fb, r) /\ PixelAt(fb, r.x, r.y) # skip)
        more == JoinGoods(goods \o [i \in DOMAIN good |-> [r |-> good[i], p |-> PixelAt(fb, good[i].x, good[i].y)]])
        left == SelectSeq(subs, LAMBDA r : ~GoodRegion(fb, r))
    IN IF left = <<>> THEN more ELSE RreGoods(fb, left, more, skip)
RreProcessing(fb, r, skip) == RreGoods(fb, <<r>>, <<>>, skip)

SendRects(goods, r, back) ==
    <<Len(goods)>> \o SendPixel(back) \o
    Concat([k \in DOMAIN goods |->
        LET g == goods[k] IN SendPixel(g.p) \o <<g.r.x - r.x, g.r.y - r.y, g.r.w, g.r.h>>])
RreRegion(fb, r) ==
    LET map == PixelMapWeight(fb, r)
        back == MaxWeightPixel(map)
    IN IF Cardinality(DOMAIN map) > 1 THEN SendRects(RreProcessing(fb, r, back), r, back)
       ELSE <<1>> \o SendPixel(back) \o SendPixel(back) \o <<0, 0, 1, 1>>

(* HexTile: the flags, and places and sizes of four bits.                  *)
HexRaw == 1
HexBackground == 2
HexForeground == 4
HexSubrects == 8
HexColoured == 16
BytePerPixel == 4
HexPlace(g, r) == <<((g.r.x - r.x) * 16 + (g.r.y - r.y)) % 256, ((g.r.w - 1) * 16 + (g.r.h - 1)) % 256>>
HexRegionColored(goods, r, back) ==
    <<HexBackground + HexColoured + HexSubrects>> \o SendPixel(back) \o <<Len(goods) % 256>> \o
    Concat([k \in DOMAIN goods |-> SendPixel(goods[k].p) \o HexPlace(goods[k], r)])
HexRegionForeground(goods, r, back) ==
    <<HexBackground + HexForeground + HexSubrects>> \o SendPixel(back) \o SendPixel(goods[1].p) \o
    <<Len(goods) % 256>> \o Concat([k \in DOMAIN goods |-> HexPlace(goods[k], r)])
HexRegionRaw(fb, r) == <<HexRaw>> \o SendRawRegionPixels(fb, r)
HexRawLength(r) == 1 + r.w * r.h * BytePerPixel
HexRegion(fb, r) ==
    LET map == PixelMapWeight(fb, r)
        back == MaxWeightPixel(map)
        goods == RreProcessing(fb, r, back)
        foreground == \A k \in DOMAIN goods : goods[k].p = goods[1].p
        length == IF foreground THEN 2 + 2 * BytePerPixel + Len(goods) * 2
                  ELSE 2 + BytePerPixel + Len(goods) * (2 + BytePerPixel)
    IN CASE Cardinality(DOMAIN map) = 1 -> <<HexBackground>> \o SendPixel(back)
         [] Cardinality(DOMAIN map) > 1 /\ HexRawLength(r) < length -> HexRegionRaw(fb, r)
         [] Cardinality(DOMAIN map) > 1 /\ HexRawLength(r) >= length /\ foreground ->
                HexRegionForeground(goods, r, back)
         [] OTHER -> HexRegionColored(goods, r, back)

(* StreamBitsPack: values of field bits, high bit first, rows of bytes.    *)
RECURSIVE BitsValue(_)
BitsValue(bits) == IF bits = <<>> THEN 0 ELSE 2 * BitsValue(Front(bits)) + Last(bits)
PushBits(vals, field) ==
    LET bits == Concat([i \in DOMAIN vals |->
                    [k \in 1 .. field |-> (vals[i] \div 2^(field - k)) % 2]])
        bit(n) == IF n <= Len(bits) THEN bits[n] ELSE 0
    IN [j \in 1 .. (Len(bits) + 7) \div 8 |-> BitsValue([k \in 1 .. 8 |-> bit(8 * (j - 1) + k)])]
FieldWidth(colours) == IF colours > 4 THEN 4 ELSE IF colours > 2 THEN 2 ELSE 1
TrleRegionPacked(fb, r, pal) ==
    LET row(y) == [x \in 1 .. r.w |-> FindColorIndex(pal, PixelAt(fb, r.x + x - 1, r.y + y - 1))]
    IN <<Len(pal)>> \o SendPixels(pal) \o
       Concat([y \in 1 .. r.h |-> PushBits(row(y), FieldWidth(Len(pal)))])

(* FAULT for a mutant: the length is sent, not the length less one.        *)
RECURSIVE FaultSendRunLength(_)
FaultSendRunLength(n) == IF 255 < n THEN <<255>> \o FaultSendRunLength(n - 255) ELSE <<n % 255>>
RECURSIVE SendRunLength(_)
SendRunLength(n) == IF 255 < n THEN <<255>> \o SendRunLength(n - 255) ELSE <<(n - 1) % 255>>
TrleRegionPlain(rle) ==
    <<128>> \o Concat([k \in DOMAIN rle |-> SendCPixel(rle[k].p) \o SendRunLength(rle[k].n)])
TrleRegionPalette(rle, pal) ==
    <<(Len(pal) + 128) % 256>> \o SendPixels(pal) \o
    Concat([k \in DOMAIN rle |->
        LET index == FindColorIndex(pal, rle[k].p)
        IN IF rle[k].n = 1 THEN <<index>> ELSE <<index + 128>> \o SendRunLength(rle[k].n)])
TrleRegionRaw(fb, r) == <<0>> \o SendPixels(PixelsOf(fb, r))
RECURSIVE Sum(_)
Sum(s) ==
    LET n == Len(s)
    IN IF n = 0 THEN 0 ELSE IF n = 1 THEN s[1] ELSE Sum(SubSeq(s, 1, n \div 2)) + Sum(SubSeq(s, (n \div 2) + 1, n))
RunCost(rle, each) == 1 + Sum([k \in DOMAIN rle |-> each + ((rle[k].n - 1) \div 255) + 1])
TrleRegion(fb, r) ==
    LET pal == PixelMapPalette(fb, r)
        rle == ToRLE(fb, r)
        plain == RunCost(rle, 3)
        palette == IF 1 < Len(rle) /\ Len(rle) < 128 THEN RunCost(rle, 1) + 3 * Len(pal) ELSE 65535
        raw == 1 + 3 * r.w * r.h
    IN IF Len(pal) = 1 THEN <<1>> \o SendCPixel(pal[1])
       ELSE IF Len(pal) <= 16 THEN TrleRegionPacked(fb, r, pal)
       ELSE IF plain < palette /\ plain < raw THEN TrleRegionPlain(rle)
       ELSE IF palette < plain /\ palette < raw THEN TrleRegionPalette(rle, pal)
       ELSE TrleRegionRaw(fb, r)


(* QOI: the colours, differences of eight bits, and what the encoder and   *)
(* the decoder carry along: the last pixel, the run and the table.         *)
Red(p) == p \div 65536
Green(p) == (p \div 256) % 256
Blue(p) == p % 256
(* FAULT for a mutant: the sum of a colour and a difference does not wrap. *)
FaultRgb(r, g, b) == r * 65536 + g * 256 + b
Rgb(r, g, b) == (r % 256) * 65536 + (g % 256) * 256 + (b % 256)
HashIndex64RGB(p) == (Red(p) * 3 + Green(p) * 5 + Blue(p) * 7) % 64
Int8(v) == ((v + 128) % 256) - 128
QoiIndex == 0
QoiDiff == 64
QoiLuma == 128
QoiRun == 192
QoiRgb == 254
QoiStart == [prev |-> -1, run |-> 0, hash |-> [i \in 0 .. 63 |-> -1], out |-> <<>>]
QoiColour(p, prev) ==
    LET vr == Int8(Red(p) - Red(prev))
        vg == Int8(Green(p) - Green(prev))
        vb == Int8(Blue(p) - Blue(prev))
        gr == Int8(vr - vg)
        gb == Int8(vb - vg)
        rgb == <<QoiRgb, Red(p), Green(p), Blue(p)>>
    IN IF prev < 0 THEN rgb
       ELSE IF {vr, vg, vb} \subseteq -2 .. 1 THEN <<QoiDiff + (vr + 2) * 16 + (vg + 2) * 4 + vb + 2>>
       ELSE IF {gr, gb} \subseteq -8 .. 7 /\ vg \in -32 .. 31
            THEN <<QoiLuma + vg + 32, (gr + 8) * 16 + gb + 8>>
       ELSE rgb
QoiPixel(q, p, last) ==
    LET flush == IF q.run > 0 THEN <<QoiRun + q.run - 1>> ELSE <<>>
        h == HashIndex64RGB(p)
    IN IF p = q.prev
       THEN IF q.run + 1 = 62 \/ last THEN [q EXCEPT !.run = 0, !.out = Append(@, QoiRun + q.run)]
            ELSE [q EXCEPT !.run = @ + 1]
       ELSE IF q.hash[h] = p
            THEN [q EXCEPT !.run = 0, !.prev = p, !.out = @ \o flush \o <<QoiIndex + h>>]
       ELSE [q EXCEPT !.run = 0, !.prev = p, !.hash[h] = p, !.out = @ \o flush \o QoiColour(p, q.prev)]
(* The pixels lo .. hi, halved; a run is never longer than 62, the test    *)
(* makes TLC evaluate the first half first.                                *)
RECURSIVE QoiPixels(_, _, _, _)
QoiPixels(px, lo, hi, q) ==
    LET mid == (lo + hi) \div 2
        half == QoiPixels(px, lo, mid, q)
    IN IF lo = hi THEN QoiPixel(q, px[lo], lo = Len(px))
       ELSE IF half.run > 62 THEN half ELSE QoiPixels(px, mid + 1, hi, half)
QoiPadding == <<0, 0, 0, 0, 0, 0, 0, 1>>
EncodeBGRx(fb, r) == QoiPixels(PixelsOf(fb, r), 1, r.w * r.h, QoiStart).out \o QoiPadding

(* lz4CompressFast of a buffer: bytes bytes, and what they say.            *)
Lz4CompressFast(buf, bytes) == <<bytes>> \o buf
Lz4Region(fb, r) == Lz4CompressFast(PixelsOf(fb, r), r.w * r.h * BytePerPixel)
TjpgRegion(fb, r) == PixelsOf(fb, r)

(* sendRegion of the encoder.                                              *)
SendRegion(type, fb, r) ==
    CASE type \in {"RRE", "CoRRE"} -> RreRegion(fb, r)
      [] type = "HexTile" -> HexRegion(fb, r)
      [] type \in {"TRLE", "ZRLE"} -> TrleRegion(fb, r)
      [] type = "LZ4" -> Lz4Region(fb, r)
      [] type = "TJPG" -> TjpgRegion(fb, r)
      [] type \in {"QOI", "ZQOI"} -> EncodeBGRx(fb, r)
      [] OTHER -> SendRawRegionPixels(fb, r)

(***************************************************************************)
(* librfb_decodings.cpp: what is drawn in the region r from the numbers at *)
(* position at of tok, and the position after them; ok is FALSE where the  *)
(* decoder throws.                                                         *)
(***************************************************************************)
Shown(p) == ConvertFrom(p)
Decoded(px, next) == [ok |-> TRUE, px |-> px, next |-> next]
Thrown == [ok |-> FALSE, px |-> <<>>, next |-> 0]
Numbers(tok, at, n) == SubSeq(tok, at, at + n - 1)
Draw(ps) == [i \in DOMAIN ps |-> Shown(ps[i])]
(* Pixels of r: the background, and over it subrectangles in their order.  *)
Painted(r, back, subs) ==
    [i \in 1 .. r.w * r.h |->
        LET x == Col(i, r.w)
            y == Row(i, r.w)
            over == {k \in DOMAIN subs : /\ x >= subs[k].r.x /\ x < subs[k].r.x + subs[k].r.w
                                         /\ y >= subs[k].r.y /\ y < subs[k].r.y + subs[k].r.h}
        IN Shown(IF over = {} THEN back ELSE subs[CHOOSE k \in over : \A j \in over : j <= k].p)]
InRange(r, subs) ==
    \A k \in DOMAIN subs : subs[k].r.x + subs[k].r.w <= r.w /\ subs[k].r.y + subs[k].r.h <= r.h

DecodingRRE(tok, at, r) ==
    LET subs == [k \in 1 .. tok[at] |->
                    LET o == at + 2 + 5 * (k - 1)
                    IN [p |-> tok[o], r |-> Reg(tok[o + 1], tok[o + 2], tok[o + 3], tok[o + 4])]]
    IN IF InRange(r, subs) THEN Decoded(Painted(r, tok[at + 1], subs), at + 2 + 5 * tok[at]) ELSE Thrown

Flag(flags, f) == (flags \div f) % 2 = 1
(* The place of a subrectangle from its two bytes.                         *)
HexRect(v1, v2) == Reg(v1 \div 16, v1 % 16, 1 + (v2 \div 16), 1 + (v2 % 16))
DecodingHexTile(tok, at, r) ==
    LET flag == tok[at]
        fg == Flag(flag, HexForeground)
        coloured == Flag(flag, HexColoured) /\ ~fg
        count == at + 2 + (IF fg THEN 1 ELSE 0)
        each == IF coloured THEN 3 ELSE 2
        subs == [k \in 1 .. tok[count] |->
                    LET o == count + each * k - 1
                    IN [p |-> IF coloured THEN tok[o - 1] ELSE tok[at + 2], r |-> HexRect(tok[o], tok[o + 1])]]
    IN IF r.w > 16 \/ r.h > 16 THEN Thrown
       ELSE IF Flag(flag, HexRaw) THEN Decoded(Numbers(tok, at + 1, r.w * r.h), at + 1 + r.w * r.h)
       ELSE IF ~Flag(flag, HexSubrects) THEN Decoded(Painted(r, tok[at + 1], <<>>), count)
       ELSE IF InRange(r, subs) THEN Decoded(Painted(r, tok[at + 1], subs), count + 1 + each * tok[count])
       ELSE Thrown

(* StreamBitsUnpack: the values of a row, taken from its last bit.         *)
PopBits(bytes, counts, field) ==
    LET pad == 8 * Len(bytes) - field * counts
        bit(n) == (bytes[Len(bytes) - (n \div 8)] \div 2^(n % 8)) % 2
    IN [i \in 1 .. counts |->
           BitsValue([k \in 1 .. field |-> bit(pad + field * (counts - i) + field - k)])]
RecvRunLength(tok, at) ==
    LET stops == {e \in at .. Len(tok) : tok[e] # 255 /\ \A j \in at .. e - 1 : tok[j] = 255}
        stop == CHOOSE e \in stops : TRUE
    IN IF stops = {} THEN [n |-> 65536, next |-> at] ELSE [n |-> 255 * (stop - at) + tok[stop] + 1, next |-> stop + 1]
TrlePacked(tok, at, r) ==
    LET n == tok[at]
        field == FieldWidth(n)
        rowsz == (field * r.w + 7) \div 8
        row(y) == PopBits(Numbers(tok, at + 1 + n + rowsz * (y - 1), rowsz), r.w, field)
        index == Concat([y \in 1 .. r.h |-> row(y)])
    IN IF \E i \in DOMAIN index : index[i] >= n THEN Thrown
       ELSE Decoded([i \in DOMAIN index |-> Shown(tok[at + 1 + index[i]])], at + 1 + n + rowsz * r.h)
(* Runs until left pixels are drawn; of the palette pal, or plain ones.    *)
(* What is past the end of a block is not waited for, it is thrown.        *)
RECURSIVE TrleRuns(_, _, _, _, _)
TrleRuns(tok, at, left, pal, px) ==
    LET plain == pal = <<>>
        index == IF plain THEN 0 ELSE tok[at] % 128
        p == IF plain THEN tok[at] ELSE pal[index + 1]
        run == IF plain \/ tok[at] >= 128 THEN RecvRunLength(tok, at + 1) ELSE [n |-> 1, next |-> at + 1]
    IN IF left = 0 THEN Decoded(px, at)
       ELSE IF at > Len(tok) THEN Thrown
       ELSE IF (~plain /\ index >= Len(pal)) \/ run.n > left THEN Thrown
       ELSE TrleRuns(tok, run.next, left - run.n, pal, px \o [i \in 1 .. run.n |-> Shown(p)])
UpdateSubRegion(tok, at, r) ==
    LET type == tok[at]
        n == r.w * r.h
    IN CASE type = 0 -> Decoded(Draw(Numbers(tok, at + 1, n)), at + 1 + n)
         [] type = 1 -> Decoded([i \in 1 .. n |-> Shown(tok[at + 1])], at + 2)
         [] type \in 2 .. 16 -> TrlePacked(tok, at, r)
         [] type = 128 -> TrleRuns(tok, at + 1, n, <<>>, <<>>)
         [] type >= 130 -> TrleRuns(tok, at + type - 127, n, Numbers(tok, at + 1, type - 128), <<>>)
         [] OTHER -> Thrown

(* QOI: one pixel, from the tag at q.at of the buffer.                     *)
QoiTake(buf, q) ==
    LET tag == buf[q.at]
        b(k) == buf[q.at + k]
        kind == (tag \div 64) * 64
        vg == (tag % 64) - 32
        keep(p, next) == [q EXCEPT !.prev = p, !.at = next, !.out = Append(@, p), !.hash[HashIndex64RGB(p)] = p]
    IN IF q.run > 0 THEN [q EXCEPT !.run = @ - 1, !.out = Append(@, q.prev)]
       ELSE IF q.at > Len(buf) THEN [q EXCEPT !.ok = FALSE]
       ELSE IF tag = QoiRgb THEN keep(Rgb(b(1), b(2), b(3)), q.at + 4)
       ELSE IF kind = QoiIndex
            THEN IF q.hash[tag] < 0 THEN [q EXCEPT !.ok = FALSE]
                 ELSE [q EXCEPT !.prev = q.hash[tag], !.at = @ + 1, !.out = Append(@, q.hash[tag])]
       ELSE IF kind = QoiDiff
            THEN keep(Rgb(Red(q.prev) + ((tag \div 16) % 4) - 2, Green(q.prev) + ((tag \div 4) % 4) - 2,
                          Blue(q.prev) + (tag % 4) - 2), q.at + 1)
       ELSE IF kind = QoiLuma
            THEN keep(Rgb(Red(q.prev) + vg - 8 + (b(1) \div 16), Green(q.prev) + vg,
                          Blue(q.prev) + vg - 8 + (b(1) % 16)), q.at + 2)
       ELSE [q EXCEPT !.run = tag % 64, !.at = @ + 1, !.out = Append(@, q.prev)]
RECURSIVE QoiTaken(_, _, _)
QoiTaken(buf, n, q) ==
    LET half == QoiTaken(buf, n \div 2, q)
    IN IF n = 1 THEN QoiTake(buf, q) ELSE IF ~half.ok THEN half ELSE QoiTaken(buf, n - (n \div 2), half)
DecodeBGRx(buf, r) ==
    LET q == QoiTaken(buf, r.w * r.h, [prev |-> -1, run |-> 0, hash |-> QoiStart.hash, out |-> <<>>, at |-> 1, ok |-> TRUE])
    IN IF q.ok THEN Decoded(q.out, q.at) ELSE Thrown

(* lz4DecompressSafe: gives back a buffer that fits in outlen bytes.       *)
Lz4DecompressSafe(zip, outlen) ==
    IF zip[1] > outlen THEN Thrown ELSE Decoded(Tail(zip), Len(zip) + 1)
DecodeLZ4(buf, r) == Lz4DecompressSafe(buf, r.w * r.h * BytePerPixel)
DecodeZQOI(buf, r) ==
    LET raw == Lz4DecompressSafe(buf, r.w * r.h * BytePerPixel)
    IN IF raw.ok THEN DecodeBGRx(raw.px, r) ELSE Thrown
DecodeJPG(buf, r) == Decoded(buf, Len(buf) + 1)
(* What a job of the client's threads does.                                *)
DecoderJob(type, buf, r) ==
    CASE type = "LZ4" -> DecodeLZ4(buf, r)
      [] type = "TJPG" -> DecodeJPG(buf, r)
      [] type = "QOI" -> DecodeBGRx(buf, r)
      [] type = "ZQOI" -> DecodeZQOI(buf, r)

(***************************************************************************)
(* The server.                                                             *)
(***************************************************************************)
Posted == {"LZ4", "TJPG", "QOI", "ZQOI"}
TypeCode == [Raw |-> 0, RRE |-> 2, CoRRE |-> 4, HexTile |-> 5, Zlib |-> 6, TRLE |-> 15, ZRLE |-> 16,
             LZ4 |-> 101, TJPG |-> 102, QOI |-> 103, ZQOI |-> 104]
(* Of LZ4, TJPG and QOI: bands of the screen, or of 256 * 256 pixels.      *)
BandSize(r) ==
    IF r.w = EncSize.w /\ r.h = EncSize.h
    THEN [w |-> r.w, h |-> IF 1 < EncThreads THEN r.h \div EncThreads ELSE r.h]
    ELSE IF r.w * r.h < 65536 THEN [w |-> r.w, h |-> r.h]
    ELSE [w |-> r.w, h |-> 65536 \div r.h]
BlockSize(type, r) ==
    CASE type = "RRE" -> [w |-> 128, h |-> 128]
      [] type \in {"CoRRE", "TRLE", "ZRLE"} -> [w |-> 64, h |-> 64]
      [] type = "HexTile" -> [w |-> 16, h |-> 16]
      [] type \in Posted -> BandSize(r)
      [] OTHER -> [w |-> r.w, h |-> r.h]
Blocks(type, r) == LET b == BlockSize(type, r) IN DivideBlocks(r, b.w, b.h)

EncIdle == [on |-> FALSE, fb |-> [w |-> 0, h |-> 0, px |-> <<>>], blocks |-> <<>>, done |-> <<>>, sent |-> 0,
            top |-> [x |-> 0, y |-> 0]]
Alive == encCli.state = "run"

(* A program draws: the damage is joined to what is not sent yet.          *)
DamageNotify ==
    /\ encDraws # <<>>
    /\ encScreen' = BlitRegion(encScreen, encDraws[1].reg, encDraws[1].px)
    /\ encDamage' = RegJoin(encDamage, encDraws[1].reg)
    /\ encDraws' = Tail(encDraws)
    /\ UNCHANGED <<encType, encFmt, encSrv, encZip, encWire, encCli, encJobs, encShow, encExcuse>>

(* The damage is aligned, read from the X server, divided.                 *)
SendFrameBuffer ==
    LET r == Intersected(Whole, Align(encDamage, 4))
    IN /\ Alive /\ ~encSrv.on /\ RegValid(encDamage)
       /\ encDamage' = NoReg
       /\ encSrv' = [on |-> TRUE, fb |-> CopyRegion(encScreen, r), blocks |-> Blocks(encType, r),
                     done |-> [i \in DOMAIN Blocks(encType, r) |-> <<>>], sent |-> 0,
                     top |-> [x |-> r.x, y |-> r.y]]
       /\ encWire' = Append(encWire, Len(Blocks(encType, r)) % 65536)
       /\ UNCHANGED <<encType, encFmt, encScreen, encDraws, encZip, encCli, encJobs, encShow, encExcuse>>

(* Jobs are added in order, while fewer than EncThreads are at work.       *)
Added(i) == Cardinality({j \in 1 .. i - 1 : encSrv.done[j] = <<>>}) < EncThreads
EncoderJob(i) ==
    LET b == encSrv.blocks[i]
        r == [b EXCEPT !.x = @ - encSrv.top.x, !.y = @ - encSrv.top.y]
    IN /\ Alive /\ encSrv.done[i] = <<>> /\ Added(i)
       /\ encSrv' = [encSrv EXCEPT !.done[i] = SendRegion(encType, encSrv.fb, r)]
       /\ UNCHANGED <<encType, encFmt, encScreen, encDamage, encDraws, encZip, encWire, encCli, encJobs,
                      encShow, encExcuse>>

SendHeader(b) == <<b.x, b.y, b.w, b.h, TypeCode[encType]>>
(* deflateData: the number of the stream, of the piece, and what it says.  *)
DeflateData(data) == <<encZip.stream, encZip.piece>> \o data
Counted(data) == <<Len(data)>> \o data
RectBody(data) ==
    CASE encType \in {"Zlib", "ZRLE"} -> Counted(DeflateData(data))
      [] encType = "ZQOI" -> Counted(Lz4CompressFast(data, Len(data)))
      [] encType \in {"LZ4", "TJPG", "QOI"} -> Counted(data)
      [] OTHER -> data
(* When all are added the blocks are sent in the order of the jobs.        *)
SendBlock(i) ==
    /\ i = encSrv.sent + 1 /\ encSrv.done[i] # <<>> /\ Added(Len(encSrv.blocks))
    /\ encWire' = encWire \o SendHeader(encSrv.blocks[i]) \o RectBody(encSrv.done[i])
    /\ encSrv' = IF i = Len(encSrv.blocks) THEN EncIdle ELSE [encSrv EXCEPT !.sent = i]
    /\ encZip' = IF encType \in {"Zlib", "ZRLE"} THEN [encZip EXCEPT !.piece = @ + 1] ELSE encZip
SendBlocks ==
    /\ Alive
    /\ \E i \in DOMAIN encSrv.blocks : SendBlock(i)
    /\ UNCHANGED <<encType, encFmt, encScreen, encDamage, encDraws, encCli, encJobs, encShow, encExcuse>>

(* setEncodingOptions: zlib starts a new stream, jpeg the whole screen.    *)
SetEncodingOptions ==
    /\ Alive /\ EncOpts /\ "options" \notin encExcuse
    /\ encType \in {"Zlib", "TJPG"} /\ ~encSrv.on
    /\ encZip' = IF encType = "Zlib" THEN [stream |-> encZip.stream + 1, piece |-> 0] ELSE encZip
    /\ encDamage' = IF encType = "TJPG" THEN Whole ELSE encDamage
    /\ encExcuse' = encExcuse \union {"options"}
    /\ UNCHANGED <<encType, encFmt, encScreen, encDraws, encSrv, encWire, encCli, encJobs, encShow>>

(***************************************************************************)
(* The client.                                                             *)
(***************************************************************************)
WireReg == Reg(encWire[1], encWire[2], encWire[3], encWire[4])
(* inflateData: a piece of another stream, or out of its turn, is refused. *)
InflateData(zip) ==
    IF zip[1] = encCli.stream /\ zip[2] = encCli.piece
    THEN Decoded(SubSeq(zip, 3, Len(zip)), Len(zip) + 1) ELSE Thrown
(* The number of a block's data follows the header.                        *)
Buffer == Numbers(encWire, 7, encWire[6])
AfterBuffer(dec) == [dec EXCEPT !.next = 7 + encWire[6]]
DecodingZlib(r) == AfterBuffer(InflateData(Buffer))
DecodingTRLE(r) ==
    LET raw == InflateData(Buffer)
    IN IF encType = "TRLE" THEN UpdateSubRegion(encWire, 6, r)
       ELSE IF raw.ok THEN AfterBuffer(UpdateSubRegion(raw.px, 1, r)) ELSE Thrown
(* recvDecodingUpdateRegionAwait of what is drawn at once.                 *)
UpdateRegion(r) ==
    CASE encType \in {"RRE", "CoRRE"} -> DecodingRRE(encWire, 6, r)
      [] encType = "HexTile" -> DecodingHexTile(encWire, 6, r)
      [] encType \in {"TRLE", "ZRLE"} -> DecodingTRLE(r)
      [] encType = "Zlib" -> DecodingZlib(r)
      [] OTHER -> Decoded(Draw(Numbers(encWire, 6, r.w * r.h)), 6 + r.w * r.h)
(* Raw pixels of the client's format, shown as if of the server's.         *)
WrongFormat ==
    encFmt = "swapped" /\ (encType = "Zlib" \/ (encType = "HexTile" /\ encWire[6] = HexRaw))

RecvFBUpdate ==
    /\ Alive /\ encCli.left = -1 /\ encWire # <<>>
    /\ encCli' = [encCli EXCEPT !.left = encWire[1]]
    /\ encWire' = Tail(encWire)
    /\ UNCHANGED <<encType, encFmt, encScreen, encDamage, encDraws, encSrv, encZip, encJobs, encShow, encExcuse>>

RecvUpdateRegion ==
    LET dec == UpdateRegion(WireReg)
    IN /\ Alive /\ encCli.left > 0 /\ encWire # <<>> /\ encType \notin Posted
       /\ encCli' = [encCli EXCEPT !.left = @ - 1, !.piece = @ + 1, !.state = IF dec.ok THEN @ ELSE "stopped"]
       /\ encShow' = IF dec.ok THEN BlitRegion(encShow, WireReg, dec.px) ELSE encShow
       /\ encWire' = IF dec.ok THEN SubSeq(encWire, dec.next, Len(encWire)) ELSE encWire
       /\ encExcuse' = encExcuse \union (IF WrongFormat THEN {"format"} ELSE {})
       /\ UNCHANGED <<encType, encFmt, encScreen, encDamage, encDraws, encSrv, encZip, encJobs>>

(* postDecoderJob: the decoder's work is left to the threads.              *)
PostDecoderJob ==
    /\ Alive /\ encCli.left > 0 /\ encWire # <<>> /\ encType \in Posted
    /\ encCli' = [encCli EXCEPT !.left = @ - 1]
    /\ encJobs' = Append(encJobs, [r |-> WireReg, buf |-> Buffer, on |-> FALSE])
    /\ encWire' = SubSeq(encWire, 7 + encWire[6], Len(encWire))
    /\ UNCHANGED <<encType, encFmt, encScreen, encDamage, encDraws, encSrv, encZip, encShow, encExcuse>>

(* A thread takes the next job, and counts it.                             *)
DecoderJobStarts ==
    /\ Alive
    /\ \E k \in DOMAIN encJobs :
           /\ ~encJobs[k].on /\ \A j \in 1 .. k - 1 : encJobs[j].on
           /\ encJobs' = [encJobs EXCEPT ![k].on = TRUE]
    /\ encCli' = [encCli EXCEPT !.jobs = @ + 1]
    /\ UNCHANGED <<encType, encFmt, encScreen, encDamage, encDraws, encSrv, encZip, encWire, encShow, encExcuse>>

(* FAULT for a mutant: a job is not counted off.                           *)
FaultDecoderJobEnds(k) ==
    LET dec == DecoderJob(encType, encJobs[k].buf, encJobs[k].r)
    IN /\ encJobs' = RemoveAt(encJobs, k)
       /\ encCli' = [encCli EXCEPT !.state = IF dec.ok THEN @ ELSE "ended"]
       /\ encShow' = IF dec.ok THEN BlitRegion(encShow, encJobs[k].r, dec.px) ELSE encShow
(* A job ends: what it decoded is drawn; an exception ends the program.    *)
DecoderJobEnds(k) ==
    LET dec == DecoderJob(encType, encJobs[k].buf, encJobs[k].r)
    IN /\ encJobs' = RemoveAt(encJobs, k)
       /\ encCli' = IF dec.ok THEN [encCli EXCEPT !.jobs = @ - 1] ELSE [encCli EXCEPT !.state = "ended"]
       /\ encShow' = IF dec.ok THEN BlitRegion(encShow, encJobs[k].r, dec.px) ELSE encShow
(* More is packed into a ZQOI block than its pixels have bytes.            *)
Oversized(job) == encType = "ZQOI" /\ job.buf[1] > job.r.w * job.r.h * BytePerPixel
EndOfJob ==
    /\ Alive
    /\ \E k \in DOMAIN encJobs :
           /\ encJobs[k].on
           /\ DecoderJobEnds(k)
           /\ encExcuse' = encExcuse \union (IF Oversized(encJobs[k]) THEN {"size"} ELSE {})
    /\ UNCHANGED <<encType, encFmt, encScreen, encDamage, encDraws, encSrv, encZip, encWire>>

(* waitDecoderJobs: until no job is counted; then the window is presented. *)
WaitDecoderJobs ==
    /\ Alive /\ encCli.left = 0 /\ encCli.jobs = 0
    /\ encCli' = [encCli EXCEPT !.left = -1]
    /\ encExcuse' = encExcuse \union (IF encJobs # <<>> THEN {"early"} ELSE {})
    /\ UNCHANGED <<encType, encFmt, encScreen, encDamage, encDraws, encSrv, encZip, encWire, encJobs, encShow>>

EncInit ==
    /\ encType \in EncTypes /\ encFmt \in EncFormats
    /\ encScreen = [i \in 1 .. EncSize.w * EncSize.h |-> 0] /\ encShow = encScreen
    /\ encDamage = NoReg /\ encDraws \in EncScripts /\ encSrv = EncIdle
    /\ encZip = [stream |-> 1, piece |-> 0]
    /\ encWire = <<>> /\ encJobs = <<>>
    /\ encCli = [left |-> -1, stream |-> 1, piece |-> 0, jobs |-> 0, state |-> "run"]
    /\ encExcuse = {}
EncNext ==
    \/ DamageNotify
    \/ SendFrameBuffer
    \/ \E i \in DOMAIN encSrv.blocks : EncoderJob(i)
    \/ SendBlocks
    \/ SetEncodingOptions
    \/ RecvFBUpdate
    \/ RecvUpdateRegion
    \/ PostDecoderJob
    \/ DecoderJobStarts
    \/ EndOfJob
    \/ WaitDecoderJobs
EncSpec == EncInit /\ [][EncNext]_EncVars

Pixels == 0 .. 16777215
(* Types: every pixel shown is a colour of three bytes, and a damaged      *)
(* region is one of the screen (or none).                                  *)
EncTypeOK ==
    /\ encType \in EncTypes /\ encFmt \in EncFormats
    /\ \A i \in DOMAIN encShow : encShow[i] \in Pixels /\ encScreen[i] \in Pixels
    /\ encDamage = NoReg \/ Intersected(encDamage, Whole) = encDamage
    /\ \A i \in DOMAIN encWire : encWire[i] \in Nat
    /\ encCli.left \in -1 .. 65535 /\ encCli.jobs \in 0 .. 65535 /\ encCli.state \in {"run", "stopped", "ended"}
    /\ \A k \in DOMAIN encJobs : encJobs[k].on \in BOOLEAN

Quiet ==
    /\ encDamage = NoReg /\ ~encSrv.on /\ encWire = <<>> /\ encJobs = <<>> /\ encCli.left = -1 /\ Alive
(* When nothing is on its way the client's window shows the server's       *)
(* screen: damage joined and aligned (Region), divided, each block packed  *)
(* by its encoding, unpacked and drawn, in whatever order the jobs ran.    *)
(* Left out: pixels shown in the wrong format, and an update that          *)
(* waitDecoderJobs did not wait for.                                       *)
EncShown == Quiet /\ encExcuse \cap {"format", "early"} = {} => encShow = encScreen
(* No decoder throws at what its encoder sent, and none reads past it: the *)
(* client goes on.  Left out: options that start a zlib stream anew, and a *)
(* ZQOI block longer than its pixels.                                      *)
EncDecodes == Alive \/ encExcuse \cap {"options", "size"} # {}
(* decoder_jobs_ counts the jobs at work, so that waitDecoderJobs returns. *)
EncJobsCounted ==
    Alive => encCli.jobs = Cardinality({k \in DOMAIN encJobs : encJobs[k].on})
(* No decoder throws at what its encoder sent.                             *)
(* The code does not keep it (README, section 5).                          *)
EncNoThrow == Alive

(* The words of an update are decoded completely: by as many jobs as were  *)
(* begun, each of a known kind.                                            *)
EncJobsSound == EncTypeOK /\ EncDecodes /\ EncJobsCounted
=============================================================================
