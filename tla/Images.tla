-------------------------------- MODULE Images --------------------------------
(* image, image/color and image/draw.  A colour is [kind, ...] with 8-bit
   channels; what its RGBA method returns is [r, g, b, a], 16 bits each.  An
   alpha of 16 bits is always 257 times one of 8, and the divisions by an alpha
   or by 65535 are done in the 8-bit one.  Pix has one colour per pixel.      *)
EXTENDS Integers, Sequences, FiniteSetsExt

Rgba(r, g, b, a) == [kind |-> "Rgba", R |-> r, G |-> g, B |-> b, A |-> a]
NRGBA(r, g, b, a) == [kind |-> "NRGBA", R |-> r, G |-> g, B |-> b, A |-> a]
Gray(y) == [kind |-> "Gray", Y |-> y]
Alpha(a) == [kind |-> "Alpha", A |-> a]
CMYK(c, m, y, k) == [kind |-> "CMYK", C |-> c, M |-> m, Y |-> y, K |-> k]

Wide(x) == 257 * x
Channels(r, g, b, a) == [r |-> r, g |-> g, b |-> b, a |-> a]

RGBA(c) ==
    CASE c.kind = "Rgba" -> Channels(Wide(c.R), Wide(c.G), Wide(c.B), Wide(c.A))
      [] c.kind = "NRGBA" -> Channels(Wide(c.R * c.A) \div 255, Wide(c.G * c.A) \div 255,
                                      Wide(c.B * c.A) \div 255, Wide(c.A))
      [] c.kind = "Gray" -> Channels(Wide(c.Y), Wide(c.Y), Wide(c.Y), 65535)
      [] c.kind = "Alpha" -> Channels(Wide(c.A), Wide(c.A), Wide(c.A), Wide(c.A))
      [] c.kind = "CMYK" ->
           LET ink(x) == Wide((255 - x) * (255 - c.K)) \div 255
           IN  Channels(ink(c.C), ink(c.M), ink(c.Y), 65535)

Uint8(x) == (x \div 256) % 256
ToRGBA(c) == LET w == RGBA(c) IN Rgba(Uint8(w.r), Uint8(w.g), Uint8(w.b), Uint8(w.a))

ToNRGBA(c) ==
    LET w == RGBA(c)
        plain(x) == Uint8((x * 255) \div (w.a \div 257))
    IN  IF w.a = 0 THEN NRGBA(0, 0, 0, 0)
        ELSE NRGBA(plain(w.r), plain(w.g), plain(w.b), Uint8(w.a))

(* The weighted sum, of the high and of the low bytes of the channels. *)
ToGray(c) ==
    LET w == RGBA(c)
        weigh(r, g, b) == 19595 * r + 38470 * g + 7471 * b
        high == weigh(w.r \div 256, w.g \div 256, w.b \div 256)
        low == weigh(w.r % 256, w.g % 256, w.b % 256)
    IN  Gray((high + (low + 32768) \div 256) \div 65536)

ToCMYK(c) ==
    LET w == RGBA(c)
        most == Max({Uint8(w.r), Uint8(w.g), Uint8(w.b)})
        ink(x) == ((most - Uint8(x)) * 255) \div most
    IN  IF most = 0 THEN CMYK(0, 0, 0, 255) ELSE CMYK(ink(w.r), ink(w.g), ink(w.b), 255 - most)

-----------------------------------------------------------------------------
(* Points and rectangles; Max is outside the rectangle. *)
Pt(x, y) == [X |-> x, Y |-> y]
PAdd(p, q) == Pt(p.X + q.X, p.Y + q.Y)
PSub(p, q) == Pt(p.X - q.X, p.Y - q.Y)
Rect(x0, y0, x1, y1) == [Min |-> Pt(x0, y0), Max |-> Pt(x1, y1)]
PIn(p, r) == r.Min.X <= p.X /\ p.X < r.Max.X /\ r.Min.Y <= p.Y /\ p.Y < r.Max.Y
Dx(r) == r.Max.X - r.Min.X
Dy(r) == r.Max.Y - r.Min.Y
Empty(r) == r.Min.X >= r.Max.X \/ r.Min.Y >= r.Max.Y
Eq(r, s) == r = s \/ (Empty(r) /\ Empty(s))
In(r, s) == Empty(r) \/ (/\ s.Min.X <= r.Min.X /\ r.Max.X <= s.Max.X
                         /\ s.Min.Y <= r.Min.Y /\ r.Max.Y <= s.Max.Y)
RAdd(r, p) == [Min |-> PAdd(r.Min, p), Max |-> PAdd(r.Max, p)]
RSub(r, p) == [Min |-> PSub(r.Min, p), Max |-> PSub(r.Max, p)]

Intersect(r, s) ==
    LET t == Rect(Max({r.Min.X, s.Min.X}), Max({r.Min.Y, s.Min.Y}),
                  Min({r.Max.X, s.Max.X}), Min({r.Max.Y, s.Max.Y}))
    IN  IF Empty(t) THEN Rect(0, 0, 0, 0) ELSE t

Union(r, s) ==
    IF Empty(r) THEN s ELSE IF Empty(s) THEN r
    ELSE Rect(Min({r.Min.X, s.Min.X}), Min({r.Min.Y, s.Min.Y}),
              Max({r.Max.X, s.Max.X}), Max({r.Max.Y, s.Max.Y}))

-----------------------------------------------------------------------------
(* An image: its rectangle and its pixels row by row. *)
Clear == Rgba(0, 0, 0, 0)
NewRGBA(r) == [Rect |-> r, Stride |-> Dx(r), Pix |-> [i \in 1..(Dx(r) * Dy(r)) |-> Clear]]
PixOffset(m, p) == (p.Y - m.Rect.Min.Y) * m.Stride + (p.X - m.Rect.Min.X)
At(m, p) == IF PIn(p, m.Rect) THEN m.Pix[PixOffset(m, p) + 1] ELSE Clear
Set(m, p, c) ==
    IF PIn(p, m.Rect) THEN [m EXCEPT !.Pix[PixOffset(m, p) + 1] = ToRGBA(c)] ELSE m

(* Compositing on premultiplied values. *)
Over(sc, dc) ==
    LET s == RGBA(sc)
        keep(d) == Wide(d * (255 - s.a \div 257)) \div 255
    IN  IF s.a = 65535 THEN ToRGBA(sc)
        ELSE IF s.a = 0 THEN dc
        ELSE Rgba(Uint8(s.r + keep(dc.R)), Uint8(s.g + keep(dc.G)),
                  Uint8(s.b + keep(dc.B)), Uint8(s.a + keep(dc.A)))

(* src is a function from points to colours; it is read from sp on, whatever
   the clipping to the destination cut off.                                  *)
Draw(dst, r, src, sp, op) ==
    LET dr == Intersect(r, dst.Rect)
        from(p) == src[PAdd(sp, PSub(p, dr.Min))]
        point(i) == PAdd(dst.Rect.Min, Pt((i - 1) % dst.Stride, (i - 1) \div dst.Stride))
    IN  [dst EXCEPT !.Pix =
           [i \in DOMAIN dst.Pix |->
              IF ~PIn(point(i), dr) THEN dst.Pix[i]
              ELSE IF op = "Src" THEN ToRGBA(from(point(i)))
              ELSE Over(from(point(i)), dst.Pix[i])]]
=============================================================================
