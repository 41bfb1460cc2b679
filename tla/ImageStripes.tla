---------------------------- MODULE ImageStripes ----------------------------
(***************************************************************************)
(* A page of an image, from wprint_image_set_output_properties to the last *)
(* wprint_image_decode_stripe of plugin_pcl's _print_page: rotation,       *)
(* subsampling, scaling, clipping and padding, the decoders with the rows  *)
(* they cache, the cache of rotated rows, and the window of unscaled rows  *)
(* kept from one stripe to the next.                                       *)
(*                                                                         *)
(* A pixel of the image is <<row, column>> of the subsampled image, a      *)
(* pixel the scaler makes <<row, column>> of the scaled one. Memory is     *)
(* counted in pixels.                                                      *)
(***************************************************************************)
EXTENDS Integers, Sequences, FiniteSets, FiniteSetsExt

CONSTANTS
  Pages,           (* what is printed: images, pages and flags             *)
  StripHeight,     (* strip_height of the job                              *)
  MaxSendBuffs,    (* MAX_SEND_BUFFS                                       *)
  MaxDecodeMem,    (* MAX_DECODE_MEM, in pixels                            *)
  MinDecodeMem,    (* MIN_DECODE_MEM, in pixels                            *)
  RowUnit          (* cached rows are a multiple of this: 16 in the code   *)

ASSUME StripeAssumption ==
  /\ StripHeight \in Nat \ {0} /\ MaxSendBuffs \in Nat \ {0}
  /\ MinDecodeMem \in Nat \ {0} /\ MaxDecodeMem \in Nat /\ RowUnit \in Nat \ {0}

VARIABLES
  page,      (* the page: image, printable area, margins, flags            *)
  c,         (* what wprint_image_set_output_properties has worked out     *)
  dec,       (* the decoder: its swath, rows held, position in the stream  *)
  cache,     (* output_cache: the rotated rows                             *)
  win,       (* unscaled_rows: the rows of the image the scaler works on   *)
  req,       (* the call of wprint_image_decode_stripe                     *)
  out,       (* rgb_pixels, the buffer of the stripe                       *)
  sent,      (* the rows the plugin has sent                               *)
  pc

vars == <<page, c, dec, cache, win, req, out, sent, pc>>

Least(a, b)    == IF a < b THEN a ELSE b
Greatest(a, b) == IF a > b THEN a ELSE b
Blank == <<-1, -1>>  (* white                                              *)
Stale == <<-2, -2>>  (* with a byte of what was in the buffer before       *)

-----------------------------------------------------------------------------
(* The decoder of a file: by its MIME type, or, for the library's own type,*)
(* the first whose header the file has. The operating system decodes what  *)
(* else there is, and not PPM.                                             *)
Decoder(p) == IF p.mime = "hpimage" THEN p.format
              ELSE IF p.mime = "other" THEN "bitmap" ELSE p.mime

(* get_hdr of that decoder finds the header it expects.                    *)
HasHeader(p) == IF Decoder(p) = "bitmap" THEN p.format # "ppm"
                                         ELSE Decoder(p) = p.format

(* Rotation and flags, as _print_page chooses them.                        *)

FrontRotation(p) ==
  IF \/ "landscape" \in p.flags /\ "portrait" \notin p.flags
     \/ "portrait" \notin p.flags /\ "autoRotate" \in p.flags /\ p.w > p.h
  THEN 90 ELSE 0

Rotation(p) ==
  IF p.back /\ "rotateBack" \in p.flags /\ "prerotated" \notin p.flags
  THEN FrontRotation(p) + 180 ELSE FrontRotation(p)

Flags(p) ==
  IF "centerOnOrientation" \in p.flags
  THEN (p.flags \ {"centerH", "centerV"})
         \cup {IF FrontRotation(p) = 0 THEN "centerH" ELSE "centerV"}
  ELSE p.flags

Sideways(rot) == rot \in {90, 270}

(* Margins belong to the content: they turn with it.                       *)
Margins(p) ==
  IF Sideways(Rotation(p))
  THEN [top |-> p.left, left |-> p.bottom, bottom |-> p.right, right |-> p.top]
  ELSE [top |-> p.top, left |-> p.left, bottom |-> p.bottom, right |-> p.right]

Paddings(p) ==
  LET m == Margins(p)
  IN IF Rotation(p) \in {180, 270}
     THEN [top |-> m.bottom, left |-> m.right, right |-> m.left, bottom |-> m.top]
     ELSE m

PrintableWidth(p)  == p.width - (Margins(p).left + Margins(p).right)
PrintableHeight(p) == p.height - (Margins(p).top + Margins(p).bottom)

-----------------------------------------------------------------------------
(* Subsampling and scaling.                                                *)

Turned(p, w, h) == IF Sideways(Rotation(p)) THEN <<h, w>> ELSE <<w, h>>

Subsamples(p) == Decoder(p) \in {"jpeg", "bitmap"}

(* The image halved k times is still too large: subsample more.            *)
StillLarge(p, k) ==
  LET w == Turned(p, p.w, p.h)[1] \div 2 ^ k
      h == Turned(p, p.w, p.h)[2] \div 2 ^ k
  IN \/ /\ "autoScale" \in p.flags
        /\ w > PrintableWidth(p) /\ h > PrintableHeight(p)
     \/ /\ "autoFit" \in p.flags
        /\ w > PrintableWidth(p) \/ h > PrintableHeight(p)

SampleSize(p) ==
  IF Subsamples(p)
  THEN 2 ^ (CHOOSE k \in 0 .. p.w + p.h :
              /\ ~ StillLarge(p, k + 1)
              /\ \A j \in 1 .. k : StillLarge(p, j))
  ELSE 1

(* Subsampling alone has reached the target size: no scaling.              *)
TargetReached(p, w, h) ==
  LET pw == PrintableWidth(p)
      ph == PrintableHeight(p)
  IN \/ /\ w = pw
        /\ \/ "autoScale" \in p.flags /\ h >= ph
           \/ "autoFit" \in p.flags /\ h < ph
     \/ /\ h = ph
        /\ "autoScale" \in p.flags \/ "autoFit" \in p.flags
        /\ w >= pw

ScaledSize(p, w, h) ==
  LET pw == PrintableWidth(p)
      ph == PrintableHeight(p)
      useHeight == IF "autoScale" \in p.flags THEN ph * w >= pw * h
                                              ELSE ph * w < pw * h
  IN IF useHeight THEN <<(ph * w) \div h, ph>> ELSE <<pw, (pw * h) \div w>>

ScaleMode(w, h, sw, sh) ==
  IF w >= sw /\ h >= sh THEN "down"
  ELSE IF w <= sw /\ h <= sh THEN "up" ELSE "mixed"

(* 1 when the quotient has a fraction.                                     *)
Rest(n, d) == IF n % d = 0 THEN 0 ELSE 1

(* LIB_PHOTO_SCALER_calculate_scaling_rows: the rows of the source that    *)
(* output rows from to last need, and how many rows it generates. It never *)
(* makes a single row, and when it enlarges it may make one more.          *)
ScalingRows(mode, srcH, outH, from, last) ==
  LET single == from = last
      start  == IF single /\ from > 0 THEN from - 1 ELSE from
      end    == Least(IF single /\ from = 0 THEN 1 ELSE last, outH - 1)
      up     == mode = "up"
      upEnd  == end * (srcH - 1)
      dnEnd  == (end + 1) * srcH
      srcEnd == IF up THEN upEnd \div (outH - 1) + Rest(upEnd, outH - 1)
                      ELSE dnEnd \div outH - 1 + Rest(dnEnd, outH)
  IN [first  |-> IF up THEN (start * (srcH - 1)) \div (outH - 1)
                       ELSE (start * srcH) \div outH,
      last   |-> Least(srcEnd, srcH - 1),
      start  |-> start,
      rows   |-> end - start + 1 + (IF up THEN Rest(upEnd, outH - 1) ELSE 0),
      offset |-> from - start]

(* The rows of the source with a weight in output row y.                   *)
SourceRows(mode, srcH, outH, y) ==
  IF mode = "up"
  THEN LET n == y * (srcH - 1)
       IN n \div (outH - 1) .. (n + outH - 2) \div (outH - 1)
  ELSE (y * srcH) \div outH .. ((y + 1) * srcH - 1) \div outH

(* _scale_row_down: how many rows of the source it takes for output row y. *)
(* Their weights are counted in 256ths of a row: what is left of the row   *)
(* it starts in, whole rows, and what it needs of the last. (The code adds *)
(* up the positions of the rows of a stripe, each rounded up by less than  *)
(* 2^-24: as good as exact, for the heights there are.)                    *)
RowsWeighed(srcH, outH, y) ==
  LET total == (256 * srcH) \div outH
      top   == Least(256 - (((256 * y * srcH) \div outH) % 256), total)
  IN IF total = top THEN 2 ELSE 1 + (total - top) \div 256 + Rest(total - top, 256)

-----------------------------------------------------------------------------
(* wprint_image_set_output_properties                                      *)

(* Where the image goes along one axis: what is cut off before it, and the *)
(* padding before and after it. far: the rotation starts at the far edge.  *)
Place(size, area, centred, cutsFar, padsFar) ==
  LET d == Greatest(area - size, size - area)
  IN IF size > area
     THEN [cut |-> IF centred THEN d \div 2 ELSE IF cutsFar THEN d ELSE 0,
           before |-> 0, after |-> 0]
     ELSE IF centred
     THEN [cut |-> 0, before |-> d \div 2, after |-> d \div 2 + (d % 2)]
     ELSE [cut |-> 0, before |-> IF padsFar THEN d ELSE 0,
                      after  |-> IF padsFar THEN 0 ELSE d]

Nowhere == [cut |-> 0, before |-> 0, after |-> 0]

Across(p, width, scale) ==
  IF scale = "autoScale" THEN Nowhere
  ELSE Place(width, PrintableWidth(p), "centerH" \in Flags(p),
             Rotation(p) # 0, Rotation(p) \in {180, 270})

Down(p, height, scale) ==
  IF scale = "autoScale" THEN Nowhere
  ELSE Place(height, PrintableHeight(p), "centerV" \in Flags(p),
             Rotation(p) \in {180, 270}, Rotation(p) \in {180, 270})

OutputProperties(p) ==
  LET pw      == PrintableWidth(p)
      ph      == PrintableHeight(p)
      sample  == SampleSize(p)
      size    == Turned(p, p.w \div sample, p.h \div sample)
      w       == size[1]
      h       == size[2]
      wanted  == {"autoScale", "autoFit"} \cap p.flags
      scale   == IF wanted # {} /\ ~ TargetReached(p, w, h)
                 THEN CHOOSE f \in wanted : "autoScale" \in wanted => f = "autoScale"
                 ELSE "none"
      scaled  == IF scale = "none" THEN size ELSE ScaledSize(p, w, h)
      mode    == IF scale = "none" THEN "none" ELSE ScaleMode(w, h, scaled[1], scaled[2])
      stripes == {i \in 0 .. Least(ph, scaled[2]) - 1 : i % StripHeight = 0}
      need    == {ScalingRows(mode, h, scaled[2], i,
                              Least(i + StripHeight - 1, scaled[2] - 1)) : i \in stripes}
      x == Across(p, scaled[1], scale)
      y == Down(p, scaled[2], scale)
      m == Paddings(p)
  IN [rot |-> Rotation(p), printW |-> pw, printH |-> ph, sample |-> sample,
      sampW |-> p.w \div sample, sampH |-> p.h \div sample,
      scale |-> scale, mode |-> mode,
      scaledW |-> scaled[1], scaledH |-> scaled[2],
      outW |-> IF scale = "none" THEN Least(pw, w) ELSE w,
      srcH |-> h,
      colOff |-> x.cut, rowOff |-> y.cut,
      left |-> m.left + x.before, right |-> m.right + x.after,
      top |-> m.top + y.before, bottom |-> m.bottom + y.after,
      outRows |-> IF scale = "none" THEN StripHeight
                  ELSE Max({StripHeight} \cup {n.rows + 1 : n \in need}),
      winRows |-> IF scale = "none" THEN 0
                  ELSE Max({n.last - n.first + 3 : n \in need})]

(* What is asked of a page and an image: margins leave something to print  *)
(* on, and a page to be filled is at least a stripe high; neither the      *)
(* image sampled nor what it is scaled to is empty; to be enlarged it is   *)
(* more than a pixel each way, as the scaler divides by its width and      *)
(* height less one; and the memory there is at least holds a row.          *)
Drawable(p) ==
  LET o == OutputProperties(p)
  IN /\ {p.w, p.h, p.width, p.height, p.top, p.left, p.right, p.bottom} \subseteq Nat
     /\ SampleSize(p) \in Nat \ {0}
     /\ o.printW > 0 /\ o.printH > 0
     /\ o.scale = "autoScale" => o.printH >= StripHeight
     /\ o.sampW > 0 /\ o.sampH > 0 /\ o.scaledW > 0 /\ o.scaledH > 0
     /\ o.mode = "up" => o.outW > 1 /\ o.srcH > 1 /\ o.scaledW > 1 /\ o.scaledH > 1
     /\ o.sampW <= MinDecodeMem /\ o.sampH <= MinDecodeMem

ASSUME PageAssumption == \A p \in Pages : Drawable(p)

PadLeft   == c.left
PadTop    == c.top
PadRight  == IF page.padAll THEN c.right ELSE 0
PadBottom == IF page.padAll THEN c.bottom ELSE 0

(* The area of the image on the page: _get_width and _get_height with      *)
(* PAD_NONE, and the page with its paddings.                               *)
AreaWidth  == IF c.scale = "autoScale" THEN c.printW
              ELSE IF c.scale = "autoFit" THEN c.scaledW ELSE c.outW
AreaHeight == IF c.scale = "autoScale" THEN c.printH
              ELSE Least(c.scaledH, c.printH)
PageWidth  == PadLeft + AreaWidth + PadRight
PageHeight == PadTop + AreaHeight + PadBottom

BufferSize == Greatest(Greatest(c.scaledW, c.scaledH), PageWidth) * c.outRows

(* wprint_image_get_info: a file without the header of its type is not     *)
(* printed.                                                                *)
GetInfo ==
  /\ pc = "setup"
  /\ req' = [req EXCEPT !.rc = IF HasHeader(page) THEN "ok" ELSE "error"]
  /\ pc' = IF HasHeader(page) THEN "info" ELSE "done"
  /\ UNCHANGED <<page, c, dec, cache, win, out, sent>>

SetOutputProperties ==
  /\ pc = "info"
  /\ c' = OutputProperties(page)
  /\ pc' = "page"
  /\ UNCHANGED <<page, dec, cache, win, req, out, sent>>

-----------------------------------------------------------------------------
(* The decoders.                                                           *)

(* wprint_image_compute_rows_to_cache                                      *)
RowsToCache ==
  LET rowWidth == IF Sideways(c.rot) THEN c.sampH ELSE c.sampW
      memory   == Greatest(MaxDecodeMem - BufferSize * MaxSendBuffs
                                        - c.winRows * c.outW,
                           MinDecodeMem)
      most     == memory \div rowWidth
      rows     == IF most >= RowUnit THEN most - (most % RowUnit) ELSE most
  IN Least(rows, IF Sideways(c.rot) THEN Greatest(c.sampW, c.sampH) ELSE c.sampH)

InputRows == IF Sideways(c.rot) THEN 1 ELSE RowsToCache

(* decode_row of a decoder whose swath of cached rows does not hold row:   *)
(* line is the row it returns, ok is FALSE when it returns none.           *)
Load(d, row, base, reads) ==
  LET swath == (row \div InputRows) * InputRows
  IN [swath |-> swath, base |-> base, pos |-> Max(reads) + 1,
      ok    |-> page.bad \notin reads /\ reads \subseteq 0 .. c.sampH - 1,
      line  |-> base + (row - swath)]

(* JPEG and PNG are streams: the rows from where the stream stands to the  *)
(* end of the swath are read, and the stream is opened anew to go back.    *)
Stream(d, row, height) ==
  LET n     == InputRows
      swath == (row \div n) * n
      back  == d.swath # -1 /\ row < d.swath
      pos   == IF back THEN 0 ELSE d.pos
      from  == IF back \/ d.swath = -1 THEN 0 ELSE d.swath + n
      base  == pos + (swath - from)
  IN Load(d, row, base, pos .. base + Least(n, height - swath) - 1)

(* Mutant: expects the rows of the image before subsampling.               *)
JpegRowWhole(d, row) == Stream(d, row, page.h)

JpegRow(d, row) == Stream(d, row, c.sampH)

PngRow(d, row) == Stream(d, row, page.h)

(* A PPM is read at any row, and so is the operating system's bitmap, as   *)
(* far as it has such a row.                                               *)
Direct(d, row) ==
  LET swath == (row \div InputRows) * InputRows
  IN Load(d, row, swath, swath .. swath + Least(InputRows, page.h - swath) - 1)

Decoded(d, row) ==
  IF row < 0 \/ row >= c.sampH THEN [d EXCEPT !.ok = FALSE]
  ELSE IF d.swath # -1 /\ row >= d.swath /\ row < d.swath + InputRows
  THEN [d EXCEPT !.ok = TRUE, !.line = d.base + (row - d.swath)]
  ELSE CASE Decoder(page) = "jpeg"   -> JpegRow(d, row)
         [] Decoder(page) = "png"    -> PngRow(d, row)
         [] OTHER                    -> Direct(d, row)

-----------------------------------------------------------------------------
(* wprint_image_decode_stripe, a call of the plugin.                       *)

NoRequest == [start |-> 0, rows |-> 0, height |-> 0, blank |-> 0, at |-> 0,
              count |-> 0, y |-> 0, got |-> 0, scaled |-> 0, moved |-> 0, rc |-> "ok"]

(* The plugin asks for the next rows, in a buffer with whatever it held.   *)
(* The rows above the image, or below it when the stripe starts there, are *)
(* white.                                                                  *)
Request ==
  /\ pc = "page" /\ sent < PageHeight
  /\ LET rows  == Least(PageHeight - sent, StripHeight)
         blank == IF sent < PadTop THEN Least(rows, PadTop - sent)
                  ELSE IF page.padAll /\ sent >= PadTop + AreaHeight
                  THEN Least(rows, PageHeight - sent)
                  ELSE 0
     IN /\ req' = [NoRequest EXCEPT !.start = sent + blank, !.rows = rows - blank,
                                    !.height = blank, !.blank = blank,
                                    !.at = sent + blank - PadTop]
        /\ out' = [i \in 0 .. BufferSize - 1 |->
                     IF i < blank * PageWidth THEN Blank ELSE Stale]
        /\ pc' = IF rows = blank THEN "return"
                 ELSE IF c.scale = "none" THEN "plain" ELSE "scaling"
  /\ UNCHANGED <<page, c, dec, cache, win, sent>>

(* Without scaling: the rows of the image the stripe asks for.             *)
Plain ==
  /\ pc = "plain"
  /\ req' = [req EXCEPT !.count = IF req.at + req.rows > AreaHeight
                                  THEN AreaHeight - req.at ELSE req.rows,
                        !.y = req.at + c.rowOff, !.got = 0]
  /\ pc' = "decode"
  /\ UNCHANGED <<page, c, dec, cache, win, out, sent>>

(* With scaling: how many scaled rows, and where they start.               *)
Scaling ==
  /\ pc = "scaling"
  /\ LET from == req.at + Greatest(0, c.scaledH - c.printH) \div 2
     IN req' = [req EXCEPT !.at = from,
                           !.scaled = IF from + req.rows > c.scaledH
                                      THEN c.scaledH - from ELSE req.rows]
  /\ pc' = "rows"
  /\ UNCHANGED <<page, c, dec, cache, win, out, sent>>

StripeRows == Least(req.scaled, StripHeight)

Needed == ScalingRows(c.mode, c.srcH, c.scaledH, req.at,
                      Least(req.at + StripeRows - 1, c.scaledH - 1))

(* The rows the scaler needs: those decoded before move to the front of    *)
(* the window.                                                             *)
Window ==
  /\ pc = "rows" /\ req.scaled > 0
  /\ LET n    == Needed
         kept == IF n.first <= win.last THEN win.last - n.first + 1 ELSE 0
         more == n.last - (n.first + kept) + 1
     IN /\ win' = [first |-> n.first, last |-> n.last,
                   rows  |-> [i \in 1 .. kept |-> win.rows[n.first - win.first + i]]]
        /\ req' = [req EXCEPT !.count = more, !.y = n.first + kept + c.rowOff, !.got = 0,
                              !.rc = IF more > 0 \/ kept > 0 THEN @ ELSE "nothing"]
        /\ pc' = IF more > 0 THEN "decode" ELSE IF kept > 0 THEN "emit" ELSE "return"
  /\ UNCHANGED <<page, c, dec, cache, out, sent>>

(* What a decoder makes of a pixel of the file. png_read_rows fills the    *)
(* rows of an interlaced file as a display would, and the decoder calls it *)
(* once for a row: it has the first of seven passes, a pixel in eight of   *)
(* each row and column, spread over the others of its block.               *)
Seen(pixel) ==
  IF Decoder(page) = "png" /\ page.interlaced
  THEN <<8 * (pixel[1] \div 8), 8 * (pixel[2] \div 8)>> ELSE pixel

(* The pixels of a row of the turned image, given its decoded form.        *)
TurnedRow(line, width) ==
  [x \in 0 .. width - 1 |->
     Seen(CASE c.rot = 0   -> <<line, x + c.colOff>>
            [] c.rot = 180 -> <<line, c.sampW - x - c.colOff - 1>>
            [] c.rot = 90  -> <<cache.lines[c.sampH - (x + c.colOff)], line>>
            [] c.rot = 270 -> <<cache.lines[x + c.colOff + 1], c.sampW - line - 1>>)]

(* A decoded row goes to the window, or to its place in the buffer.        *)
Store(row) ==
  IF c.scale # "none"
  THEN /\ win' = [win EXCEPT !.rows = Append(@, row)]
       /\ UNCHANGED out
       /\ req' = [req EXCEPT !.count = @ - 1, !.y = @ + 1, !.got = @ + 1]
  ELSE /\ out' = LET at == req.height * PageWidth + PadLeft
                 IN [i \in DOMAIN out |-> IF i >= at /\ i < at + c.outW
                                          THEN row[i - at] ELSE out[i]]
       /\ req' = [req EXCEPT !.count = @ - 1, !.y = @ + 1, !.got = @ + 1,
                             !.height = @ + 1, !.start = @ + 1, !.rows = @ - 1]
       /\ UNCHANGED win

Fail == /\ req' = [req EXCEPT !.rc = "error"]
        /\ pc' = "return"

(* _decode_stripe, one row: upright, the decoder's row; sideways, a row of *)
(* the cache.                                                              *)
Upright ==
  /\ pc = "decode" /\ ~ Sideways(c.rot) /\ req.count > 0 /\ req.y < c.sampH
  /\ dec' = Decoded(dec, IF c.rot = 0 THEN req.y ELSE c.sampH - req.y - 1)
  /\ IF dec'.ok
     THEN Store(TurnedRow(dec'.line, c.outW)) /\ UNCHANGED pc
     ELSE Fail /\ UNCHANGED <<win, out>>
  /\ UNCHANGED <<page, c, cache, sent>>

InCache(y) == cache.start # -1 /\ y >= cache.start /\ y < cache.start + RowsToCache

FromCache ==
  /\ pc = "decode" /\ Sideways(c.rot) /\ req.count > 0 /\ req.y < c.sampW
  /\ InCache(req.y)
  /\ Store(TurnedRow(req.y, c.outW))
  /\ UNCHANGED <<page, c, dec, cache, sent, pc>>

(* Mutant: fills the cache from the number of the swath.                   *)
RefillFrom ==
  /\ pc = "decode" /\ Sideways(c.rot) /\ req.count > 0 /\ req.y < c.sampW
  /\ ~ InCache(req.y)
  /\ dec' = IF cache.start = -1 THEN Decoded(dec, 0) ELSE dec
  /\ IF cache.start = -1 /\ ~ dec'.ok
     THEN Fail /\ UNCHANGED cache
     ELSE /\ LET start == req.y \div RowsToCache
             IN cache' = [start |-> start, lines |-> <<>>]
          /\ pc' = "fill"
          /\ UNCHANGED req
  /\ UNCHANGED <<page, c, win, out, sent>>

(* The cache holds other rows: the whole image is decoded again for those  *)
(* from the start of the swath.                                            *)
Refill ==
  /\ pc = "decode" /\ Sideways(c.rot) /\ req.count > 0 /\ req.y < c.sampW
  /\ ~ InCache(req.y)
  /\ dec' = IF cache.start = -1 THEN Decoded(dec, 0) ELSE dec
  /\ IF cache.start = -1 /\ ~ dec'.ok
     THEN Fail /\ UNCHANGED cache
     ELSE /\ LET start == (req.y \div RowsToCache) * RowsToCache
             IN cache' = [start |-> start, lines |-> <<>>]
          /\ pc' = "fill"
          /\ UNCHANGED req
  /\ UNCHANGED <<page, c, win, out, sent>>

Fill ==
  /\ pc = "fill" /\ Len(cache.lines) < c.sampH
  /\ dec' = Decoded(dec, Len(cache.lines))
  /\ IF dec'.ok
     THEN /\ cache' = [cache EXCEPT !.lines = Append(@, dec'.line)]
          /\ pc' = IF Len(cache.lines) + 1 = c.sampH THEN "decode" ELSE "fill"
          /\ UNCHANGED req
     ELSE Fail /\ UNCHANGED cache
  /\ UNCHANGED <<page, c, win, out, sent>>

(* The rows asked for are decoded, or the image has no more. A sideways    *)
(* image that makes no progress is an error.                               *)
Decode ==
  /\ pc = "decode"
  /\ req.count = 0 \/ req.y >= IF Sideways(c.rot) THEN c.sampW ELSE c.sampH
  /\ IF Sideways(c.rot) /\ req.count > 0 /\ req.y = c.sampW
     THEN Fail
     ELSE /\ pc' = IF req.got = 0 THEN "return"
                   ELSE IF c.scale = "none" THEN "sides" ELSE "emit"
          /\ req' = [req EXCEPT !.rc = IF req.got = 0 THEN "nothing" ELSE @]
  /\ UNCHANGED <<page, c, dec, cache, win, out, sent>>

(* _scale_row_down_9in writes the first byte of a pixel three times, and   *)
(* leaves the second and third of what was there; the functions for other  *)
(* numbers of rows, and _scale_row_up, write all three.                    *)
ScaledPixel(y, x) ==
  IF c.mode = "down" /\ RowsWeighed(c.srcH, c.scaledH, y) = 9 THEN Stale ELSE <<y, x>>

(* LIB_PHOTO_SCALER_scale_image_data writes the rows it generates one after*)
(* the other; then each row moves to its place on the page, in the order   *)
(* that spares the rows still to move.                                     *)
Scaled ==
  LET n    == Needed
      base == req.height * PageWidth
  IN [i \in DOMAIN out |->
        IF i >= base /\ i < base + n.rows * c.scaledW
        THEN ScaledPixel(n.start + (i - base) \div c.scaledW, (i - base) % c.scaledW)
        ELSE out[i]]

Moves == \/ Needed.offset # 0 \/ c.scaledW > c.printW
         \/ PadLeft > 0 \/ PadRight > 0

Emit ==
  /\ pc = "emit"
  /\ out' = Scaled
  /\ req' = [req EXCEPT !.moved = IF Moves THEN 0 ELSE StripeRows]
  /\ pc' = "move"
  /\ UNCHANGED <<page, c, dec, cache, win, sent>>

(* Mutant: moves the rows from the first to the last, even when the page   *)
(* is wider.                                                               *)
MoveOrderDown(k) == k

MoveOrder(k) == IF PageWidth < c.scaledW THEN k ELSE StripeRows - 1 - k

MoveRow ==
  /\ pc = "move" /\ req.moved < StripeRows
  /\ LET m    == MoveOrder(req.moved)
         to   == (req.height + m) * PageWidth + PadLeft
         from == req.height * PageWidth + (m + Needed.offset) * c.scaledW
                   + Greatest(0, c.scaledW - c.printW) \div 2
     IN out' = [i \in DOMAIN out |->
                  IF i >= to /\ i < to + Least(c.scaledW, c.printW)
                  THEN out[from + (i - to)] ELSE out[i]]
  /\ req' = [req EXCEPT !.moved = @ + 1]
  /\ UNCHANGED <<page, c, dec, cache, win, sent, pc>>

Placed ==
  /\ pc = "move" /\ req.moved = StripeRows
  /\ req' = [req EXCEPT !.rows = @ - StripeRows, !.scaled = @ - StripeRows,
                        !.at = @ + StripeRows, !.height = @ + StripeRows,
                        !.start = @ + StripeRows]
  /\ pc' = "rows"
  /\ UNCHANGED <<page, c, dec, cache, win, out, sent>>

ScaledAll ==
  /\ pc = "rows" /\ req.scaled <= 0
  /\ pc' = "sides"
  /\ UNCHANGED <<page, c, dec, cache, win, req, out, sent>>

(* White on the left and the right of the rows made, and below the image.  *)
Sides ==
  /\ pc = "sides"
  /\ LET below == IF /\ page.padAll /\ req.rows > 0
                     /\ req.start >= PadTop + AreaHeight
                  THEN Least(req.rows, PageHeight - req.start) ELSE 0
         side(i) == /\ i \div PageWidth \in req.blank .. req.height - 1
                    /\ \/ i % PageWidth < PadLeft
                       \/ i % PageWidth >= PageWidth - PadRight
         under(i) == i \div PageWidth \in req.height .. req.height + below - 1
     IN /\ out' = [i \in DOMAIN out |->
                     IF side(i) \/ under(i) THEN Blank ELSE out[i]]
        /\ req' = [req EXCEPT !.height = @ + below]
  /\ pc' = "return"
  /\ UNCHANGED <<page, c, dec, cache, win, sent>>

(* The plugin sends the rows and goes on, or ends the page: with CORRUPT   *)
(* after an error, and as it is when it got nothing.                       *)
Return ==
  /\ pc = "return"
  /\ IF req.rc = "ok" /\ req.height > 0
     THEN /\ sent' = sent + req.height
          /\ pc' = IF sent + req.height >= PageHeight THEN "done" ELSE "page"
     ELSE pc' = "done" /\ UNCHANGED sent
  /\ UNCHANGED <<page, c, dec, cache, win, req, out>>

Next == \/ GetInfo \/ SetOutputProperties \/ Request \/ Plain \/ Scaling \/ Window
        \/ Upright \/ FromCache \/ Refill \/ Fill \/ Decode
        \/ Emit \/ MoveRow \/ Placed \/ ScaledAll \/ Sides \/ Return

(* wprint_image_get_info: nothing is decoded, cached or kept yet.          *)
Fresh ==
  /\ c = [scale |-> "unknown"]
  /\ dec = [swath |-> -1, base |-> 0, pos |-> 0, ok |-> TRUE, line |-> 0]
  /\ cache = [start |-> -1, lines |-> <<>>]
  /\ win = [first |-> -1, last |-> -1, rows |-> <<>>]
  /\ req = NoRequest
  /\ out = <<>>
  /\ sent = 0

Init == page \in Pages /\ pc = "setup" /\ Fresh

Spec == Init /\ [][Next]_vars

-----------------------------------------------------------------------------
(* What is expected of a page, said of the image and of the page.          *)

(* The pixel of the turned image at row y, column x.                       *)
TurnedPixel(y, x) ==
  CASE c.rot = 0   -> <<y, x>>
    [] c.rot = 90  -> <<c.sampH - 1 - x, y>>
    [] c.rot = 180 -> <<c.sampH - 1 - y, c.sampW - 1 - x>>
    [] c.rot = 270 -> <<x, c.sampW - 1 - y>>

(* The row of the scaled image in a row of the page.                       *)
ScaledAt(row) == row - PadTop + Greatest(0, c.scaledH - c.printH) \div 2

Expected(row, col) ==
  LET y == row - PadTop
      x == col - PadLeft
  IN IF y \notin 0 .. AreaHeight - 1 \/ x \notin 0 .. AreaWidth - 1 THEN Blank
     ELSE IF c.scale = "none" THEN Seen(TurnedPixel(y + c.rowOff, x + c.colOff))
     ELSE <<ScaledAt(row), x + Greatest(0, c.scaledW - c.printW) \div 2>>

(* The output properties are known.                                        *)
Known == c.scale # "unknown"

(* The state has the shape the code gives it; the scaler never has to      *)
(* enlarge one axis and reduce the other.                                  *)
TypeOK ==
  /\ page \in Pages
  /\ pc \in {"setup", "info", "page", "plain", "scaling", "rows", "decode", "fill",
             "emit", "move", "sides", "return", "done"}
  /\ Known =>
       /\ c.scale \in {"none", "autoScale", "autoFit"}
       /\ c.mode \in {"none", "up", "down"}
       /\ c.printW > 0 /\ c.printH > 0 /\ c.scaledW > 0 /\ c.scaledH > 0
       /\ c.rowOff >= 0 /\ c.colOff >= 0
       /\ sent \in 0 .. PageHeight
  /\ dec.swath >= -1 /\ dec.pos >= 0
  /\ req.rc \in {"ok", "nothing", "error"}
  /\ \A i \in DOMAIN out : out[i] \in {Blank, Stale} \cup (Nat \X Nat)

(* The rows below an image cut at the bottom: its next rows are in them.   *)
Overprinted(row) == /\ c.scale = "autoScale" /\ c.scaledH > c.printH
                    /\ row >= PadTop + AreaHeight

(* The rows reduced from nine rows of the image, paddings left out: their  *)
(* green and blue are not written, whatever the buffer held.               *)
Discoloured(row, col) ==
  /\ c.mode = "down" /\ row - PadTop \in 0 .. AreaHeight - 1
  /\ col - PadLeft \in 0 .. AreaWidth - 1
  /\ RowsWeighed(c.srcH, c.scaledH, ScaledAt(row)) = 9

(* Every row the plugin gets is that row of the page: the image turned,    *)
(* cut or scaled, in its place between the paddings, with nothing a stripe *)
(* before it has left in the buffer. Two exceptions are the code's own:    *)
(* rows below an image cut at the bottom, and rows reduced from nine rows  *)
(* of the image. Of an interlaced PNG it is the first pass that is printed.*)
StripeIsRight ==
  pc = "return" /\ req.rc = "ok" =>
    \A r \in 0 .. req.height - 1, x \in 0 .. PageWidth - 1 :
      \/ Overprinted(sent + r) \/ Discoloured(sent + r, x)
      \/ out[r * PageWidth + x] = Expected(sent + r, x)

(* When the scaler starts, the window holds every row of the image that    *)
(* weighs in the rows it is to make, each in its place, whatever was kept  *)
(* from the stripes before.                                                *)
WindowHoldsRows ==
  pc = "emit" =>
    \A y \in req.at .. req.at + StripeRows - 1 :
      \A r \in SourceRows(c.mode, c.srcH, c.scaledH, y) :
        /\ r - win.first + 1 \in DOMAIN win.rows
        /\ win.rows[r - win.first + 1] = [x \in 0 .. c.outW - 1 |-> Seen(TurnedPixel(r, x))]

(* The memory for unscaled rows, computed for stripes that start at row 0  *)
(* of the scaled image, also suffices for the stripes of the page, which   *)
(* start where paddings and cuts let them.                                 *)
WindowSuffices == pc = "emit" => Len(win.rows) <= c.winRows

(* The rows the scaler makes, up to two more than the stripe asks for, end *)
(* inside the buffer, wherever in it they start. (What is written beyond   *)
(* it is not followed.)                                                    *)
ScalerFits ==
  pc = "emit" => req.height * PageWidth + Needed.rows * c.scaledW <= BufferSize

(* They do when the image on the page is a stripe high, or more than two   *)
(* if it is enlarged: that is enough for some stripe of those the buffer   *)
(* is sized by to be full and to have the extra rows.                      *)
TallImagesFit ==
  Known /\ AreaHeight >= (IF c.mode = "up" THEN 2 * StripHeight + 1 ELSE StripHeight)
    => ScalerFits

(* The page that is printed has the size of the printable area with its    *)
(* margins, and an image to fill it covers it, one to fit in it does not   *)
(* exceed it, and either touches two of its edges.                         *)
PageIsFilled ==
  Known =>
    /\ page.padAll => PageWidth = page.width /\ PageHeight = page.height
    /\ \/ c.scale = "autoScale"
       \/ "autoScale" \in page.flags /\ "autoFit" \notin page.flags
       => c.scaledW >= c.printW /\ c.scaledH >= c.printH
    /\ c.scale = "autoFit" => c.scaledW <= c.printW /\ c.scaledH <= c.printH
    /\ c.scale # "none" => c.scaledW = c.printW \/ c.scaledH = c.printH

(* A page is filled with the image as it should, and sent pixel by pixel,  *)
(* with the exceptions of StripeIsRight; the scaler has the rows it works  *)
(* on, room for them, and for those it makes of an image that is not low.  *)
PageIsRight ==
  /\ Known => TypeOK
  /\ StripeIsRight /\ PageIsFilled
  /\ WindowHoldsRows /\ WindowSuffices /\ TallImagesFit

(* The swath of a subsampled bitmap is sized by the height of the file, so *)
(* a last swath that is not full asks for rows that are not there.         *)
LosesLastSwath ==
  Decoder(page) = "bitmap" /\ c.sample > 1 /\ c.sampH % InputRows # 0

(* A page ends with all its rows sent, or with an error when the file is   *)
(* not what it is said to be or a row of it cannot be read, and only then; *)
(* but a good bitmap that loses its last swath ends with an error too.     *)
GoodImagesPrint ==
  pc = "done" =>
    IF HasHeader(page) /\ page.bad = -1 /\ ~ LosesLastSwath
    THEN req.rc = "ok" /\ sent = PageHeight
    ELSE req.rc = "error" \/ (HasHeader(page) /\ sent = PageHeight)

(* The rows below the image are white, however the image is scaled.        *)
MarginsAreWhite ==
  pc = "return" /\ req.rc = "ok" =>
    \A r \in 0 .. req.height - 1, x \in 0 .. PageWidth - 1 :
      sent + r >= PadTop + AreaHeight => out[r * PageWidth + x] = Blank

(* An image that is to fit in the page is not cut.                         *)
FitIsWhole ==
  Known /\ "autoFit" \in page.flags /\ "autoScale" \notin page.flags =>
    c.scaledW <= c.printW /\ c.scaledH <= c.printH
=============================================================================
