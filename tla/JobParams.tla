----------------------------- MODULE JobParams -----------------------------
(***************************************************************************)
(* What becomes of the settings of a client: the parameters of a job in    *)
(* Java (wPrintJobParams) and in C (wprint_job_params_t), the conversions  *)
(* of the JNI layer, wprintGetFinalJobParams with the printable area, and  *)
(* the capabilities of a printer from the attributes it reports.           *)
(*                                                                         *)
(* A length is a whole number of 1/254000 inch, in which thousandths of an *)
(* inch and hundredths of a millimetre (the unit of IPP) are exact.        *)
(***************************************************************************)
EXTENDS Integers, Sequences, FiniteSets

CONSTANTS
  DefaultResolution,   (* DEFAULT_RESOLUTION: 300 pixels an inch           *)
  BestResolution       (* BEST_MODE_RESOLUTION: 600                        *)

ASSUME ResolutionAssumption ==
  DefaultResolution \in Nat \ {0} /\ BestResolution \in Nat \ {0}

Inch == 254000
Mil(n)       == 254 * n
Hundredth(n) == 100 * n
Pixels(length, dpi) == (length * dpi) \div Inch

Edges    == {"top", "left", "right", "bottom"}
NoMargins == [e \in Edges |-> 0]

ScaleFlags   == {"autoScale", "autoRotate", "centerV", "centerH"}
FitFlags     == {"autoFit", "autoRotate", "centerOnOrientation"}
CentreFlags  == {"centerV", "centerH", "centerOnOrientation"}
Orientations == {"autoRotate", "portrait", "landscape"}

-----------------------------------------------------------------------------
(* The capabilities of a printer, from its attributes.                     *)

(* _validate_supported_media_sizes: the sizes the library lays out, or a   *)
(* few when the printer names none.                                        *)
LaidOut == {"letter", "A4", "legal", "hagaki", "4x6", "L", "A6", "8x10", "5x7", "10x15"}

MediaSizes(a) == IF a.sizes = {} THEN {"letter", "A4", "4x6", "5x7"}
                                 ELSE a.sizes \cap LaidOut

(* The resolutions of PCLm, if the printer says, go before its others.     *)
Prints300(a) == 300 \in IF a.pclmResolutions # {} THEN a.pclmResolutions
                                                  ELSE a.resolutions

(* Full bleed is known by a margin of 0 on all four edges.                 *)
FullBleed(a) == \A e \in Edges : 0 \in a.marginsSupported[e]

CanDuplex(a) == {"short", "long"} \cap a.sides # {}

OwnMargins(a) == [e \in Edges |-> Hundredth(a.margins[e])]

RotatesBack(a) == a.backSide \notin {"unknown", "rotated"}

Capabilities(a) ==
  [pclm |-> "pclm" \in a.formats, pdf |-> "pdf" \in a.formats, pwg |-> "pwg" \in a.formats,
   qualities |-> a.qualities, sizes |-> MediaSizes(a), margins |-> OwnMargins(a),
   duplex |-> CanDuplex(a), res300 |-> Prints300(a), borderless |-> FullBleed(a),
   rotatesBack |-> RotatesBack(a)]

-----------------------------------------------------------------------------
(* Java: the settings of a client are a record with the keys it has given. *)

Given(s, key, otherwise) == IF key \in DOMAIN s THEN s[key] ELSE otherwise

(* Settings that are put in place of others where both have a key.         *)
Merged(new, old) ==
  [key \in DOMAIN new \cup DOMAIN old |-> IF key \in DOMAIN new THEN new[key] ELSE old[key]]

(* The copy constructor: it takes the default parameters of the printer,   *)
(* the bytes of the C parameters too, without what only settings say.      *)
Copy(j) == [j EXCEPT !.fit = FALSE, !.fill = FALSE, !.turn = {}, !.align = {}]

Turn(s) == CASE Given(s, "orientation", "auto") = "portrait"  -> {"portrait"}
             [] Given(s, "orientation", "auto") = "landscape" -> {"landscape"}
             [] OTHER                                         -> {"autoRotate"}

(* The alignment a client asks for, or that of the category it prints.     *)
Alignment(s) ==
  IF "alignment" \in DOMAIN s THEN s.alignment
  ELSE CASE Given(s, "category", "") = "photo"    -> {"center"}
         [] Given(s, "category", "") = "document" -> {"centerOnOrientation"}
         [] OTHER                                 -> {}

UpdateJobParams(j, s) ==
  [j EXCEPT !.borderless = IF "fullBleed" \in DOMAIN s THEN s.fullBleed = "on" ELSE @,
            !.duplex  = Given(s, "sides", @),
            !.quality = Given(s, "quality", @),
            !.fit     = Given(s, "fit", @),
            !.fill    = Given(s, "fill", @),
            !.size    = Given(s, "size", @),
            !.turn    = Turn(s),
            !.margins = Given(s, "margins", NoMargins),
            !.align   = Alignment(s)]

(* getJobParams: what the client is told of the final parameters. Neither  *)
(* the margins it asked for nor the alignment are among them.              *)
GetJobParams(j) ==
  [sides |-> j.duplex, quality |-> j.quality, fit |-> j.fit, fill |-> j.fill,
   size |-> j.size, fullBleed |-> IF j.borderless THEN "on" ELSE "off",
   orientation |-> IF "autoRotate" \in j.turn THEN "auto"
                   ELSE IF "landscape" \in j.turn THEN "landscape" ELSE "portrait"]

-----------------------------------------------------------------------------
(* The JNI layer.                                                          *)

Aligned(flags, align) ==
  IF align = {} THEN flags
  ELSE IF "center" \in align
  THEN (flags \ CentreFlags) \cup {"centerV", "centerH"}
  ELSE (flags \ CentreFlags) \cup (align \cap CentreFlags)

JobFlags(j) ==
  LET turn  == IF "portrait" \in j.turn THEN {"portrait"}
               ELSE IF "landscape" \in j.turn THEN {"landscape"} ELSE j.turn
      scale == IF j.fill THEN ScaleFlags ELSE IF j.fit THEN FitFlags ELSE {}
  IN Aligned(j.flags \cup turn \cup scale, j.align)

(* _covertJobParams_to_C: the bytes kept in Java, under Java's fields.     *)
ToC(j) ==
  [j.native EXCEPT !.size = j.size, !.quality = j.quality, !.duplex = j.duplex,
                   !.borderless = j.borderless, !.jobMargins = j.margins,
                   !.flags = JobFlags(j)]

(* _covertJobParams_to_Java                                                *)
ToJava(j, n) ==
  [j EXCEPT !.native = n,
            !.size = n.size, !.quality = n.quality, !.duplex = n.duplex,
            !.borderless = n.borderless, !.margins = n.jobMargins, !.flags = n.flags,
            !.fit  = FitFlags \subseteq n.flags,
            !.fill = ScaleFlags \subseteq n.flags,
            !.turn = Orientations \cap n.flags]

-----------------------------------------------------------------------------
(* The library.                                                            *)

(* wprintGetDefaultJobParams                                               *)
DefaultNative ==
  [pcl |-> "PCLm", size |-> "letter", quality |-> "normal", duplex |-> "none",
   borderless |-> FALSE, flags |-> {}, units |-> DefaultResolution,
   jobMargins |-> NoMargins, printMargins |-> NoMargins, width |-> 0, height |-> 0]

(* A wPrintJobParams made by its constructor, with them.                   *)
DefaultJobParams ==
  ToJava([native |-> DefaultNative, size |-> "letter", quality |-> "normal",
          duplex |-> "none", borderless |-> FALSE, margins |-> NoMargins,
          flags |-> {}, fit |-> FALSE, fill |-> FALSE, turn |-> {}, align |-> {}],
         DefaultNative)

(* wprintGetFinalJobParams, from here on: PCLm is preferred to PWG.        *)
PclType(n, caps) == IF caps.pclm \/ caps.pdf THEN "PCLm"
                    ELSE IF caps.pwg THEN "PWG" ELSE n.pcl

(* The quality asked for, or the nearest the printer has.                  *)
Quality(q, caps) ==
  LET order == CASE q = "fast"   -> <<"fast", "normal", "best">>
                 [] q = "normal" -> <<"normal", "fast", "best">>
                 [] q = "best"   -> <<"best", "normal", "fast">>
                 [] OTHER        -> <<>>
      has   == {i \in DOMAIN order : order[i] \in caps.qualities}
  IN IF has = {} THEN "normal"
     ELSE order[CHOOSE i \in has : \A k \in has : i <= k]

Size(size, caps) == IF size \in caps.sizes THEN size ELSE "letter"

(* Full bleed and margins do not get along, nor do full bleed and duplex.  *)
Borderless(n, caps) == n.borderless /\ caps.borderless /\ n.jobMargins = NoMargins

(* Mutant: gives duplex up for the full bleed asked for, granted or not.   *)
DuplexFirst(n, caps) ==
  IF ~ caps.duplex \/ n.borderless THEN "none" ELSE n.duplex

Duplex(n, caps) ==
  IF ~ caps.duplex \/ Borderless(n, caps) THEN "none" ELSE n.duplex

FinalFlags(n, caps) ==
  LET back == IF Duplex(n, caps) = "book" /\ ~ caps.rotatesBack THEN {"rotateBack"} ELSE {}
  IN n.flags \cup back
       \cup (IF "autoScale" \in n.flags THEN ScaleFlags
             ELSE IF "autoFit" \in n.flags THEN FitFlags ELSE {})

(* Every page is in 600 dpi at best quality, or if the printer has no 300. *)
Units(quality, caps) == IF quality = "best" \/ ~ caps.res300
                        THEN BestResolution ELSE DefaultResolution

-----------------------------------------------------------------------------
(* lib_printable_area                                                      *)

(* The sheet; 8x10 is laid out as A6.                                      *)
Sheet(size) ==
  CASE size = "letter" -> <<Mil(8500), Mil(11000)>>
    [] size = "legal"  -> <<Mil(8500), Mil(14000)>>
    [] size = "A4"     -> <<Mil(8270), Mil(11690)>>
    [] size = "hagaki" -> <<Mil(3940), Mil(5830)>>
    [] size = "L"      -> <<Mil(3500), Mil(5000)>>
    [] size = "5x7"    -> <<Mil(5000), Mil(7000)>>
    [] size \in {"4x6", "10x15"} -> <<Mil(4000), Mil(6000)>>
    [] size \in {"A6", "8x10"}   -> <<Mil(4130), Mil(5830)>>

(* printable_area_get_default_margins, for PCLm and PWG.                   *)
DefaultMargins(n, caps) ==
  IF n.borderless \/ n.pcl = "PWG" THEN NoMargins ELSE caps.margins

(* printable_area_get: a margin asked for counts as far as it exceeds the  *)
(* printer's own. One that does not leaves the print margin as it was.     *)
PrintableArea(n, margins) ==
  LET sheet == Sheet(n.size)
      print == [e \in Edges |->
                  IF ~ n.borderless /\ n.jobMargins[e] > margins[e]
                  THEN Pixels(n.jobMargins[e] - margins[e], n.units)
                  ELSE n.printMargins[e]]
  IN [n EXCEPT !.width  = Pixels(sheet[1] - (margins.left + margins.right), n.units),
               !.height = Pixels(sheet[2] - (margins.top + margins.bottom), n.units),
               !.printMargins = print]

GetFinal(n, caps) ==
  LET quality == Quality(n.quality, caps)
      final   == [n EXCEPT !.pcl = PclType(n, caps),
                           !.quality = quality,
                           !.size = Size(n.size, caps),
                           !.borderless = Borderless(n, caps),
                           !.duplex = Duplex(n, caps),
                           !.flags = FinalFlags(n, caps),
                           !.units = Units(quality, caps)]
  IN PrintableArea(final, DefaultMargins(final, caps))

(* wprintStartJob: how an image is sent to the printer, if it can be.      *)
PrintFormat(caps) == IF caps.pclm \/ caps.pdf THEN "PCLm"
                     ELSE IF caps.pwg THEN "PWG" ELSE "none"

(* A page of the job, as the plugin finds it: page_backside is set for odd *)
(* pages.                                                                  *)
PageOf(n, image, number) ==
  [mime |-> image.mime, format |-> image.format, w |-> image.w, h |-> image.h,
   bad |-> image.bad, interlaced |-> image.interlaced, width |-> n.width, height |-> n.height,
   top |-> n.printMargins.top, left |-> n.printMargins.left,
   right |-> n.printMargins.right, bottom |-> n.printMargins.bottom,
   flags |-> n.flags, back |-> n.duplex = "book" /\ number % 2 = 1,
   padAll |-> n.pcl \in {"PCLm", "PWG"}]
=============================================================================
