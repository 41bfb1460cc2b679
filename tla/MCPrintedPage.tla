--------------------------- MODULE MCPrintedPage ---------------------------
(***************************************************************************)
(* Printers, clients and small images for TLC. With one and two pixels an  *)
(* inch a 5x7 photo has 5 by 7 or 10 by 14 pixels.                         *)
(***************************************************************************)
EXTENDS PrintedPage, TLC

Same(n) == [e \in Edges |-> n]

(* A printer of photos: full bleed, duplex with the back sides turned.     *)
PhotoPrinter ==
  [formats |-> {"pclm", "pdf"}, sides |-> {"one", "long", "short"},
   qualities |-> {"fast", "normal", "best"}, sizes |-> {"letter", "5x7", "A3"},
   pclmResolutions |-> {}, resolutions |-> {300, 600}, margins |-> Same(0),
   marginsSupported |-> Same({0, 318}), backSide |-> "rotated"]

(* An office printer, with margins of half an inch, and a narrower one.    *)
OfficePrinter ==
  [PhotoPrinter EXCEPT !.formats = {"pdf"}, !.qualities = {"normal", "best"},
                       !.pclmResolutions = {300},
                       !.margins = [Same(1270) EXCEPT !.left = 318],
                       !.marginsSupported = [Same({0}) EXCEPT !.left = {318}],
                       !.backSide = "flipped"]

(* PWG only, one side, 600 dpi, drafts.                                    *)
DraftPrinter ==
  [PhotoPrinter EXCEPT !.formats = {"pwg"}, !.sides = {"one"}, !.qualities = {"fast"},
                       !.sizes = {}, !.resolutions = {600}, !.margins = Same(1270)]

(* Nothing the library can send, on paper it does not lay out.             *)
OtherPrinter ==
  [PhotoPrinter EXCEPT !.formats = {"jpeg"}, !.sizes = {"A3"}, !.backSide = "unknown"]

MoreMargins == [top |-> Inch * 2, left |-> Inch, right |-> 0, bottom |-> Inch]
LessMargins == [top |-> Mil(250), left |-> Mil(400), right |-> 0, bottom |-> Mil(1500)]

Photo == [size |-> "5x7", sides |-> "book"]

(* How an image is laid out.                                               *)
FitLayouts   == {[fit |-> TRUE] @@ o @@ a :
                   o \in {[orientation |-> "landscape"], [category |-> "other"]},
                   a \in {[alignment |-> {"center"}], [copies |-> 2]}}
FillLayouts  == {[fill |-> TRUE, category |-> k] : k \in {"photo", "document"}}
PlainLayouts == {[orientation |-> o] @@ a :
                   o \in {"portrait", "landscape", "auto"},
                   a \in {[alignment |-> {"centerH"}], [category |-> "photo"],
                          [category |-> "document"]}}

(* Layouts of pages of 10 by 14 pixels.                                    *)
BestLayouts  == {[fit |-> TRUE, margins |-> MoreMargins], [orientation |-> "portrait"]}

DrawnSettings == {Photo @@ l : l \in FitLayouts \cup PlainLayouts}
                 \cup {Photo @@ l @@ [margins |-> MoreMargins] :
                         l \in FitLayouts \cup FillLayouts}
                 \cup {Photo @@ l @@ [quality |-> "best"] : l \in BestLayouts}

(* What the printer has to grant.                                          *)
OtherSettings ==
  {[size |-> s, sides |-> d, quality |-> q, fullBleed |-> b] @@ m @@ l :
     s \in {"5x7", "8x10"}, d \in {"none", "book", "tablet"},
     q \in {"fast", "best"}, b \in {"on", "off"},
     m \in {[margins |-> MoreMargins], [margins |-> LessMargins], [copies |-> 1]},
     l \in {[fit |-> TRUE, category |-> "photo"], [fill |-> TRUE, orientation |-> "portrait"],
            [fit |-> TRUE, fill |-> TRUE]}}

DrawnRequests == {<<PhotoPrinter, s>> : s \in DrawnSettings}

AllRequests ==
  DrawnRequests \cup
  {<<p, s>> : p \in {PhotoPrinter, OfficePrinter, DraftPrinter, OtherPrinter},
              s \in OtherSettings}

-----------------------------------------------------------------------------
File(mime, format, size, bad) ==
  [mime |-> mime, format |-> format, w |-> size[1], h |-> size[2], bad |-> bad,
   interlaced |-> FALSE]

Sizes == {<<7, 5>>, <<5, 8>>, <<9, 13>>, <<13, 14>>}

GoodFiles == {File("jpeg", "jpeg", s, -1) : s \in Sizes}
             \cup {File("png", "png", s, -1) : s \in {<<7, 5>>, <<9, 13>>}}
             \cup {File("ppm", "ppm", <<13, 14>>, -1)}

(* Images that are reduced from nine rows to one on some pages, and a PNG  *)
(* of four blocks of eight pixels each way, of which a first pass is read. *)
TallFiles == {File(t, t, <<17, 33>>, -1) : t \in {"png", "ppm"}}

InterlacedFile == [File("png", "png", <<9, 13>>, -1) EXCEPT !.interlaced = TRUE]

(* Files of which the third row cannot be read, of the library's own type. *)
BadFiles == {File("hpimage", t, <<13, 14>>, 2) : t \in {"jpeg", "ppm", "bitmap"}}

(* Files that are not what they are said to be, or only the system decodes;*)
(* the last is subsampled, and loses its last swath on some pages.         *)
OtherFiles == {File("other", "bitmap", <<3, 4>>, -1), File("other", "ppm", <<3, 4>>, -1),
               File("png", "bitmap", <<3, 4>>, -1), File("hpimage", "ppm", <<3, 4>>, -1),
               File("other", "bitmap", <<13, 14>>, -1)}

AllFiles == GoodFiles \cup TallFiles \cup {InterlacedFile} \cup BadFiles \cup OtherFiles

(* The pages of the jobs that are drawn.                                   *)
DrawnPages ==
  LET natives == {ToC(FinalParams(DefaultJobParams, s, Capabilities(PhotoPrinter))) :
                    s \in DrawnSettings}
                 \cup {ToC(FinalParams(DefaultJobParams,
                                       GetJobParams(FinalParams(DefaultJobParams, s,
                                                      Capabilities(PhotoPrinter))) @@ s,
                                       Capabilities(PhotoPrinter))) : s \in DrawnSettings}
  IN {PageOf(n, image, number) : n \in natives, image \in AllFiles, number \in {1, 2}}
=============================================================================
